------------------------------ MODULE LruSpec ------------------------------
(***************************************************************************)
(* What zip_lru_list.c promises its two users, view_tree and name_tree: a  *)
(* sequence of entries, the most recently touched one first.  Inserting or *)
(* touching an entry puts it in front, removing the tail hands back the    *)
(* data of the least recently touched entry, destroying drops everything.  *)
(***************************************************************************)
EXTENDS Sequences, SequencesExt

CONSTANTS Node,   \* handles the list gives its user (lru_node_t addresses)
          Data,   \* what the user stores in an entry (the void *data)
          NULL    \* the C null pointer

VARIABLES open,   \* does the list exist
          order,  \* the entries, most recently touched first
          rtn     \* what the last call returned

vars == <<open, order, rtn>>

Entry == [node : Node, data : Data]

HandlesOf(s) == {s[i].node : i \in DOMAIN s}

Init == /\ open = FALSE
        /\ order = <<>>
        /\ rtn = NULL

Create == /\ ~open
          /\ open' = TRUE
          /\ order' = <<>>
          /\ rtn' = NULL

Insert(n, d) == /\ open
                /\ n \notin HandlesOf(order)
                /\ order' = <<[node |-> n, data |-> d]>> \o order
                /\ rtn' = n
                /\ UNCHANGED open

InsertFails == /\ open
               /\ UNCHANGED <<open, order>>
               /\ rtn' = NULL

\* Where the entry whose handle is n is, and the others in the order they have.
Place(n) == CHOOSE i \in DOMAIN order : order[i].node = n
Without(n) == RemoveAt(order, Place(n))

Touch(n) == /\ open
            /\ n \in HandlesOf(order)
            /\ order' = <<order[Place(n)]>> \o Without(n)
            /\ rtn' = NULL
            /\ UNCHANGED open

Delete(n) == /\ open
             /\ n \in HandlesOf(order)
             /\ order' = Without(n)
             /\ rtn' = NULL
             /\ UNCHANGED open

RemoveTail == /\ open
              /\ IF order = <<>>
                 THEN /\ rtn' = NULL
                      /\ UNCHANGED order
                 ELSE /\ rtn' = Last(order).data
                      /\ order' = Front(order)
              /\ UNCHANGED open

Destroy == /\ open
           /\ open' = FALSE
           /\ order' = <<>>
           /\ rtn' = NULL

Next == \/ Create
        \/ \E n \in Node, d \in Data : Insert(n, d)
        \/ InsertFails
        \/ \E n \in Node : Touch(n) \/ Delete(n)
        \/ RemoveTail
        \/ Destroy

Spec == Init /\ [][Next]_vars
=============================================================================
