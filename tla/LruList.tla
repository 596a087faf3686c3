------------------------------ MODULE LruList ------------------------------
(***************************************************************************)
(* zip_lru_list.c at the level of its pointers: malloc'd nodes with prev   *)
(* and next fields, a header, a tail and a count.  Every function of the   *)
(* file that changes a list is one action; lru_list_destroy, the only one  *)
(* with a loop, is one action per iteration.  A field of a freed node      *)
(* keeps its last value, as it does in the C heap until malloc reuses it.  *)
(*                                                                         *)
(* The users (view_tree, name_tree) call with a node that insert returned  *)
(* and that neither remove_tail nor delete has freed since.                *)
(***************************************************************************)
EXTENDS Integers, FiniteSets, Sequences

CONSTANTS Node,   \* addresses malloc can return for an lru_node_t
          Data,   \* values of the void *data field
          NULL    \* the null pointer

ASSUME NullAssumption == NULL \notin Node /\ NULL \notin Data

VARIABLES live,    \* is the lru_list_t allocated
          header, tail, count,
          alloc,   \* the lru_node_t's malloc'd and not freed
          prev, next, data,
          cursor,  \* the variable node of lru_list_destroy; NULL outside it
          closing, \* is lru_list_destroy running
          rtn      \* what the last completed call returned

list == <<header, tail, count>>
nodes == <<alloc, prev, next, data>>
vars == <<live, list, nodes, cursor, closing, rtn>>

Ptr == Node \cup {NULL}

Init == /\ live = FALSE
        /\ header = NULL /\ tail = NULL /\ count = 0
        /\ alloc = {}
        /\ prev = [x \in Node |-> NULL] /\ next = [x \in Node |-> NULL]
        /\ data = [x \in Node |-> NULL]
        /\ cursor = NULL /\ closing = FALSE
        /\ rtn = NULL

\* A call can start: the list exists and is not being destroyed.
Ready == live /\ ~closing

lru_list_create ==
  /\ ~live
  /\ live' = TRUE
  /\ header' = NULL /\ tail' = NULL /\ count' = 0
  /\ rtn' = NULL
  /\ UNCHANGED <<nodes, cursor, closing>>

\* The tail after node n was put in front: an empty list gets its only node.
TailWith(n) == IF header = NULL /\ tail = NULL THEN n ELSE tail

\* Mutant: the node before n still leads to it.
NextWithout_Kept(n) == next

\* The tail, and the next links, after node n # header left its place.
TailWithout(n) == IF n = tail THEN prev[n] ELSE tail
NextWithout(n) == [next EXCEPT ![prev[n]] = next[n]]

\* A fresh node n becomes the header; the old header, if there is one, gets
\* its prev link.
lru_list_insert(n, d) ==
  /\ Ready
  /\ n \notin alloc
  /\ alloc' = alloc \cup {n}
  /\ data' = [data EXCEPT ![n] = d]
  /\ next' = [next EXCEPT ![n] = header]
  /\ prev' = [x \in Node |-> IF x = n THEN NULL
                             ELSE IF x = header THEN n ELSE prev[x]]
  /\ header' = n
  /\ tail' = TailWith(n)
  /\ count' = count + 1
  /\ rtn' = n
  /\ UNCHANGED <<live, cursor, closing>>

\* malloc fails: the list stays as it was.  (The C function returns without
\* a value; NULL stands for that value.)
lru_list_insert_nomem ==
  /\ Ready
  /\ rtn' = NULL
  /\ UNCHANGED <<live, list, nodes, cursor, closing>>

\* Mutant: a touch leaves the node where it is.
lru_list_move_to_first_Noop(n) ==
  /\ Ready
  /\ n \in alloc
  /\ rtn' = NULL
  /\ UNCHANGED <<live, list, nodes, cursor, closing>>

lru_list_move_to_first(n) ==
  /\ Ready
  /\ n \in alloc
  /\ rtn' = NULL
  /\ IF n = header
     THEN UNCHANGED <<list, nodes>>
     ELSE /\ next' = [NextWithout(n) EXCEPT ![n] = header]
          /\ prev' = [x \in Node |->
                        IF x = n THEN NULL
                        ELSE IF x = header THEN n
                        ELSE IF n # tail /\ x = next[n] THEN prev[n]
                        ELSE prev[x]]
          /\ tail' = TailWithout(n)
          /\ header' = n
          /\ UNCHANGED <<count, alloc, data>>
  /\ UNCHANGED <<live, cursor, closing>>

lru_list_remove_tail ==
  /\ Ready
  /\ IF tail = NULL
     THEN /\ rtn' = NULL
          /\ UNCHANGED <<list, nodes>>
     ELSE /\ IF prev[tail] # NULL
             THEN /\ tail' = prev[tail]
                  /\ next' = [next EXCEPT ![prev[tail]] = NULL]
                  /\ UNCHANGED header
             ELSE /\ header' = NULL /\ tail' = NULL
                  /\ UNCHANGED next
          /\ count' = count - 1
          /\ rtn' = data[tail]
          /\ alloc' = alloc \ {tail}
          /\ UNCHANGED <<prev, data>>
  /\ UNCHANGED <<live, cursor, closing>>

lru_list_delete(n) ==
  /\ Ready
  /\ n \in alloc
  /\ \/ /\ n = header /\ next[n] # NULL
        /\ prev' = [prev EXCEPT ![next[n]] = NULL]
        /\ header' = next[n]
        /\ UNCHANGED <<tail, next>>
     \/ /\ n = header /\ next[n] = NULL
        /\ header' = NULL /\ tail' = NULL
        /\ UNCHANGED <<prev, next>>
     \/ /\ n # header /\ n = tail
        /\ next' = [next EXCEPT ![prev[n]] = NULL]
        /\ tail' = TailWithout(n)
        /\ UNCHANGED <<header, prev>>
     \/ /\ n # header /\ n # tail
        /\ next' = NextWithout(n)
        /\ prev' = [prev EXCEPT ![next[n]] = prev[n]]
        /\ UNCHANGED <<header, tail>>
  /\ alloc' = alloc \ {n}
  /\ count' = count - 1
  /\ rtn' = NULL
  /\ UNCHANGED <<live, data, cursor, closing>>

\* lru_list_destroy: node = header; while (node) free and advance; free(lru).
lru_list_destroy_call ==
  /\ Ready
  /\ closing' = TRUE
  /\ cursor' = header
  /\ rtn' = NULL
  /\ UNCHANGED <<live, list, nodes>>

lru_list_destroy_step ==
  /\ closing /\ cursor # NULL
  /\ header' = next[cursor]
  /\ alloc' = alloc \ {cursor}
  /\ cursor' = next[cursor]
  /\ UNCHANGED <<live, tail, count, prev, next, data, closing, rtn>>

lru_list_destroy_return ==
  /\ closing /\ cursor = NULL
  /\ live' = FALSE
  /\ closing' = FALSE
  /\ rtn' = NULL
  /\ UNCHANGED <<list, nodes, cursor>>

Next == \/ lru_list_create
        \/ \E n \in Node, d \in Data : lru_list_insert(n, d)
        \/ lru_list_insert_nomem
        \/ \E n \in Node : lru_list_move_to_first(n) \/ lru_list_delete(n)
        \/ lru_list_remove_tail
        \/ lru_list_destroy_call
        \/ lru_list_destroy_step
        \/ lru_list_destroy_return

Spec == Init /\ [][Next]_vars

-----------------------------------------------------------------------------
(* Properties.                                                             *)

TypeOK == /\ live \in BOOLEAN /\ closing \in BOOLEAN
          /\ header \in Ptr /\ tail \in Ptr /\ cursor \in Ptr
          /\ count \in Int
          /\ alloc \in SUBSET Node
          /\ prev \in [Node -> Ptr] /\ next \in [Node -> Ptr]
          /\ data \in [Node -> Data \cup {NULL}]
          /\ rtn \in Node \cup Data \cup {NULL}

\* Between calls the nodes form one doubly linked list: header and tail are
\* both set or both NULL, no link leads to a freed node, next and prev are
\* inverse to each other, only the tail has no next, only the header no prev.
\* Hence no function of zip_lru_list.c dereferences NULL or freed memory.
Linked ==
  Ready =>
    /\ (header = NULL) <=> (tail = NULL)
    /\ {header, tail} \subseteq alloc \cup {NULL}
    /\ \A x \in alloc :
         /\ next[x] \in alloc \cup {NULL} /\ prev[x] \in alloc \cup {NULL}
         /\ (next[x] = NULL) <=> (x = tail)
         /\ (prev[x] = NULL) <=> (x = header)
    /\ \A x, y \in alloc : (next[x] = y) <=> (prev[y] = x)

\* Following next from the header meets every allocated node: a set of nodes
\* that holds the header and the successor of each of its members is all of
\* them.  Links that are locally right but form a detached cycle violate it.
Reachable ==
  live => \A S \in SUBSET alloc :
            /\ header # NULL => header \in S
            /\ \A x \in S : next[x] # NULL => next[x] \in S
            => S = alloc

\* lru_list_get_count, which the size accounting of view_tree and name_tree
\* multiplies by sizeof(lru_node_t), is the number of nodes allocated.
CountIsLength == Ready => /\ IsFiniteSet(alloc)
                          /\ count = Cardinality(alloc)

\* lru_list_destroy frees every node it did not free yet: none outlives the
\* list.
NoLeak == ~live => alloc = {}

\* The list is sound: what zip_lru_list.c owes the trees that keep pointers
\* into it.
ListSound == Linked /\ Reachable /\ CountIsLength /\ NoLeak

-----------------------------------------------------------------------------
(* The list as its users see it.                                           *)

\* The nodes of the list, each but the first where next leads from the last.
Chain(s) == \A i \in DOMAIN s : s[i] = IF i = 1 THEN header ELSE next[s[i - 1]]
Chained == CHOOSE s \in [1 .. count -> alloc] : Chain(s)

Order == IF Ready
         THEN [i \in 1 .. count |->
                 [node |-> Chained[i], data |-> data[Chained[i]]]]
         ELSE <<>>

Abstract == INSTANCE LruSpec WITH open <- Ready, order <- Order

\* Each function has the effect of its counterpart.  (The step relation of
\* LruSpec alone would let a touch leave everything as it is.)
CallsMatch ==
  \A n \in Node :
    /\ \A d \in Data : lru_list_insert(n, d) => Abstract!Insert(n, d)
    /\ lru_list_move_to_first(n) => Abstract!Touch(n)
    /\ lru_list_delete(n) => Abstract!Delete(n)

\* The pointer manipulations of zip_lru_list.c implement the recency order:
\* insert and move_to_first put a node in front, remove_tail returns the data
\* of the least recently touched one, delete keeps the order of the others.
ImplementsLruSpec == Abstract!Spec /\ [][CallsMatch]_vars
=============================================================================
