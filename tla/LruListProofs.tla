--------------------------- MODULE LruListProofs ---------------------------
(***************************************************************************)
(* Proofs about zip_lru_list.c for every set of addresses and of data.     *)
(* The inductive invariant adds to Linked, Reachable, CountIsLength and    *)
(* NoLeak what holds while lru_list_destroy walks the list: the loop       *)
(* variable is the header, links stay inside the nodes not freed yet, no   *)
(* two of them lead to the same node and none leads back to the header.    *)
(* The refinement of LruSpec adds that the next links list the nodes.      *)
(***************************************************************************)
EXTENDS LruList, Functions, FunctionTheorems, SequenceTheorems, FiniteSetTheorems,
        WellFoundedInduction, TLAPS

\* A set of numbers has a least one.
LEMMA LeastIs ==
  ASSUME NEW S \in SUBSET Nat, S # {}
  PROVE  \E m \in S : \A n \in S : m <= n
<1>1. PICK m \in S : \A n \in S : ~ (<<n, m>> \in OpToRel(<, Nat))
  BY NatLessThanWellFounded, WFMin
<1>2. \A n \in S : ~ (n < m)
  BY <1>1 DEF OpToRel
<1> QED
  BY <1>2

Closing ==
  closing => /\ live
             /\ cursor = header
             /\ header \in alloc \cup {NULL}
             /\ \A x \in alloc : /\ next[x] \in alloc \cup {NULL}
                                 /\ next[x] # header \/ header = NULL
             /\ \A x, y \in alloc : next[x] = next[y] /\ next[x] # NULL => x = y

IInv == /\ TypeOK
        /\ Linked
        /\ Reachable
        /\ CountIsLength
        /\ NoLeak
        /\ Closing

\* Typing is preserved by every function of the file, given that links of
\* allocated nodes are pointers.
LEMMA Typing == ASSUME TypeOK, [Next]_vars PROVE TypeOK'
<1> USE NullAssumption DEF TypeOK, Ptr
<1>1. CASE lru_list_create
  BY <1>1 DEF lru_list_create, nodes
<1>2. ASSUME NEW n \in Node, NEW d \in Data, lru_list_insert(n, d)
      PROVE TypeOK'
  BY <1>2 DEF lru_list_insert, TailWith
<1>3. CASE lru_list_insert_nomem
  BY <1>3 DEF lru_list_insert_nomem, nodes, list
<1>4. ASSUME NEW n \in Node, lru_list_move_to_first(n)
      PROVE TypeOK'
  BY <1>4 DEF lru_list_move_to_first, TailWithout, NextWithout, nodes, list
<1>5. ASSUME NEW n \in Node, lru_list_delete(n)
      PROVE TypeOK'
  BY <1>5 DEF lru_list_delete, TailWithout, NextWithout
<1>6. CASE lru_list_remove_tail
  BY <1>6 DEF lru_list_remove_tail, nodes, list
<1>7. CASE lru_list_destroy_call
  BY <1>7 DEF lru_list_destroy_call, nodes, list
<1>8. CASE lru_list_destroy_step
  BY <1>8 DEF lru_list_destroy_step
<1>9. CASE lru_list_destroy_return
  BY <1>9 DEF lru_list_destroy_return, nodes, list
<1>10. CASE UNCHANGED vars
  BY <1>10 DEF vars, nodes, list
<1> QED
  BY <1>1, <1>2, <1>3, <1>4, <1>5, <1>6, <1>7, <1>8, <1>9, <1>10 DEF Next

\* The initial state is well typed.
LEMMA InitTypeOK == Init => TypeOK
<1> SUFFICES ASSUME Init PROVE TypeOK
  OBVIOUS
<1>1. live \in BOOLEAN /\ closing \in BOOLEAN /\ alloc \in SUBSET Node
  BY DEF Init
<1>2. header \in Ptr /\ tail \in Ptr /\ cursor \in Ptr /\ count \in Int
  BY DEF Init, Ptr
<1>3. prev \in [Node -> Ptr] /\ next \in [Node -> Ptr]
  BY DEF Init, Ptr
<1>4. data \in [Node -> Data \cup {NULL}] /\ rtn \in Node \cup Data \cup {NULL}
  BY DEF Init
<1> QED
  BY <1>1, <1>2, <1>3, <1>4 DEF TypeOK

\* Every variable of the list keeps its type (TypeOK), for every set of nodes.
THEOREM TypeCorrect == Spec => []TypeOK
<1>1. Init => TypeOK
  BY InitTypeOK
<1>2. TypeOK /\ [Next]_vars => TypeOK'
  BY Typing
<1> QED
  BY <1>1, <1>2, PTL DEF Spec

\* The invariant holds before the list is created.
LEMMA InitIInv == Init => IInv
<1> SUFFICES ASSUME Init PROVE IInv
  OBVIOUS
<1>1. TypeOK
  BY InitTypeOK
<1>2. Linked /\ Reachable /\ CountIsLength /\ NoLeak /\ Closing
  BY DEF Init, Linked, Reachable, CountIsLength, NoLeak, Closing, Ready
<1> QED
  BY <1>1, <1>2 DEF IInv

\* How Reachable is used: a set of nodes with the header and closed under next
\* is the set of all nodes.
LEMMA Covers ==
  ASSUME Reachable, live, NEW S, S \subseteq alloc,
         header # NULL => header \in S,
         \A x \in S : next[x] # NULL => next[x] \in S
  PROVE  S = alloc
BY DEF Reachable

\* A list with a node has a header.
LEMMA HeaderSet ==
  ASSUME TypeOK, Linked, Reachable, Ready, NEW n \in alloc
  PROVE  header \in alloc /\ tail \in alloc /\ NULL \notin alloc
<1>1. header # NULL
  <2> SUFFICES ASSUME header = NULL PROVE FALSE
    OBVIOUS
  <2>1. {} \in SUBSET alloc
    OBVIOUS
  <2>2. {} = alloc
    BY <2>1 DEF Reachable, Ready
  <2> QED
    BY <2>2
<1> QED
  BY <1>1, NullAssumption DEF Linked, TypeOK

\* No node other than the header is its own predecessor: the nodes without it
\* would be closed under next and hold the header.
LEMMA NoSelfLoop ==
  ASSUME Linked, Reachable, Ready, TypeOK, NEW n \in alloc, n # header
  PROVE  prev[n] # n
<1> SUFFICES ASSUME prev[n] = n PROVE FALSE
  OBVIOUS
<1> DEFINE R == alloc \ {n}
<1>1. header \in R
  BY HeaderSet
<1>2. \A x \in R : next[x] # NULL => next[x] \in R
  BY DEF Linked, Ready
<1>3. R = alloc
  BY <1>1, <1>2, Covers DEF Ready
<1> QED
  BY <1>3

\* lru_list_create makes an empty list.
LEMMA CreateKeeps == ASSUME IInv, TypeOK', lru_list_create PROVE IInv'
<1> USE DEF IInv, lru_list_create, nodes
<1>1. alloc = {} /\ alloc' = {}
  BY DEF NoLeak
<1>2. CountIsLength'
  BY <1>1, FS_EmptySet DEF CountIsLength, Ready
<1>3. Linked' /\ Reachable' /\ NoLeak' /\ Closing'
  BY <1>1 DEF Linked, Reachable, NoLeak, Closing, Ready
<1> QED
  BY <1>2, <1>3

\* lru_list_insert: the new node is in front of a list that stays linked; a
\* successor-closed set with the new header covers the old list too.
LEMMA InsertKeeps ==
  ASSUME IInv, TypeOK', NEW n \in Node, NEW d \in Data, lru_list_insert(n, d)
  PROVE  IInv'
<1> USE NullAssumption DEF Ready
<1>0. TypeOK /\ Linked /\ Reachable /\ CountIsLength /\ NoLeak /\ Closing
  BY DEF IInv
<1>1. Linked'
  BY <1>0 DEF lru_list_insert, TailWith, Linked, TypeOK, Ptr
<1>2. Reachable'
  <2> SUFFICES ASSUME NEW S \in SUBSET alloc',
                      header' # NULL => header' \in S,
                      \A x \in S : next'[x] # NULL => next'[x] \in S
               PROVE  S = alloc'
    BY DEF Reachable
  <2> DEFINE R == S \ {n}
  <2>1. R \in SUBSET alloc /\ n \in S
    BY DEF lru_list_insert
  <2>2. header # NULL => header \in R
    BY <1>0, <2>1 DEF lru_list_insert, Linked, TypeOK, Ptr
  <2>3. \A x \in R : next[x] # NULL => next[x] \in R
    BY <1>0, <2>1 DEF lru_list_insert, Linked, TypeOK, Ptr
  <2>4. R = alloc
    BY <1>0, <2>1, <2>2, <2>3, Covers DEF lru_list_insert
  <2> QED
    BY <2>1, <2>4 DEF lru_list_insert
<1>3. CountIsLength'
  BY <1>0, FS_AddElement DEF CountIsLength, lru_list_insert
<1>4. NoLeak' /\ Closing'
  BY <1>0 DEF NoLeak, Closing, lru_list_insert
<1> QED
  BY <1>1, <1>2, <1>3, <1>4 DEF IInv

\* lru_list_move_to_first: the node leaves its place and goes in front.
LEMMA MoveKeeps ==
  ASSUME IInv, TypeOK', NEW n \in Node, lru_list_move_to_first(n)
  PROVE  IInv'
<1> USE NullAssumption DEF Ready
<1>0. TypeOK /\ Linked /\ Reachable /\ CountIsLength /\ NoLeak /\ Closing
  BY DEF IInv
<1>1. CASE n = header
  BY <1>0, <1>1 DEF lru_list_move_to_first, list, nodes, IInv, Linked,
                    Reachable, CountIsLength, NoLeak, Closing
<1>2. CASE n # header
  <2> DEFINE p == prev[n]
  <2>1. /\ p \in alloc /\ p # n /\ next[p] = n
        /\ header \in alloc
        /\ n \in alloc
        /\ live /\ ~closing
    <3>1. /\ p \in alloc /\ next[p] = n /\ header \in alloc
          /\ n \in alloc /\ live /\ ~closing
      <4>1. n \in alloc /\ Ready
        BY DEF lru_list_move_to_first
      <4>2. header \in alloc
        BY <1>0, <4>1, HeaderSet
      <4> QED
        BY <1>0, <1>2, <4>1, <4>2 DEF Linked
    <3>2. p # n
      BY <1>0, <1>2, <3>1, NoSelfLoop
    <3> QED
      BY <3>1, <3>2
  <2>2. /\ next' = [next EXCEPT ![p] = next[n], ![n] = header]
        /\ prev' = [x \in Node |->
                      IF x = n THEN NULL
                      ELSE IF x = header THEN n
                      ELSE IF n # tail /\ x = next[n] THEN p
                      ELSE prev[x]]
        /\ tail' = IF n = tail THEN p ELSE tail
        /\ header' = n
        /\ UNCHANGED <<count, alloc, data, live, closing, cursor>>
    BY <1>2 DEF lru_list_move_to_first, TailWithout, NextWithout
  <2>3. Linked'
    BY <1>0, <1>2, <2>1, <2>2 DEF Linked, TypeOK, Ptr
  <2>4. Reachable'
    <3> SUFFICES ASSUME NEW S \in SUBSET alloc,
                        n \in S,
                        \A x \in S : next'[x] # NULL => next'[x] \in S
                 PROVE  S = alloc
      BY <2>1, <2>2 DEF Reachable
    <3>1. header \in S
      BY <1>0, <2>1, <2>2 DEF TypeOK
    <3>2. CASE p \in S
      <4>1. \A x \in S : next[x] # NULL => next[x] \in S
        BY <1>0, <2>1, <2>2, <3>2 DEF TypeOK, Linked
      <4> QED
        BY <1>0, <2>1, <3>1, <4>1 DEF Reachable
    <3>3. CASE p \notin S
      <4> DEFINE R == S \ {n}
      <4>1. header \in R
        BY <1>2, <3>1
      <4>2. \A x \in R : next[x] # NULL => next[x] \in R
        BY <1>0, <2>1, <2>2, <3>3 DEF TypeOK, Linked
      <4>3. R = alloc
        BY <1>0, <2>1, <4>1, <4>2, Covers
      <4> QED
        BY <2>1, <4>3
    <3> QED
      BY <3>2, <3>3
  <2>5. CountIsLength' /\ NoLeak' /\ Closing'
    BY <1>0, <2>1, <2>2 DEF CountIsLength, NoLeak, Closing
  <2> QED
    BY <2>3, <2>4, <2>5 DEF IInv
<1> QED
  BY <1>1, <1>2

\* lru_list_remove_tail: a successor-closed set of what is left, with the
\* removed tail added, was closed before.
LEMMA RemoveTailKeeps ==
  ASSUME IInv, TypeOK', lru_list_remove_tail PROVE IInv'
<1> USE NullAssumption DEF Ready
<1>0. TypeOK /\ Linked /\ Reachable /\ CountIsLength /\ NoLeak /\ Closing
  BY DEF IInv
<1>1. CASE tail = NULL
  <2>1. UNCHANGED <<live, header, tail, count, alloc, prev, next, data,
                    cursor, closing>>
    BY <1>1 DEF lru_list_remove_tail, list, nodes
  <2> QED
    BY <1>0, <2>1 DEF IInv, Linked, Reachable, CountIsLength, NoLeak, Closing
<1>2. CASE tail # NULL
  <2> DEFINE p == prev[tail]
  <2>1. tail \in alloc /\ header \in alloc /\ next[tail] = NULL /\ live /\ ~closing
    BY <1>0, <1>2 DEF lru_list_remove_tail, Linked
  <2>2. /\ alloc' = alloc \ {tail}
        /\ count' = count - 1
        /\ UNCHANGED <<prev, data, live, closing, cursor>>
    BY <1>2 DEF lru_list_remove_tail
  <2>3. CountIsLength' /\ NoLeak' /\ Closing'
    BY <1>0, <2>1, <2>2, FS_RemoveElement DEF CountIsLength, NoLeak, Closing
  <2>4. CASE p = NULL
    <3>1. header' = NULL /\ tail' = NULL /\ next' = next
      BY <1>2, <2>4 DEF lru_list_remove_tail
    <3>2. header = tail
      BY <1>0, <2>1, <2>4 DEF Linked
    <3>3. {tail} = alloc
      BY <1>0, <2>1, <3>2 DEF Reachable
    <3> QED
      BY <2>2, <2>3, <3>1, <3>3 DEF IInv, Linked, Reachable
  <2>5. CASE p # NULL
    <3>1. header' = header /\ tail' = p /\ next' = [next EXCEPT ![p] = NULL]
      BY <1>2, <2>5 DEF lru_list_remove_tail
    <3>2. p \in alloc /\ header # tail /\ next[p] = tail /\ p # tail
      BY <1>0, <2>1, <2>5 DEF Linked
    <3>3. Linked'
      BY <1>0, <2>1, <2>2, <3>1, <3>2 DEF Linked, TypeOK, Ptr
    <3>4. Reachable'
      <4> SUFFICES ASSUME NEW S \in SUBSET (alloc \ {tail}),
                          header \in S,
                          \A x \in S : next'[x] # NULL => next'[x] \in S
                   PROVE  S = alloc \ {tail}
        BY <1>0, <2>1, <2>2, <3>1, HeaderSet DEF Reachable
      <4> DEFINE R == S \cup {tail}
      <4>1. R \subseteq alloc
        BY <2>1
      <4>2. \A x \in R : next[x] # NULL => next[x] \in R
        BY <1>0, <2>1, <3>1, <3>2 DEF TypeOK
      <4>3. R = alloc
        BY <1>0, <2>1, <4>1, <4>2, Covers
      <4> QED
        BY <4>3
    <3> QED
      BY <2>3, <3>3, <3>4 DEF IInv
  <2> QED
    BY <2>4, <2>5
<1> QED
  BY <1>1, <1>2

\* lru_list_delete, one case per branch of the C function.
LEMMA DeleteKeeps ==
  ASSUME IInv, TypeOK', NEW n \in Node, lru_list_delete(n) PROVE IInv'
<1> USE NullAssumption DEF Ready
<1>0. TypeOK /\ Linked /\ Reachable /\ CountIsLength /\ NoLeak /\ Closing
  BY DEF IInv
<1>1. /\ n \in alloc /\ live /\ ~closing /\ header \in alloc
      /\ alloc' = alloc \ {n}
      /\ count' = count - 1
      /\ UNCHANGED <<live, data, cursor, closing>>
  <2>1. /\ n \in alloc /\ Ready
        /\ alloc' = alloc \ {n}
        /\ count' = count - 1
        /\ UNCHANGED <<live, data, cursor, closing>>
    BY DEF lru_list_delete
  <2> QED
    BY <1>0, <2>1, HeaderSet
<1>2. CountIsLength' /\ NoLeak' /\ Closing'
  BY <1>0, <1>1, FS_RemoveElement DEF CountIsLength, NoLeak, Closing
<1>3. CASE n = header /\ next[n] # NULL
  <2>1. /\ prev' = [prev EXCEPT ![next[n]] = NULL]
        /\ header' = next[n] /\ tail' = tail /\ next' = next
    BY <1>3 DEF lru_list_delete
  <2>2. next[n] \in alloc /\ next[n] # n /\ n # tail
    BY <1>0, <1>1, <1>3 DEF Linked, TypeOK, Ptr
  <2>3. Linked'
    BY <1>0, <1>1, <1>3, <2>1, <2>2 DEF Linked, TypeOK, Ptr
  <2>4. Reachable'
    <3> SUFFICES ASSUME NEW S \in SUBSET (alloc \ {n}),
                        next[n] \in S,
                        \A x \in S : next[x] # NULL => next[x] \in S
                 PROVE  S = alloc \ {n}
      BY <1>1, <1>3, <2>1 DEF Reachable
    <3> DEFINE R == S \cup {n}
    <3>1. R \subseteq alloc /\ \A x \in R : next[x] # NULL => next[x] \in R
      BY <1>1
    <3>2. R = alloc
      BY <1>0, <1>1, <1>3, <3>1, Covers
    <3> QED
      BY <3>2
  <2> QED
    BY <1>2, <2>3, <2>4 DEF IInv
<1>4. CASE n = header /\ next[n] = NULL
  <2>1. header' = NULL /\ tail' = NULL /\ prev' = prev /\ next' = next
    BY <1>4 DEF lru_list_delete
  <2>2. {n} = alloc
    BY <1>0, <1>1, <1>4 DEF Reachable
  <2> QED
    BY <1>1, <1>2, <2>1, <2>2 DEF IInv, Linked, Reachable
<1>5. CASE n # header /\ n = tail
  <2> DEFINE p == prev[n]
  <2>1. /\ next' = [next EXCEPT ![p] = NULL]
        /\ tail' = p /\ header' = header /\ prev' = prev
    BY <1>5 DEF lru_list_delete, TailWithout
  <2>2. p \in alloc /\ next[p] = n /\ p # n /\ next[n] = NULL
    BY <1>0, <1>1, <1>5 DEF Linked
  <2>3. Linked'
    BY <1>0, <1>1, <1>5, <2>1, <2>2 DEF Linked, TypeOK, Ptr
  <2>4. Reachable'
    <3> SUFFICES ASSUME NEW S \in SUBSET (alloc \ {n}),
                        header \in S,
                        \A x \in S : next'[x] # NULL => next'[x] \in S
                 PROVE  S = alloc \ {n}
      BY <1>0, <1>1, <2>1, HeaderSet DEF Reachable
    <3> DEFINE R == S \cup {n}
    <3>1. \A x \in R : next[x] # NULL => next[x] \in R
      BY <1>0, <1>1, <2>1, <2>2 DEF TypeOK
    <3>2. R = alloc
      BY <1>0, <1>1, <3>1, Covers
    <3> QED
      BY <3>2
  <2> QED
    BY <1>2, <2>3, <2>4 DEF IInv
<1>6. CASE n # header /\ n # tail
  <2> DEFINE p == prev[n]
             q == next[n]
  <2>1. /\ next' = [next EXCEPT ![p] = q]
        /\ prev' = [prev EXCEPT ![q] = p]
        /\ tail' = tail /\ header' = header
    BY <1>6 DEF lru_list_delete, NextWithout
  <2>2. p # n
    BY <1>0, <1>1, <1>6, NoSelfLoop
  <2>3. p \in alloc /\ q \in alloc /\ next[p] = n /\ prev[q] = n /\ q # n
    BY <1>0, <1>1, <1>6, <2>2 DEF Linked
  <2>4. Linked'
    BY <1>0, <1>1, <1>6, <2>1, <2>2, <2>3 DEF Linked, TypeOK, Ptr
  <2>5. Reachable'
    <3> SUFFICES ASSUME NEW S \in SUBSET (alloc \ {n}),
                        header \in S,
                        \A x \in S : next'[x] # NULL => next'[x] \in S
                 PROVE  S = alloc \ {n}
      BY <1>0, <1>1, <2>1, HeaderSet DEF Reachable
    <3>1. CASE p \in S
      <4> DEFINE R == S \cup {n}
      <4>1. \A x \in R : next[x] # NULL => next[x] \in R
        BY <1>0, <1>1, <2>1, <2>2, <2>3, <3>1 DEF TypeOK
      <4>2. R = alloc
        BY <1>0, <1>1, <4>1, Covers
      <4> QED
        BY <4>2
    <3>2. CASE p \notin S
      <4>1. \A x \in S : next[x] # NULL => next[x] \in S
        BY <1>0, <1>1, <2>1, <2>2, <2>3, <3>2 DEF TypeOK
      <4>2. S = alloc
        BY <1>0, <1>1, <4>1, Covers
      <4> QED
        BY <1>1, <4>2
    <3> QED
      BY <3>1, <3>2
  <2> QED
    BY <1>2, <2>4, <2>5 DEF IInv
<1> QED
  BY <1>3, <1>4, <1>5, <1>6

\* lru_list_destroy: each iteration frees the header; the loop ends when
\* header is NULL, and then nothing is left that Reachable could not reach.
LEMMA DestroyKeeps ==
  ASSUME IInv, TypeOK',
         \/ lru_list_destroy_call
         \/ lru_list_destroy_step
         \/ lru_list_destroy_return
  PROVE  IInv'
<1> USE NullAssumption DEF Ready
<1>0. TypeOK /\ Linked /\ Reachable /\ CountIsLength /\ NoLeak /\ Closing
  BY DEF IInv
<1>1. CASE lru_list_destroy_call
  <2>1. live /\ ~closing /\ closing' /\ cursor' = header
    BY <1>1 DEF lru_list_destroy_call
  <2>2. UNCHANGED <<live, header, tail, count, alloc, prev, next, data>>
    BY <1>1 DEF lru_list_destroy_call, list, nodes
  <2>3. Closing'
    BY <1>0, <2>1, <2>2 DEF Closing, Linked, TypeOK, Ptr
  <2> QED
    BY <1>0, <2>1, <2>2, <2>3
       DEF IInv, Linked, Reachable, CountIsLength, NoLeak
<1>2. CASE lru_list_destroy_step
  <2>1. /\ closing /\ live /\ cursor = header /\ header \in alloc
        /\ header' = next[header] /\ cursor' = next[header]
        /\ alloc' = alloc \ {header}
        /\ UNCHANGED <<live, tail, count, prev, next, data, closing>>
    BY <1>0, <1>2 DEF lru_list_destroy_step, Closing
  <2>2. Closing'
    BY <1>0, <2>1 DEF Closing
  <2>3. Reachable'
    <3> SUFFICES ASSUME NEW S \in SUBSET (alloc \ {header}),
                        next[header] # NULL => next[header] \in S,
                        \A x \in S : next[x] # NULL => next[x] \in S
                 PROVE  S = alloc \ {header}
      BY <2>1 DEF Reachable
    <3> DEFINE R == S \cup {header}
    <3>1. R \subseteq alloc /\ \A x \in R : next[x] # NULL => next[x] \in R
      BY <2>1
    <3>2. R = alloc
      BY <1>0, <2>1, <3>1, Covers
    <3> QED
      BY <3>2
  <2> QED
    BY <1>0, <2>1, <2>2, <2>3 DEF IInv, Linked, CountIsLength, NoLeak
<1>3. CASE lru_list_destroy_return
  <2>1. closing /\ live /\ header = NULL /\ ~live' /\ ~closing' /\ alloc' = alloc
    BY <1>0, <1>3 DEF lru_list_destroy_return, Closing, nodes
  <2>2. {} \in SUBSET alloc
    OBVIOUS
  <2>3. {} = alloc
    BY <1>0, <2>1, <2>2 DEF Reachable
  <2> QED
    BY <2>1, <2>3 DEF IInv, Linked, Reachable, CountIsLength, NoLeak, Closing
<1> QED
  BY <1>1, <1>2, <1>3

\* The invariant is inductive.
LEMMA InvariantNext == ASSUME IInv, [Next]_vars PROVE IInv'
<1>1. TypeOK'
  BY Typing DEF IInv
<1>2. CASE lru_list_insert_nomem \/ UNCHANGED vars
  BY <1>2 DEF lru_list_insert_nomem, vars, list, nodes, IInv, TypeOK, Linked,
              Reachable, CountIsLength, NoLeak, Closing, Ready
<1>3. CASE lru_list_create
  BY <1>1, <1>3, CreateKeeps
<1>4. CASE lru_list_remove_tail
  BY <1>1, <1>4, RemoveTailKeeps
<1>5. CASE \/ lru_list_destroy_call \/ lru_list_destroy_step
           \/ lru_list_destroy_return
  BY <1>1, <1>5, DestroyKeeps
<1>6. CASE \E n \in Node, d \in Data : lru_list_insert(n, d)
  BY <1>1, <1>6, InsertKeeps
<1>7. CASE \E n \in Node : lru_list_move_to_first(n) \/ lru_list_delete(n)
  BY <1>1, <1>7, MoveKeeps, DeleteKeeps
<1> QED
  BY <1>2, <1>3, <1>4, <1>5, <1>6, <1>7 DEF Next

\* What the functions of zip_lru_list.c keep holds after any number of calls.
THEOREM ListInvariant == Spec => []IInv
<1>1. Init => IInv
  BY InitIInv
<1>2. IInv /\ [Next]_vars => IInv'
  BY InvariantNext
<1> QED
  BY <1>1, <1>2, PTL DEF Spec

\* After any sequence of calls the nodes form one doubly linked list
\* (Linked), for any number of nodes: no NULL or freed node is dereferenced.
THEOREM AlwaysLinked == Spec => []Linked
<1>1. IInv => Linked
  BY DEF IInv
<1> QED
  BY <1>1, ListInvariant, PTL

\* The chain of next links from the header meets every node (Reachable): the
\* links never split into a list and a detached ring.
THEOREM AlwaysReachable == Spec => []Reachable
<1>1. IInv => Reachable
  BY DEF IInv
<1> QED
  BY <1>1, ListInvariant, PTL

\* The count the memory accounting reads is the number of nodes
\* (CountIsLength), whatever sequence of calls came before.
THEOREM CountExact == Spec => []CountIsLength
<1>1. IInv => CountIsLength
  BY DEF IInv
<1> QED
  BY <1>1, ListInvariant, PTL

\* lru_list_destroy leaves no node allocated (NoLeak).
THEOREM DestroyFreesAll == Spec => []NoLeak
<1>1. IInv => NoLeak
  BY DEF IInv
<1> QED
  BY <1>1, ListInvariant, PTL

\* The list is sound after any sequence of calls of zip_lru_list.c (ListSound).
THEOREM ListCorrect == Spec => []ListSound
<1>1. IInv => ListSound
  BY DEF IInv, ListSound
<1> QED
  BY <1>1, ListInvariant, PTL

-----------------------------------------------------------------------------
(* The refinement: the nodes, in the order of the next links, are the      *)
(* sequence of LruSpec.                                                    *)

Listing(s) == s \in [1 .. count -> alloc] /\ Chain(s)

HasOrder == /\ Ready => \E s : Listing(s)
            /\ closing => rtn = NULL

RInv == IInv /\ HasOrder

\* Each node but the first is where the previous one's next link leads, and
\* only from there.
LEMMA ListingLinks ==
  ASSUME IInv, Ready, NEW s, Listing(s)
  PROVE  /\ count \in Nat /\ DOMAIN s = 1 .. count
         /\ count > 0 => s[1] = header /\ prev[s[1]] = NULL
         /\ \A i \in 1 .. count : i > 1 => s[i] = next[s[i - 1]] /\ prev[s[i]] = s[i - 1]
         /\ \A i \in 1 .. count : s[i] \in alloc
<1>1. Linked /\ IsFiniteSet(alloc) /\ count = Cardinality(alloc) /\ TypeOK
  BY DEF IInv, CountIsLength
<1>2. count \in Nat
  BY <1>1, FS_CardinalityType
<1>3. DOMAIN s = 1 .. count /\ \A i \in 1 .. count : s[i] \in alloc
  BY DEF Listing
<1>4. \A i \in 1 .. count : i > 1 => i - 1 \in 1 .. count /\ s[i] = next[s[i - 1]]
  BY <1>2, <1>3 DEF Listing, Chain
<1>5. \A x, y \in alloc : (next[x] = y) <=> (prev[y] = x)
  BY <1>1 DEF Linked
<1>6. \A i \in 1 .. count : i > 1 => prev[s[i]] = s[i - 1]
  BY <1>3, <1>4, <1>5
<1>7. count > 0 => s[1] = header /\ s[1] \in alloc
  BY <1>2, <1>3 DEF Listing, Chain
<1>8. count > 0 => prev[s[1]] = NULL
  BY <1>1, <1>7 DEF Linked
<1> QED
  BY <1>2, <1>3, <1>4, <1>6, <1>7, <1>8

\* No node comes twice: the first that does would have two predecessors.
LEMMA ListingOnce ==
  ASSUME IInv, Ready, NEW s, Listing(s)
  PROVE  \A i, j \in 1 .. count : s[i] = s[j] => i = j
<1> DEFINE Bad == {i \in 1 .. count : \E j \in 1 .. count : i < j /\ s[i] = s[j]}
<1>0. /\ count \in Nat
      /\ count > 0 => s[1] = header /\ prev[s[1]] = NULL
      /\ \A i \in 1 .. count : i > 1 => prev[s[i]] = s[i - 1]
      /\ \A i \in 1 .. count : s[i] \in alloc
  BY ListingLinks
<1>1. Bad = {}
  <2> SUFFICES ASSUME Bad # {} PROVE FALSE
    OBVIOUS
  <2>1. Bad \in SUBSET Nat
    BY <1>0
  <2>2. PICK i \in Bad : \A k \in Bad : i <= k
    BY <2>1, LeastIs
  <2>3. PICK j \in 1 .. count : i < j /\ s[i] = s[j]
    BY <2>2
  <2>4. i \in 1 .. count /\ i \in Nat /\ j \in Nat /\ j > 1
    BY <1>0, <2>2, <2>3
  <2>5. NULL \notin alloc
    BY NullAssumption DEF IInv, TypeOK
  <2>6. CASE i = 1
    <3>1. s[j - 1] \in alloc
      BY <1>0, <2>4
    <3> QED
      BY <1>0, <2>3, <2>4, <2>5, <2>6, <3>1
  <2>7. CASE i > 1
    <3>1. s[i - 1] = s[j - 1] /\ i - 1 \in 1 .. count /\ j - 1 \in 1 .. count /\ i - 1 < j - 1
      BY <1>0, <2>3, <2>4, <2>7
    <3>2. i - 1 \in Bad
      BY <3>1
    <3> QED
      BY <2>2, <2>4, <3>2
  <2> QED
    BY <2>4, <2>6, <2>7
<1>2. \A i, j \in 1 .. count : i < j => s[i] # s[j]
  BY <1>1
<1> QED
  BY <1>0, <1>2

\* Every node comes: the listing has as many entries as there are nodes.
LEMMA ListingAll ==
  ASSUME IInv, Ready, NEW s, Listing(s)
  PROVE  /\ \A x \in alloc : \E i \in 1 .. count : s[i] = x
         /\ count > 0 => s[count] = tail
         /\ count = 0 <=> header = NULL
         /\ count = 0 <=> tail = NULL
<1> DEFINE R == {s[i] : i \in 1 .. count}
<1>0. /\ count \in Nat /\ \A i \in 1 .. count : s[i] \in alloc
      /\ \A i \in 1 .. count : i > 1 => s[i] = next[s[i - 1]]
      /\ count > 0 => s[1] = header
  BY ListingLinks
<1>1. IsFiniteSet(alloc) /\ count = Cardinality(alloc) /\ Linked /\ TypeOK
  BY DEF IInv, CountIsLength
<1>2. NULL \notin alloc
  BY <1>1, NullAssumption DEF TypeOK
<1>3. R = alloc
  <2>1. R \in SUBSET alloc
    BY <1>0
  <2>2. s \in [1 .. count -> R]
    BY <1>0 DEF Listing
  <2>3. \A i, j \in 1 .. count : s[i] = s[j] => i = j
    BY ListingOnce
  <2>4. \A t \in R : \E i \in 1 .. count : s[i] = t
    OBVIOUS
  <2> HIDE DEF R
  <2>5. s \in Bijection(1 .. count, R)
    BY <2>2, <2>3, <2>4, Fun_IsBij
  <2>6. Cardinality(R) = count
    BY <1>0, <2>5, Fun_ExistsBij, FS_CountingElements
  <2> QED
    BY <1>1, <2>1, <2>6, FS_Subset
<1>4. count > 0 => s[count] = tail
  <2> SUFFICES ASSUME count > 0 PROVE s[count] = tail
    OBVIOUS
  <2>1. tail \in alloc /\ next[tail] = NULL
    <3>1. header \in alloc
      BY <1>0
    <3> QED
      BY <1>1, <1>2, <3>1 DEF Linked
  <2>2. PICK i \in 1 .. count : s[i] = tail
    BY <1>3, <2>1
  <2>3. ~ (i < count)
    <3> SUFFICES ASSUME i < count PROVE FALSE
      OBVIOUS
    <3>1. i + 1 \in 1 .. count /\ i + 1 > 1 /\ (i + 1) - 1 = i
      BY <1>0
    <3>2. s[i + 1] = next[tail] /\ s[i + 1] \in alloc
      BY <1>0, <2>2, <3>1
    <3> QED
      BY <1>2, <2>1, <3>2
  <2> QED
    BY <1>0, <2>2, <2>3
<1>5. count = 0 <=> header = NULL
  <2>1. count = 0 => alloc = {}
    BY <1>0, <1>3
  <2> QED
    BY <1>0, <1>1, <1>2, <2>1 DEF Linked
<1>6. count = 0 <=> tail = NULL
  BY <1>1, <1>5 DEF Linked
<1> QED
  BY <1>3, <1>4, <1>5, <1>6

\* The listing is the one Order is made from.
LEMMA ListingIs ==
  ASSUME IInv, Ready, NEW s, Listing(s) PROVE Chained = s
<1> DEFINE t == Chained
           Bad == {i \in 1 .. count : s[i] # t[i]}
<1>1. Listing(t)
  BY DEF Chained, Listing
<1> HIDE DEF t
<1>2. /\ count \in Nat
      /\ count > 0 => s[1] = header /\ t[1] = header
      /\ \A i \in 1 .. count : i > 1 => s[i] = next[s[i - 1]] /\ t[i] = next[t[i - 1]]
  BY <1>1, ListingLinks
<1>3. Bad = {}
  <2> SUFFICES ASSUME Bad # {} PROVE FALSE
    OBVIOUS
  <2>0. Bad \in SUBSET Nat
    BY <1>2
  <2>1. PICK i \in Bad : \A k \in Bad : i <= k
    BY <2>0, LeastIs
  <2>2. i \in 1 .. count /\ s[i] # t[i] /\ count > 0
    BY <1>2, <2>1
  <2>3. i > 1 => i - 1 \in 1 .. count /\ s[i - 1] = t[i - 1]
    BY <1>2, <2>1, <2>2
  <2> QED
    BY <1>2, <2>2, <2>3
<1>4. s \in [1 .. count -> alloc] /\ t \in [1 .. count -> alloc]
  BY <1>1 DEF Listing
<1>5. \A i \in 1 .. count : s[i] = t[i]
  BY <1>3
<1>6. s = [i \in 1 .. count |-> s[i]] /\ t = [i \in 1 .. count |-> t[i]]
  BY <1>4
<1>7. s = t
  BY <1>5, <1>6
<1> QED
  BY <1>7 DEF t

\* There is no other.
Unique == \A s : Listing(s) => Chained = s

\* The same after a step.
LEMMA ListingNext == IInv' /\ Ready' => Unique'
<1>1. IInv /\ Ready => Unique
  BY ListingIs DEF Unique
<1> QED
  BY <1>1, PTL

\* A list of entries that begins with x and goes on with s.
LEMMA PrependIs ==
  ASSUME NEW S, NEW s \in Seq(S), NEW x \in S, NEW n \in Nat, Len(s) = n,
         NEW r \in [1 .. n + 1 -> S], r[1] = x, \A i \in 1 .. n : r[i + 1] = s[i]
  PROVE  r = <<x>> \o s
<1>1. <<x>> \in Seq(S) /\ Len(<<x>>) = 1 /\ <<x>>[1] = x
  OBVIOUS
<1>2. /\ <<x>> \o s \in Seq(S) /\ Len(<<x>> \o s) = n + 1
      /\ \A i \in 1 .. n + 1 : (<<x>> \o s)[i] = IF i = 1 THEN x ELSE s[i - 1]
  BY <1>1, ConcatProperties
<1>3. r \in Seq(S) /\ Len(r) = n + 1
  OBVIOUS
<1>4. \A i \in 1 .. n + 1 : r[i] = IF i = 1 THEN x ELSE s[i - 1]
  <2>1. \A i \in 1 .. n + 1 : i # 1 => i - 1 \in 1 .. n /\ (i - 1) + 1 = i
    OBVIOUS
  <2> QED
    BY <2>1
<1> QED
  BY <1>2, <1>3, <1>4, SeqEqual

\* A list of entries without the one at k.
LEMMA RemoveAtIs ==
  ASSUME NEW S, NEW s \in Seq(S), NEW k \in 1 .. Len(s),
         NEW r \in [1 .. Len(s) - 1 -> S],
         \A i \in 1 .. Len(s) - 1 : r[i] = IF i < k THEN s[i] ELSE s[i + 1]
  PROVE  r = SubSeq(s, 1, k - 1) \o SubSeq(s, k + 1, Len(s))
<1> DEFINE n == Len(s)
           a == SubSeq(s, 1, k - 1)
           b == SubSeq(s, k + 1, n)
<1>1. n \in Nat /\ k \in 1 .. n /\ \A i \in 1 .. n : s[i] \in S
  OBVIOUS
<1>2. /\ a \in Seq(S) /\ Len(a) = k - 1
      /\ \A i \in 1 .. k - 1 : a[i] = s[i]
  BY <1>1, SubSeqProperties
<1>3. /\ b \in Seq(S) /\ Len(b) = n - k
      /\ \A i \in 1 .. n - k : b[i] = s[k + i]
  BY <1>1, SubSeqProperties
<1>0. n = Len(s)
  OBVIOUS
<1> HIDE DEF n, a, b
<1>4. /\ a \o b \in Seq(S) /\ Len(a \o b) = n - 1
      /\ \A i \in 1 .. n - 1 : (a \o b)[i] = IF i <= k - 1 THEN a[i] ELSE b[i - (k - 1)]
  <2>1. /\ a \o b \in Seq(S) /\ Len(a \o b) = Len(a) + Len(b)
        /\ \A i \in 1 .. Len(a) + Len(b) :
             (a \o b)[i] = IF i <= Len(a) THEN a[i] ELSE b[i - Len(a)]
    BY <1>2, <1>3, ConcatProperties
  <2>2. Len(a) + Len(b) = n - 1
    BY <1>1, <1>2, <1>3
  <2> QED
    BY <1>2, <2>1, <2>2
<1>5. /\ r \in Seq(S) /\ Len(r) = n - 1
      /\ \A i \in 1 .. n - 1 : r[i] = IF i < k THEN s[i] ELSE s[i + 1]
  BY <1>0, <1>1
<1>6. \A i \in 1 .. n - 1 : r[i] = (a \o b)[i]
  <2> SUFFICES ASSUME NEW i \in 1 .. n - 1 PROVE r[i] = (a \o b)[i]
    OBVIOUS
  <2>1. CASE i < k
    BY <1>1, <1>2, <1>4, <1>5, <2>1
  <2>2. CASE ~ (i < k)
    <3>1. i - (k - 1) \in 1 .. n - k /\ k + (i - (k - 1)) = i + 1 /\ ~ (i <= k - 1)
      BY <1>1, <2>2
    <3>2. (a \o b)[i] = b[i - (k - 1)]
      BY <1>4, <3>1
    <3>3. b[i - (k - 1)] = s[k + (i - (k - 1))]
      BY <1>3, <3>1
    <3> QED
      BY <1>5, <2>2, <3>1, <3>2, <3>3
  <2> QED
    BY <2>1, <2>2
<1> QED
  BY <1>4, <1>5, <1>6, SeqEqual DEF n, a, b

\* An entry of the list, whatever its data is.
AnyEntry == [node : Node, data : Data \cup {NULL}]

\* What Order is, given a listing of the nodes.
OrderOf(s) ==
  /\ Order \in [1 .. count -> AnyEntry] /\ Order \in Seq(AnyEntry) /\ Len(Order) = count
  /\ \A i \in 1 .. count : Order[i] = [node |-> s[i], data |-> data[s[i]]]
OrderKnown == \A s : Listing(s) => OrderOf(s)

\* Order is made from the listing.
LEMMA OrderIs == IInv /\ Ready => OrderKnown
<1> SUFFICES ASSUME IInv, Ready, NEW s, Listing(s) PROVE OrderOf(s)
  BY DEF OrderKnown
<1>1. count \in Nat /\ \A i \in 1 .. count : s[i] \in Node
  BY ListingLinks DEF IInv, TypeOK
<1>2. Order = [i \in 1 .. count |-> [node |-> s[i], data |-> data[s[i]]]]
  BY ListingIs DEF Order
<1>3. \A i \in 1 .. count : [node |-> s[i], data |-> data[s[i]]] \in AnyEntry
  BY <1>1 DEF IInv, TypeOK, AnyEntry
<1>4. Order \in [1 .. count -> AnyEntry]
  BY <1>2, <1>3
<1>5. Order \in Seq(AnyEntry) /\ Len(Order) = count
  BY <1>1, <1>4
<1> QED
  BY <1>2, <1>4, <1>5 DEF OrderOf

\* The same after a step.
LEMMA OrderNext == IInv' /\ Ready' => OrderKnown'
BY OrderIs, PTL

\* The handles of the abstract list are the allocated nodes, and each has its
\* place.
LEMMA Places ==
  ASSUME IInv, Ready, NEW s, Listing(s)
  PROVE  /\ Abstract!HandlesOf(Order) = alloc
         /\ \A k \in 1 .. count : Abstract!Place(s[k]) = k
<1>1. OrderOf(s)
  BY OrderIs DEF OrderKnown
<1>2. DOMAIN Order = 1 .. count /\ \A i \in 1 .. count : Order[i].node = s[i]
  BY <1>1 DEF OrderOf
<1>3. \A i, j \in 1 .. count : s[i] = s[j] => i = j
  BY ListingOnce
<1>4. /\ \A x \in alloc : \E i \in 1 .. count : s[i] = x
      /\ \A i \in 1 .. count : s[i] \in alloc
  BY ListingAll, ListingLinks
<1>5. Abstract!HandlesOf(Order) = alloc
  BY <1>2, <1>4 DEF Abstract!HandlesOf
<1>6. ASSUME NEW k \in 1 .. count PROVE Abstract!Place(s[k]) = k
  <2>1. Order[k].node = s[k] /\ \A i \in 1 .. count : Order[i].node = s[k] => i = k
    BY <1>2, <1>3
  <2> QED
    BY <1>2, <2>1 DEF Abstract!Place
<1> QED
  BY <1>5, <1>6

\* lru_list_insert puts the new node in front.
LEMMA InsertRefines ==
  ASSUME IInv, IInv', NEW s, Listing(s), NEW n \in Node, NEW d \in Data,
         lru_list_insert(n, d)
  PROVE  HasOrder' /\ Abstract!Insert(n, d)
<1>0. PICK t : t = [i \in 1 .. count + 1 |-> IF i = 1 THEN n ELSE s[i - 1]]
  OBVIOUS
<1>1. /\ Ready /\ Ready' /\ ~closing'
      /\ n \notin alloc /\ alloc' = alloc \cup {n}
      /\ data' = [data EXCEPT ![n] = d] /\ next' = [next EXCEPT ![n] = header]
      /\ header' = n /\ count' = count + 1 /\ rtn' = n
  BY DEF lru_list_insert, Ready
<1>2. /\ count \in Nat
      /\ count > 0 => s[1] = header
      /\ \A i \in 1 .. count : i > 1 => s[i] = next[s[i - 1]]
      /\ \A i \in 1 .. count : s[i] \in alloc
  BY <1>1, ListingLinks
<1>3. next \in [Node -> Ptr] /\ data \in [Node -> Data \cup {NULL}] /\ alloc \subseteq Node
  BY DEF IInv, TypeOK
<1>4. t \in [1 .. count' -> alloc']
  BY <1>0, <1>1, <1>2
<1>5. ASSUME NEW i \in 1 .. count + 1, i > 1 PROVE t[i] = next'[t[i - 1]]
  <2>1. i - 1 \in 1 .. count /\ t[i] = s[i - 1] /\ i - 1 \in 1 .. count + 1
    BY <1>0, <1>2, <1>5
  <2>2. CASE i = 2
    <3>1. t[1] = n /\ s[1] = header
      BY <1>0, <1>2, <2>1, <2>2
    <3> QED
      BY <1>1, <1>3, <2>1, <2>2, <3>1
  <2>3. CASE i > 2
    <3>1. t[i - 1] = s[(i - 1) - 1] /\ (i - 1) - 1 \in 1 .. count /\ i - 1 > 1
      BY <1>0, <1>2, <2>1, <2>3
    <3>2. s[i - 1] = next[s[(i - 1) - 1]] /\ s[(i - 1) - 1] \in alloc
      BY <1>2, <2>1, <3>1
    <3> QED
      BY <1>1, <1>3, <2>1, <3>1, <3>2
  <2> QED
    BY <1>2, <1>5, <2>2, <2>3
<1>6. t[1] = n /\ DOMAIN t = 1 .. count + 1
  BY <1>0, <1>2
<1>7. Listing(t)'
  BY <1>1, <1>4, <1>5, <1>6 DEF Listing, Chain
<1>8. OrderOf(s) /\ OrderOf(t)'
  BY <1>1, <1>7, OrderIs, OrderNext DEF OrderKnown
<1>9. Order' = <<[node |-> n, data |-> d]>> \o Order
  <2> DEFINE x == [node |-> n, data |-> d]
  <2>1. x \in AnyEntry /\ Order \in Seq(AnyEntry) /\ Len(Order) = count
    BY <1>8 DEF OrderOf, AnyEntry
  <2>2. Order' \in [1 .. count + 1 -> AnyEntry]
    BY <1>1, <1>8 DEF OrderOf, AnyEntry
  <2>3. Order'[1] = x
    BY <1>1, <1>2, <1>3, <1>6, <1>8 DEF OrderOf
  <2>4. ASSUME NEW i \in 1 .. count PROVE Order'[i + 1] = Order[i]
    <3>1. t[i + 1] = s[i] /\ i + 1 \in 1 .. count + 1 /\ s[i] # n /\ s[i] \in alloc
      BY <1>0, <1>1, <1>2
    <3>2. data'[s[i]] = data[s[i]]
      BY <1>1, <1>3, <3>1
    <3> QED
      BY <1>1, <1>8, <3>1, <3>2 DEF OrderOf
  <2> HIDE DEF x
  <2> QED
    BY <1>2, <2>1, <2>2, <2>3, <2>4, PrependIs DEF x
<1>10. n \notin Abstract!HandlesOf(Order)
  BY <1>1, Places
<1>11. Abstract!Insert(n, d)
  BY <1>1, <1>9, <1>10 DEF Abstract!Insert
<1>12. HasOrder'
  BY <1>1, <1>7 DEF HasOrder
<1> QED
  BY <1>11, <1>12

\* The abstract list without the entry of the k-th node.
LEMMA WithoutIs ==
  ASSUME IInv, Ready, NEW s, Listing(s), NEW k \in 1 .. count
  PROVE  /\ Abstract!Without(s[k]) \in [1 .. count - 1 -> AnyEntry]
         /\ \A i \in 1 .. count - 1 :
              Abstract!Without(s[k])[i] = IF i < k THEN Order[i] ELSE Order[i + 1]
         /\ Abstract!Without(s[k]) = SubSeq(Order, 1, k - 1) \o SubSeq(Order, k + 1, count)
<1>1. /\ Order \in Seq(AnyEntry) /\ Len(Order) = count /\ count \in Nat
      /\ Abstract!Place(s[k]) = k
  BY OrderIs, Places, ListingLinks DEF OrderKnown, OrderOf
<1>2. Abstract!Without(s[k]) = SubSeq(Order, 1, k - 1) \o SubSeq(Order, k + 1, count)
  BY <1>1 DEF Abstract!Without, Abstract!RemoveAt
<1>3. PICK w : w = [i \in 1 .. count - 1 |-> IF i < k THEN Order[i] ELSE Order[i + 1]]
  OBVIOUS
<1>4. w \in [1 .. count - 1 -> AnyEntry]
  BY <1>1, <1>3
<1>5. w = SubSeq(Order, 1, k - 1) \o SubSeq(Order, k + 1, count)
  <2>1. PICK o : o = Order
    OBVIOUS
  <2>2. /\ o \in Seq(AnyEntry) /\ k \in 1 .. Len(o) /\ w \in [1 .. Len(o) - 1 -> AnyEntry]
        /\ \A i \in 1 .. Len(o) - 1 : w[i] = IF i < k THEN o[i] ELSE o[i + 1]
    BY <1>1, <1>3, <1>4, <2>1
  <2>3. w = SubSeq(o, 1, k - 1) \o SubSeq(o, k + 1, Len(o))
    BY <2>2, RemoveAtIs
  <2> QED
    BY <1>1, <2>1, <2>3
<1> QED
  BY <1>2, <1>3, <1>4, <1>5

\* The k-th node leaves the list, and its neighbours are linked.
LEMMA RemovalListing ==
  ASSUME IInv, IInv', Ready, Ready', NEW s, Listing(s), NEW k \in 1 .. count,
         count' = count - 1, alloc' = alloc \ {s[k]}, data' = data,
         count > 1 => header' = IF k = 1 THEN s[2] ELSE header,
         \A j \in 1 .. count : j # k - 1 => next'[s[j]] = next[s[j]],
         1 < k /\ k < count => next'[s[k - 1]] = s[k + 1]
  PROVE  (\E t : Listing(t))' /\ Order' = Abstract!Without(s[k])
<1>1. /\ count \in Nat
      /\ count > 0 => s[1] = header
      /\ \A i \in 1 .. count : i > 1 => s[i] = next[s[i - 1]]
      /\ \A i \in 1 .. count : s[i] \in alloc
  BY ListingLinks
<1>2. \A i, j \in 1 .. count : s[i] = s[j] => i = j
  BY ListingOnce
<1>3. PICK t : t = [i \in 1 .. count - 1 |-> IF i < k THEN s[i] ELSE s[i + 1]]
  OBVIOUS
<1>4. t \in [1 .. count - 1 -> alloc'] /\ DOMAIN t = 1 .. count - 1
  <2>1. ASSUME NEW i \in 1 .. count - 1 PROVE t[i] \in alloc'
    <3>1. /\ i \in 1 .. count /\ i + 1 \in 1 .. count
          /\ t[i] = IF i < k THEN s[i] ELSE s[i + 1]
      BY <1>1, <1>3
    <3>2. t[i] \in alloc /\ t[i] # s[k]
      BY <1>1, <1>2, <3>1
    <3> QED
      BY <3>2
  <2> QED
    BY <1>3, <2>1
<1>5. ASSUME NEW i \in 1 .. count - 1, i = 1 PROVE t[i] = header'
  BY <1>1, <1>3, <1>5
<1>6. ASSUME NEW i \in 1 .. count - 1, i # 1 PROVE t[i] = next'[t[i - 1]]
  <2>0. i \in 1 .. count /\ i + 1 \in 1 .. count /\ i - 1 \in 1 .. count - 1
        /\ i - 1 \in 1 .. count /\ i > 1 /\ i + 1 > 1 /\ (i + 1) - 1 = i /\ (i - 1) + 1 = i
    BY <1>1, <1>6
  <2>1. CASE i < k
    <3>1. t[i] = s[i] /\ t[i - 1] = s[i - 1] /\ i - 1 # k - 1
      BY <1>1, <1>3, <2>0, <2>1
    <3> QED
      BY <1>1, <2>0, <3>1
  <2>2. CASE i = k
    <3>1. t[i] = s[k + 1] /\ t[i - 1] = s[k - 1] /\ 1 < k /\ k < count
      BY <1>1, <1>3, <2>0, <2>2
    <3> QED
      BY <3>1
  <2>3. CASE i > k
    <3>1. t[i] = s[i + 1] /\ t[i - 1] = s[i] /\ i # k - 1
      BY <1>1, <1>3, <2>0, <2>3
    <3>2. s[i + 1] = next[s[i]]
      BY <1>1, <2>0
    <3> QED
      BY <2>0, <3>1, <3>2
  <2> QED
    BY <1>1, <2>0, <2>1, <2>2, <2>3
<1>7. Listing(t)'
  BY <1>4, <1>5, <1>6 DEF Listing, Chain
<1>8. OrderOf(s) /\ OrderOf(t)'
  BY <1>7, OrderIs, OrderNext DEF OrderKnown
<1>9. Order' = Abstract!Without(s[k])
  <2>1. PICK w : w = Abstract!Without(s[k])
    OBVIOUS
  <2>2. w \in [1 .. count - 1 -> AnyEntry]
        /\ \A i \in 1 .. count - 1 : w[i] = IF i < k THEN Order[i] ELSE Order[i + 1]
    BY <2>1, WithoutIs
  <2>3. Order' \in [1 .. count - 1 -> AnyEntry]
    BY <1>8 DEF OrderOf, AnyEntry
  <2>4. ASSUME NEW i \in 1 .. count - 1 PROVE Order'[i] = w[i]
    <3>1. i \in 1 .. count /\ i + 1 \in 1 .. count
      BY <1>1
    <3>2. t[i] = IF i < k THEN s[i] ELSE s[i + 1]
      BY <1>3
    <3>3. Order'[i] = [node |-> t[i], data |-> data[t[i]]]
      BY <1>8 DEF OrderOf
    <3>4. /\ Order[i] = [node |-> s[i], data |-> data[s[i]]]
          /\ Order[i + 1] = [node |-> s[i + 1], data |-> data[s[i + 1]]]
      BY <1>8, <3>1 DEF OrderOf
    <3> QED
      BY <2>2, <3>2, <3>3, <3>4
  <2>5. /\ Order' = [i \in 1 .. count - 1 |-> Order'[i]]
        /\ w = [i \in 1 .. count - 1 |-> w[i]]
    BY <2>2, <2>3
  <2>6. Order' = w
    BY <2>4, <2>5
  <2> QED
    BY <2>1, <2>6
<1> QED
  BY <1>7, <1>9

\* lru_list_delete takes one entry out, wherever it is.
LEMMA DeleteRefines ==
  ASSUME IInv, IInv', NEW s, Listing(s), NEW n \in Node, lru_list_delete(n)
  PROVE  HasOrder' /\ Abstract!Delete(n)
<1>1. /\ Ready /\ Ready' /\ ~closing' /\ n \in alloc /\ alloc' = alloc \ {n}
      /\ data' = data /\ count' = count - 1 /\ rtn' = NULL
  BY DEF lru_list_delete, Ready
<1>2. /\ count \in Nat
      /\ count > 0 => s[1] = header /\ prev[s[1]] = NULL
      /\ \A i \in 1 .. count : i > 1 => s[i] = next[s[i - 1]] /\ prev[s[i]] = s[i - 1]
      /\ \A i \in 1 .. count : s[i] \in alloc
  BY <1>1, ListingLinks
<1>3. /\ \A i, j \in 1 .. count : s[i] = s[j] => i = j
      /\ count > 0 => s[count] = tail
  BY <1>1, ListingOnce, ListingAll
<1>4. PICK k \in 1 .. count : s[k] = n
  BY <1>1, ListingAll
<1>5. /\ next \in [Node -> Ptr] /\ alloc \subseteq Node /\ NULL \notin alloc
      /\ k = 1 <=> n = header
      /\ k = count <=> n = tail
  <2>1. count > 0 /\ 1 \in 1 .. count /\ count \in 1 .. count
    BY <1>2, <1>4
  <2> QED
    BY <1>2, <1>3, <1>4, <2>1, NullAssumption DEF IInv, TypeOK
<1>6. count > 1 => header' = IF k = 1 THEN s[2] ELSE header
  <2> SUFFICES ASSUME count > 1 PROVE header' = IF k = 1 THEN s[2] ELSE header
    OBVIOUS
  <2>1. s[2] = next[s[1]] /\ s[2] \in alloc
    BY <1>2
  <2>2. k = 1 => next[n] = s[2] /\ next[n] # NULL
    BY <1>4, <1>5, <2>1
  <2> QED
    BY <1>5, <2>2 DEF lru_list_delete
<1>7. k > 1 => prev[n] = s[k - 1] /\ k - 1 \in 1 .. count
  BY <1>2, <1>4
<1>8. \A j \in 1 .. count : j # k - 1 => next'[s[j]] = next[s[j]]
  <2> SUFFICES ASSUME NEW j \in 1 .. count, j # k - 1 PROVE next'[s[j]] = next[s[j]]
    OBVIOUS
  <2>1. CASE k = 1
    <3>1. next' = next
      BY <1>5, <2>1 DEF lru_list_delete
    <3> QED
      BY <3>1
  <2>2. CASE k > 1
    <3>1. s[j] # prev[n] /\ s[j] \in Node
      BY <1>2, <1>3, <1>5, <1>7, <2>2
    <3>2. next' \in {[next EXCEPT ![prev[n]] = NULL], [next EXCEPT ![prev[n]] = next[n]]}
      BY <1>5, <2>2 DEF lru_list_delete, NextWithout
    <3> QED
      BY <1>5, <3>1, <3>2
  <2> QED
    BY <1>2, <2>1, <2>2
<1>9. 1 < k /\ k < count => next'[s[k - 1]] = s[k + 1]
  <2> SUFFICES ASSUME 1 < k, k < count PROVE next'[s[k - 1]] = s[k + 1]
    OBVIOUS
  <2>1. next' = [next EXCEPT ![prev[n]] = next[n]]
    BY <1>2, <1>5 DEF lru_list_delete, NextWithout
  <2>2. k + 1 \in 1 .. count /\ (k + 1) - 1 = k /\ k + 1 > 1
    BY <1>2
  <2>3. s[k + 1] = next[n]
    BY <1>2, <1>4, <2>2
  <2>4. prev[n] \in Node /\ prev[n] = s[k - 1]
    BY <1>2, <1>5, <1>7
  <2> QED
    BY <1>5, <2>1, <2>3, <2>4
<1>10. (\E t : Listing(t))' /\ Order' = Abstract!Without(n)
  BY <1>1, <1>4, <1>6, <1>8, <1>9, RemovalListing
<1>11. n \in Abstract!HandlesOf(Order)
  BY <1>1, Places
<1> QED
  BY <1>1, <1>10, <1>11 DEF HasOrder, Abstract!Delete

\* lru_list_remove_tail takes the last entry and returns its data.
LEMMA RemoveTailRefines ==
  ASSUME IInv, IInv', NEW s, Listing(s), lru_list_remove_tail
  PROVE  HasOrder' /\ Abstract!RemoveTail
<1>1. Ready /\ Ready' /\ ~closing'
  BY DEF lru_list_remove_tail, Ready
<1>2. /\ count \in Nat
      /\ count > 0 => s[1] = header /\ prev[s[1]] = NULL
      /\ \A i \in 1 .. count : i > 1 => s[i] = next[s[i - 1]] /\ prev[s[i]] = s[i - 1]
      /\ \A i \in 1 .. count : s[i] \in alloc
  BY <1>1, ListingLinks
<1>3. /\ \A i, j \in 1 .. count : s[i] = s[j] => i = j
      /\ count > 0 => s[count] = tail
      /\ count = 0 <=> tail = NULL
  BY <1>1, ListingOnce, ListingAll
<1>4. OrderOf(s)
  BY <1>1, OrderIs DEF OrderKnown
<1>5. CASE tail = NULL
  <2>1. /\ UNCHANGED <<live, header, tail, count, alloc, prev, next, data, closing>>
        /\ rtn' = NULL
    BY <1>5 DEF lru_list_remove_tail, list, nodes
  <2>2. Listing(s)'
    BY <2>1 DEF Listing, Chain
  <2>3. Order = <<>>
    BY <1>3, <1>4, <1>5, EmptySeq DEF OrderOf
  <2>4. OrderOf(s)'
    BY <1>1, <2>2, OrderNext DEF OrderKnown
  <2>5. Order' = <<>>
    <3>1. Order' \in Seq(AnyEntry') /\ Len(Order') = 0
      BY <1>3, <1>5, <2>1, <2>4 DEF OrderOf
    <3> QED
      BY <3>1, EmptySeq
  <2> QED
    BY <1>1, <2>1, <2>2, <2>3, <2>5 DEF HasOrder, Abstract!RemoveTail
<1>6. CASE tail # NULL
  <2>1. /\ count' = count - 1 /\ rtn' = data[tail] /\ alloc' = alloc \ {tail}
        /\ data' = data
        /\ \/ /\ prev[tail] # NULL /\ header' = header
              /\ next' = [next EXCEPT ![prev[tail]] = NULL]
           \/ prev[tail] = NULL /\ next' = next
    BY <1>6 DEF lru_list_remove_tail
  <2>2. count > 0 /\ count \in 1 .. count /\ s[count] = tail
    BY <1>2, <1>3, <1>6
  <2>3. /\ next \in [Node -> Ptr] /\ alloc \subseteq Node /\ NULL \notin alloc
    BY NullAssumption DEF IInv, TypeOK
  <2>4. count > 1 => prev[tail] = s[count - 1] /\ prev[tail] # NULL /\ count - 1 \in 1 .. count
    <3>1. count > 1 => count - 1 \in 1 .. count
      BY <1>2
    <3> QED
      BY <1>2, <2>2, <2>3, <3>1
  <2>5. count = 1 => prev[tail] = NULL
    BY <1>2, <2>2
  <2>6. count > 1 => header' = IF count = 1 THEN s[2] ELSE header
    BY <2>1, <2>4
  <2>7. \A j \in 1 .. count : j # count - 1 => next'[s[j]] = next[s[j]]
    <3> SUFFICES ASSUME NEW j \in 1 .. count, j # count - 1 PROVE next'[s[j]] = next[s[j]]
      OBVIOUS
    <3>1. count > 1 => s[j] # prev[tail] /\ s[j] \in Node
      BY <1>2, <1>3, <2>3, <2>4
    <3>2. count > 1 \/ count = 1
      BY <1>2, <2>2
    <3> QED
      BY <2>1, <2>3, <2>5, <3>1, <3>2
  <2>8. ~ (1 < count /\ count < count)
    BY <1>2
  <2>9. (\E t : Listing(t))' /\ Order' = Abstract!Without(s[count])
    BY <1>1, <2>1, <2>2, <2>6, <2>7, <2>8, RemovalListing
  <2>10. Order' = Abstract!Front(Order)
    <3>1. /\ Order \in Seq(AnyEntry) /\ Len(Order) = count
          /\ Order' = SubSeq(Order, 1, count - 1) \o SubSeq(Order, count + 1, count)
      BY <1>1, <1>4, <2>2, <2>9, WithoutIs DEF OrderOf
    <3>2. SubSeq(Order, count + 1, count) = <<>>
      <4>1. /\ SubSeq(Order, count + 1, count) \in Seq(AnyEntry)
            /\ Len(SubSeq(Order, count + 1, count)) = 0
        BY <1>2, <3>1, SubSeqProperties
      <4> QED
        BY <4>1, EmptySeq
    <3>3. SubSeq(Order, 1, count - 1) \in Seq(AnyEntry)
      <4>1. 1 \in 1 .. Len(Order) + 1 /\ count - 1 \in 0 .. Len(Order)
        BY <1>2, <2>2, <3>1
      <4> QED
        BY <1>2, <3>1, <4>1, SubSeqProperties
    <3>4. Order' = SubSeq(Order, 1, count - 1)
      BY <3>1, <3>2, <3>3, ConcatEmptySeq
    <3> QED
      BY <3>1, <3>4 DEF Abstract!Front
  <2>11. Order # <<>>
    BY <1>4, <2>2 DEF OrderOf
  <2>12. rtn' = Abstract!Last(Order).data
    <3>1. Order[count].data = data[tail]
      BY <1>4, <2>2 DEF OrderOf
    <3> QED
      BY <1>4, <2>1, <3>1 DEF OrderOf, Abstract!Last
  <2> QED
    BY <1>1, <2>9, <2>10, <2>11, <2>12 DEF HasOrder, Abstract!RemoveTail
<1> QED
  BY <1>5, <1>6

\* lru_list_move_to_first puts an entry in front of the others; the header
\* stays where it is.
LEMMA MoveRefines ==
  ASSUME IInv, IInv', NEW s, Listing(s), NEW n \in Node, lru_list_move_to_first(n)
  PROVE  HasOrder' /\ Abstract!Touch(n)
<1>1. /\ Ready /\ Ready' /\ ~closing' /\ n \in alloc /\ alloc' = alloc
      /\ data' = data /\ count' = count /\ rtn' = NULL
  BY DEF lru_list_move_to_first, Ready, list, nodes
<1>2. /\ count \in Nat
      /\ count > 0 => s[1] = header /\ prev[s[1]] = NULL
      /\ \A i \in 1 .. count : i > 1 => s[i] = next[s[i - 1]] /\ prev[s[i]] = s[i - 1]
      /\ \A i \in 1 .. count : s[i] \in alloc
      /\ s \in [1 .. count -> alloc]
  BY <1>1, ListingLinks DEF Listing
<1>3. \A i, j \in 1 .. count : s[i] = s[j] => i = j
  BY <1>1, ListingOnce
<1>4. PICK k \in 1 .. count : s[k] = n
  BY <1>1, ListingAll
<1>5. /\ next \in [Node -> Ptr] /\ alloc \subseteq Node
      /\ k = 1 <=> n = header
      /\ k > 1 => prev[n] = s[k - 1] /\ k - 1 \in 1 .. count
  <2>1. count > 0 /\ 1 \in 1 .. count
    BY <1>2, <1>4
  <2> QED
    BY <1>2, <1>3, <1>4, <2>1 DEF IInv, TypeOK
<1>6. PICK t : t = [i \in 1 .. count |-> IF i = 1 THEN n
                                       ELSE IF i <= k THEN s[i - 1] ELSE s[i]]
  OBVIOUS
<1>7. t \in [1 .. count -> alloc] /\ DOMAIN t = 1 .. count
  <2>1. ASSUME NEW i \in 1 .. count PROVE t[i] \in alloc
    <3>1. i # 1 => i - 1 \in 1 .. count
      BY <1>2
    <3> QED
      BY <1>1, <1>2, <1>6, <3>1
  <2> QED
    BY <1>6, <2>1
<1>8. Listing(t)'
  <2>1. CASE n = header
    <3>1. UNCHANGED <<header, next>> /\ k = 1
      BY <1>5, <2>1 DEF lru_list_move_to_first, list, nodes
    <3>2. \A i \in 1 .. count : t[i] = s[i]
      BY <1>2, <1>4, <1>6, <3>1
    <3>3. s = [i \in 1 .. count |-> s[i]] /\ t = [i \in 1 .. count |-> t[i]]
      BY <1>2, <1>6
    <3>4. t = s
      BY <3>2, <3>3
    <3> QED
      BY <1>1, <3>1, <3>4 DEF Listing, Chain
  <2>2. CASE n # header
    <3>1. /\ header' = n /\ k > 1
          /\ next' = [next EXCEPT ![prev[n]] = next[n], ![n] = header]
      BY <1>2, <1>5, <2>2 DEF lru_list_move_to_first, NextWithout
    <3>2. /\ next'[n] = header
          /\ next'[s[k - 1]] = next[n]
          /\ \A j \in 1 .. count : j # k /\ j # k - 1 => next'[s[j]] = next[s[j]]
      <4>1. s[k - 1] # n /\ s[k - 1] \in Node /\ n \in Node
        BY <1>2, <1>3, <1>4, <1>5, <3>1
      <4>2. \A j \in 1 .. count : j # k /\ j # k - 1
              => s[j] # n /\ s[j] # s[k - 1] /\ s[j] \in Node
        BY <1>2, <1>3, <1>4, <1>5, <3>1
      <4> QED
        BY <1>5, <3>1, <4>1, <4>2
    <3>3. t[1] = header'
      BY <1>2, <1>4, <1>6, <3>1
    <3>4. ASSUME NEW i \in 1 .. count, i # 1 PROVE t[i] = next'[t[i - 1]]
      <4>0. i \in Nat /\ i > 1 /\ i - 1 \in 1 .. count /\ k \in Nat
        BY <1>2, <3>4
      <4>1. CASE i = 2
        <5>1. t[2] = s[1] /\ t[1] = n /\ s[1] = header
          BY <1>2, <1>6, <3>1, <4>0, <4>1
        <5> QED
          BY <3>2, <4>1, <5>1
      <4>2. CASE i > 2 /\ i <= k
        <5>1. /\ t[i] = s[i - 1] /\ t[i - 1] = s[(i - 1) - 1]
              /\ (i - 1) - 1 \in 1 .. count /\ (i - 1) - 1 # k /\ (i - 1) - 1 # k - 1
          BY <1>2, <1>6, <4>0, <4>2
        <5>2. s[i - 1] = next[s[(i - 1) - 1]]
          BY <1>2, <4>0, <4>2
        <5> QED
          BY <3>2, <5>1, <5>2
      <4>3. CASE i > 2 /\ i = k + 1
        <5>1. t[i] = s[i] /\ t[i - 1] = s[k - 1]
          BY <1>2, <1>6, <3>1, <4>0, <4>3
        <5>2. s[i] = next[n]
          BY <1>2, <1>4, <4>0, <4>3
        <5> QED
          BY <3>2, <5>1, <5>2
      <4>4. CASE i > 2 /\ i > k + 1
        <5>1. t[i] = s[i] /\ t[i - 1] = s[i - 1] /\ i - 1 # k /\ i - 1 # k - 1
          BY <1>2, <1>6, <4>0, <4>4
        <5>2. s[i] = next[s[i - 1]]
          BY <1>2, <4>0
        <5> QED
          BY <3>2, <4>0, <5>1, <5>2
      <4> QED
        BY <4>0, <4>1, <4>2, <4>3, <4>4
    <3> QED
      BY <1>1, <1>7, <3>3, <3>4 DEF Listing, Chain
  <2> QED
    BY <2>1, <2>2
<1>9. OrderOf(s) /\ OrderOf(t)'
  BY <1>1, <1>8, OrderIs, OrderNext DEF OrderKnown
<1>10. Order' = <<Order[k]>> \o Abstract!Without(n)
  <2>1. PICK w : w = Abstract!Without(n)
    OBVIOUS
  <2>2. /\ w \in [1 .. count - 1 -> AnyEntry]
        /\ \A i \in 1 .. count - 1 : w[i] = IF i < k THEN Order[i] ELSE Order[i + 1]
    BY <1>1, <1>4, <2>1, WithoutIs
  <2>3. PICK m : m = count - 1
    OBVIOUS
  <2>4. m \in Nat /\ count = m + 1
    BY <1>2, <1>4, <2>3
  <2>5. w \in Seq(AnyEntry) /\ Len(w) = m
    BY <2>2, <2>3, <2>4
  <2>6. Order[k] \in AnyEntry /\ Order' \in [1 .. m + 1 -> AnyEntry]
    BY <1>1, <1>9, <2>4 DEF OrderOf, AnyEntry
  <2>7. Order'[1] = Order[k]
    <3>1. t[1] = n /\ 1 \in 1 .. count
      BY <1>2, <1>4, <1>6
    <3> QED
      BY <1>1, <1>4, <1>9, <3>1 DEF OrderOf
  <2>8. ASSUME NEW i \in 1 .. m PROVE Order'[i + 1] = w[i]
    <3>1. /\ i \in 1 .. count /\ i + 1 \in 1 .. count /\ i + 1 # 1
          /\ (i + 1) - 1 = i /\ (i < k <=> i + 1 <= k)
      BY <1>2, <2>4
    <3>2. t[i + 1] = IF i < k THEN s[i] ELSE s[i + 1]
      BY <1>6, <3>1
    <3>3. Order'[i + 1] = [node |-> t[i + 1], data |-> data[t[i + 1]]]
      BY <1>1, <1>9, <3>1 DEF OrderOf
    <3>4. /\ Order[i] = [node |-> s[i], data |-> data[s[i]]]
          /\ Order[i + 1] = [node |-> s[i + 1], data |-> data[s[i + 1]]]
      BY <1>9, <3>1 DEF OrderOf
    <3> QED
      BY <2>2, <2>3, <3>2, <3>3, <3>4
  <2>9. Order' = <<Order[k]>> \o w
    BY <2>4, <2>5, <2>6, <2>7, <2>8, PrependIs
  <2> QED
    BY <2>1, <2>9
<1>11. Abstract!Place(n) = k /\ n \in Abstract!HandlesOf(Order)
  BY <1>1, <1>4, Places
<1> QED
  BY <1>1, <1>8, <1>10, <1>11 DEF HasOrder, Abstract!Touch

\* The list is made empty; lru_list_destroy is the end of it for its user when
\* it is called, and returns nothing.
LEMMA OpenCloseRefines ==
  ASSUME RInv, IInv', [lru_list_create \/ lru_list_destroy_call \/ lru_list_insert_nomem
                      \/ lru_list_destroy_step \/ lru_list_destroy_return]_vars
  PROVE  HasOrder' /\ [Abstract!Next]_(Abstract!vars)
<1>0. IInv /\ HasOrder
  BY DEF RInv
<1>1. CASE lru_list_create
  <2>1. /\ ~Ready /\ Ready' /\ ~closing' /\ count' = 0 /\ rtn' = NULL
    BY <1>0, <1>1 DEF lru_list_create, Ready, IInv, Closing
  <2>2. PICK t : t = [i \in 1 .. 0 |-> NULL]
    OBVIOUS
  <2>3. Listing(t)'
    BY <2>1, <2>2 DEF Listing, Chain
  <2>4. Order' = <<>>
    <3>1. Order' = [i \in 1 .. 0 |-> [node |-> Chained'[i], data |-> data'[Chained'[i]]]]
      BY <2>1 DEF Order
    <3> QED
      BY <3>1
  <2>5. Abstract!Create
    BY <2>1, <2>4 DEF Abstract!Create
  <2> QED
    BY <2>1, <2>3, <2>5 DEF HasOrder, Abstract!Next
<1>2. CASE lru_list_insert_nomem
  <2>1. UNCHANGED <<live, header, count, alloc, next, data, closing>> /\ Ready /\ rtn' = NULL
    BY <1>2 DEF lru_list_insert_nomem, list, nodes
  <2>2. Ready' /\ ~closing'
    BY <2>1 DEF Ready
  <2>3. PICK s : Listing(s)
    BY <1>0, <2>1 DEF HasOrder
  <2>4. Listing(s)'
    BY <2>1, <2>3 DEF Listing, Chain
  <2>5. Order' = Order
    BY <2>1 DEF Order, Chained, Chain, Ready
  <2>6. Abstract!InsertFails
    BY <2>1, <2>2, <2>5 DEF Abstract!InsertFails
  <2> QED
    BY <2>2, <2>4, <2>6 DEF HasOrder, Abstract!Next
<1>3. CASE lru_list_destroy_call
  <2>1. Ready /\ ~Ready' /\ rtn' = NULL
    BY <1>3 DEF lru_list_destroy_call, Ready
  <2>2. Abstract!Destroy
    BY <2>1 DEF Abstract!Destroy, Order
  <2> QED
    BY <2>1, <2>2 DEF HasOrder, Abstract!Next
<1>4. CASE lru_list_destroy_step \/ lru_list_destroy_return
  <2>1. ~Ready /\ ~Ready' /\ rtn = NULL /\ rtn' = NULL
    BY <1>0, <1>4 DEF lru_list_destroy_step, lru_list_destroy_return, Ready, HasOrder
  <2>2. Order = <<>> /\ Order' = <<>>
    BY <2>1 DEF Order
  <2>3. Ready' = Ready
    BY <2>1 DEF Ready
  <2>4. [Abstract!Next]_(Abstract!vars)
    BY <2>1, <2>2, <2>3 DEF Abstract!vars
  <2> QED
    BY <2>1, <2>4 DEF HasOrder
<1>5. CASE UNCHANGED vars
  <2>1. UNCHANGED <<live, header, tail, count, alloc, prev, next, data, closing, rtn>>
    BY <1>5 DEF vars, list, nodes
  <2>2. UNCHANGED <<Ready, Order, HasOrder>>
    BY <2>1 DEF Ready, Order, Chained, Chain, HasOrder, Listing
  <2> QED
    BY <1>0, <2>1, <2>2 DEF Abstract!vars
<1> QED
  BY <1>1, <1>2, <1>3, <1>4, <1>5

\* The pointer manipulations of zip_lru_list.c are the operations of LruSpec on
\* the sequence of entries (ImplementsLruSpec), for any number of nodes: every
\* step maps to the operation of its name, or to none.
THEOREM RefinementTheorem == Spec => ImplementsLruSpec
<1>1. Init => RInv /\ Abstract!Init
  <2> SUFFICES ASSUME Init PROVE RInv /\ Abstract!Init
    OBVIOUS
  <2>1. ~Ready /\ ~closing /\ rtn = NULL
    BY DEF Init, Ready
  <2> QED
    BY <2>1, InitIInv DEF RInv, HasOrder, Abstract!Init, Order
<1>2. RInv /\ [Next]_vars => RInv' /\ [Abstract!Next]_(Abstract!vars) /\ CallsMatch
  <2> SUFFICES ASSUME RInv, [Next]_vars
               PROVE  RInv' /\ [Abstract!Next]_(Abstract!vars) /\ CallsMatch
    OBVIOUS
  <2>1. IInv /\ HasOrder /\ IInv'
    BY InvariantNext DEF RInv
  <2>2. ASSUME NEW n \in Node, NEW d \in Data, lru_list_insert(n, d)
        PROVE  HasOrder' /\ Abstract!Insert(n, d)
    <3>1. PICK s : Listing(s)
      BY <2>1, <2>2 DEF HasOrder, lru_list_insert
    <3> QED
      BY <2>1, <2>2, <3>1, InsertRefines
  <2>3. ASSUME NEW n \in Node, lru_list_move_to_first(n)
        PROVE  HasOrder' /\ Abstract!Touch(n)
    <3>1. PICK s : Listing(s)
      BY <2>1, <2>3 DEF HasOrder, lru_list_move_to_first
    <3> QED
      BY <2>1, <2>3, <3>1, MoveRefines
  <2>4. ASSUME NEW n \in Node, lru_list_delete(n)
        PROVE  HasOrder' /\ Abstract!Delete(n)
    <3>1. PICK s : Listing(s)
      BY <2>1, <2>4 DEF HasOrder, lru_list_delete
    <3> QED
      BY <2>1, <2>4, <3>1, DeleteRefines
  <2>5. ASSUME lru_list_remove_tail PROVE HasOrder' /\ Abstract!RemoveTail
    <3>1. PICK s : Listing(s)
      BY <2>1, <2>5 DEF HasOrder, lru_list_remove_tail
    <3> QED
      BY <2>1, <2>5, <3>1, RemoveTailRefines
  <2>6. CallsMatch
    BY <2>2, <2>3, <2>4 DEF CallsMatch
  <2>7. HasOrder' /\ [Abstract!Next]_(Abstract!vars)
    <3>1. CASE \E n \in Node, d \in Data : lru_list_insert(n, d)
      BY <2>2, <3>1 DEF Abstract!Next
    <3>2. CASE \E n \in Node : lru_list_move_to_first(n) \/ lru_list_delete(n)
      BY <2>3, <2>4, <3>2 DEF Abstract!Next
    <3>3. CASE lru_list_remove_tail
      BY <2>5, <3>3 DEF Abstract!Next
    <3>4. CASE [lru_list_create \/ lru_list_destroy_call \/ lru_list_insert_nomem
               \/ lru_list_destroy_step \/ lru_list_destroy_return]_vars
      BY <2>1, <3>4, OpenCloseRefines
    <3> QED
      BY <3>1, <3>2, <3>3, <3>4 DEF Next
  <2> QED
    BY <2>1, <2>6, <2>7 DEF RInv
<1> QED
  BY <1>1, <1>2, PTL DEF Spec, ImplementsLruSpec, Abstract!Spec
=============================================================================
