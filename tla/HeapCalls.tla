----------------------------- MODULE HeapCalls -----------------------------
(***************************************************************************)
(* One call of a function of log_heap.c on any heap in order of up to      *)
(* MaxLen elements, numbered by their places, with counts from 1 to        *)
(* MaxCount, or on any heap at all if the counts are so far apart that     *)
(* their difference wraps.  Element MaxLen + 1 is the one inserted.        *)
(***************************************************************************)
EXTENDS LogHeap

CONSTANTS MaxLen, MaxCount

ASSUME CountAssumption == MaxLen \in Nat /\ MaxCount \in Nat /\ MaxCount < 2 * SignBit - 1

VARIABLES hbt,    \* the heap: the pair of h and idx
          cnt, \* the counts
          call   \* the function called, "" before

heapVars == <<hbt, cnt, call>>

Elem == 1 .. MaxLen + 1
InHeap == 1 .. Len(hbt.h)

\* No difference of two counts has the sign bit.
Narrow(c) == \A x, y \in Elem : c[x] - c[y] < SignBit

HeapInit ==
  /\ call = ""
  /\ \E n \in 0 .. MaxLen, new \in 1 .. MaxCount :
       /\ hbt = [h |-> [i \in 1 .. n |-> i],
                idx |-> [e \in Elem |-> IF e <= n THEN e ELSE 0]]
       /\ \E c \in [1 .. n -> 1 .. MaxCount] :
            cnt = [e \in Elem |-> IF e <= n THEN c[e] ELSE new]
  /\ Narrow(cnt) => Ordered(hbt.h, cnt)

\* A name in the heap is seen again.
siftdown(i) ==
  /\ call' = "siftdown"
  /\ cnt' = [cnt EXCEPT ![hbt.h[i]] = @ + 1]
  /\ hbt' = heap_adjust_siftdown(hbt, cnt', i)

insert ==
  /\ call' = "insert"
  /\ hbt' = heap_insert(hbt, cnt, MaxLen + 1)
  /\ UNCHANGED cnt

replace ==
  /\ Len(hbt.h) > 0 /\ heap_min_less_than(hbt, cnt, MaxLen + 1)
  /\ call' = "replace"
  /\ hbt' = heap_replace_least(hbt, cnt, MaxLen + 1)
  /\ UNCHANGED cnt

delete ==
  /\ Len(hbt.h) > 0
  /\ call' = "delete"
  /\ hbt' = heap_delete(hbt, cnt)
  /\ UNCHANGED cnt

sort ==
  /\ call' = "sort"
  /\ hbt' = [hbt EXCEPT !.h = heap_sort(hbt, cnt)]
  /\ UNCHANGED cnt

HeapNext == call = "" /\ (\/ \E i \in InHeap : siftdown(i)
                          \/ insert \/ replace \/ delete \/ sort)

HeapSpec == HeapInit /\ [][HeapNext]_heapVars

-----------------------------------------------------------------------------
(* Properties.                                                             *)
OrderKept ==
  \/ ~Narrow(cnt) \/ ~Narrow(cnt')
  \/ call' \in {"siftdown", "replace", "delete"} /\ Ordered(hbt'.h, cnt')
  \/ call' = "insert" /\ LET g == Len(hbt'.h) \div 4
                         IN Ordered(hbt'.h, cnt')
                              <=> (g > 0 => cnt[hbt.h[g]] <= cnt[MaxLen + 1])
  \/ call' = "sort"

\* As long as no difference of counts wraps, every call but the sort keeps the
\* heap in order, heap_insert only if the new element is not less than the
\* grandparent of the place it starts from: it never rises more than one level.
KeepsOrder == [][OrderKept]_heapVars

Opposite == (cnt[MaxLen + 1] - cnt[hbt.h[1]]) % (2 * SignBit) = SignBit
ElementsKept ==
  /\ IsInjective(hbt'.h)
  /\ ToSet(hbt'.h) =
       CASE call' = "insert" -> ToSet(hbt.h) \cup {MaxLen + 1}
         [] call' = "replace" /\ ~Opposite -> (ToSet(hbt.h) \ {hbt.h[1]}) \cup {MaxLen + 1}
         [] call' = "delete" -> ToSet(hbt.h) \ {hbt.h[1]}
         [] OTHER -> ToSet(hbt.h)

\* Whatever the counts, the calls lose, invent and duplicate nothing: insert adds
\* the new element, replace and delete remove the first one.  If the new element
\* is exactly 2^31 away from the first, heap_min_less_than calls it greater,
\* heap_replace_least calls it less, and nothing is replaced.
KeepsElements == [][ElementsKept]_heapVars

\* The callbacks leave every heap_index at the place of its element, out of order
\* as the heap may be when differences wrap.
IndexExact ==
  call \in {"siftdown", "insert", "replace"} => \A i \in InHeap : hbt.idx[hbt.h[i]] = i

\* heap_sort puts a heap in order into descending order, as the top-N reply
\* needs it, if no difference of counts wraps.
SortDescends ==
  call = "sort" /\ Narrow(cnt) => \A i, j \in InHeap : i < j => cnt[hbt.h[i]] >= cnt[hbt.h[j]]
=============================================================================
