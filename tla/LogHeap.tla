------------------------------ MODULE LogHeap ------------------------------
(***************************************************************************)
(* log_heap.c: the binary heap, least count first, behind the top-N lists. *)
(* A heap is a pair: h, the array as a sequence (position i is index i - 1 *)
(* in the code), and idx, the heap_index fields that the callback          *)
(* elem_insert keeps, 0 for an element that has none.  c maps elements to  *)
(* their counts.                                                           *)
(***************************************************************************)
EXTENDS Integers, Sequences, FiniteSets, SequencesExt

CONSTANT SignBit  \* 2^31: half the range of uint32_t, past the greatest int

ASSUME SignBitAssumption == SignBit \in Nat \ {0}

\* t1->count - t2->count: an unsigned difference returned as an int.
elem_compare(c, x, y) ==
  LET d == (c[x] - c[y]) % (2 * SignBit)
  IN IF d >= SignBit THEN d - 2 * SignBit ELSE d

\* Mutant: the right child is not looked at.
Lesser_LeftOnly(h, c, n, i) == 2 * i

\* The lesser child of position i among the first n entries.
Lesser(h, c, n, i) ==
  LET j == 2 * i
  IN IF j < n /\ elem_compare(c, h[j], h[j + 1]) > 0 THEN j + 1 ELSE j

\* x may stay at position i: no child is less.
Stays(h, c, n, i, x) ==
  2 * i > n \/ elem_compare(c, x, h[Lesser(h, c, n, i)]) <= 0

\* Where x sinks to from each of the first n positions, 0 where it stays.
Down(h, c, n, x) ==
  [i \in 1 .. n |-> IF Stays(h, c, n, i, x) THEN 0 ELSE Lesser(h, c, n, i)]

\* Where the last entry rises to.  The loop compares the parent with heap[i],
\* which is the new element in the first round only: later it is the old entry.
Up(h, c) ==
  [i \in 1 .. Len(h) |->
     IF i = 1 \/ elem_compare(c, h[i \div 2], h[i]) <= 0 THEN 0 ELSE i \div 2]

\* The positions a loop comes to from position i.
Visited(next, i) ==
  LET from[j \in DOMAIN next] ==
        {j} \cup IF next[j] = 0 THEN {} ELSE from[next[j]]
  IN from[i]

\* What the loop puts where: the entry of the next position, x at the last.
Puts(h, next, i, x) ==
  [k \in Visited(next, i) |-> IF next[k] = 0 THEN x ELSE h[next[k]]]

\* The loop the file repeats in five functions: heap[i] = heap[j] from one
\* position to the next, and heap[i] = x in the end.
Moved(h, next, i, x) ==
  LET new == Puts(h, next, i, x)
  IN [k \in DOMAIN h |-> IF k \in DOMAIN new THEN new[k] ELSE h[k]]

\* Mutant: the callback is not called for the last position.
Indexed_NotLast(p, next, i, x) ==
  LET new == Puts(p.h, next, i, x)
      Places(e) == {k \in DOMAIN new : next[k] # 0 /\ new[k] = e}
  IN [e \in DOMAIN p.idx |->
        IF Places(e) = {} THEN p.idx[e]
        ELSE CHOOSE k \in Places(e) : Visited(next, k) \cap Places(e) = {k}]

\* func(heap[i], i) for each of them.  An entry put at two positions keeps the
\* one the loop comes to last.
Indexed(p, next, i, x) ==
  LET new == Puts(p.h, next, i, x)
      Places(e) == {k \in DOMAIN new : new[k] = e}
  IN [e \in DOMAIN p.idx |->
        IF Places(e) = {} THEN p.idx[e]
        ELSE CHOOSE k \in Places(e) : Visited(next, k) \cap Places(e) = {k}]

Loop(p, next, i, x) == [h |-> Moved(p.h, next, i, x), idx |-> Indexed(p, next, i, x)]

heap_adjust_siftdown(p, c, i) ==
  LET n == Len(p.h)
  IN IF Stays(p.h, c, n, i, p.h[i]) THEN p
     ELSE Loop(p, Down(p.h, c, n, p.h[i]), i, p.h[i])

heap_min_less_than(p, c, x) == elem_compare(c, p.h[1], x) < 0

heap_replace_least(p, c, x) ==
  IF elem_compare(c, x, p.h[1]) <= 0 THEN p
  ELSE Loop(p, Down(p.h, c, Len(p.h), x), 1, x)

heap_insert(p, c, x) ==
  LET h == Append(p.h, x)
  IN Loop([p EXCEPT !.h = h], Up(h, c), Len(h), x)

\* Mutant: the heap is not made shorter.
heap_delete_NoShrink(p, c) ==
  [p EXCEPT !.h = Moved(@, Down(@, c, Len(@), Last(@)), 1, Last(@))]

\* Removes the least entry; no callback, so idx stays as it was.
heap_delete(p, c) ==
  LET n == Len(p.h) - 1
      x == Last(p.h)
      f == Front(p.h)
  IN [p EXCEPT !.h = IF n = 0 THEN <<>> ELSE Moved(f, Down(f, c, n, x), 1, x)]

\* Mutant: the loop that repairs the heap sees one entry too many.
Round_Early(h, c, len) ==
  LET s == [h EXCEPT ![1] = h[len], ![len] = h[1]]
  IN IF len <= 2 THEN s ELSE Moved(s, Down(s, c, len, s[1]), 1, s[1])

\* One round of heap_sort: the least of the first len entries goes behind the
\* others.  At length two the loop is left, and length one would change nothing.
Round(h, c, len) ==
  LET s == [h EXCEPT ![1] = h[len], ![len] = h[1]]
  IN IF len <= 2 THEN s ELSE Moved(s, Down(s, c, len - 1, s[1]), 1, s[1])

heap_sort(p, c) ==
  LET n == Len(p.h)
      after[k \in 0 .. n] ==
        IF k = 0 THEN p.h ELSE Round(after[k - 1], c, n - k + 1)
  IN after[n]

\* No entry is less than its parent.
Ordered(h, c) == \A i \in 2 .. Len(h) : c[h[i \div 2]] <= c[h[i]]
=============================================================================
