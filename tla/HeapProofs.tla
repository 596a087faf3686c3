----------------------------- MODULE HeapProofs -----------------------------
(***************************************************************************)
(* Proofs about the top-N heap: what the loops of log_heap.c do to any     *)
(* array (LogHeap), what each call does to a heap of any size (HeapCalls), *)
(* and that the name tree around it is sound (NameTree).                   *)
(***************************************************************************)
EXTENDS HeapCalls, NameTree, Functions, FunctionTheorems, SequenceTheorems, FiniteSetTheorems,
        WellFoundedInduction, TLAPS

\* A set of numbers has a least one.
LEMMA LeastIs ==
  ASSUME NEW S \in SUBSET Nat, S # {}
  PROVE  \E m \in S : \A n \in S : m <= n
<1>1. PICK m \in S : \A n \in S : ~ (<<n, m>> \in OpToRel(<, Nat))
  BY NatLessThanWellFounded, WFMin
<1>2. \A n \in S : ~ (n < m)
  BY <1>1 DEF OpToRel
<1> QED
  BY <1>2

-----------------------------------------------------------------------------
(* Comparing counts.                                                       *)

\* A remainder is what is left when the divisor is taken out often enough.
LEMMA Remainder ==
  ASSUME NEW a \in Int, NEW n \in Nat, n > 0, NEW q \in Int, NEW r \in 0 .. n - 1, a = n * q + r
  PROVE  a % n = r
OBVIOUS

\* Two counts less than 2^31 apart compare by their difference.
LEMMA Difference ==
  ASSUME NEW c, NEW x, NEW y, c[x] \in Nat, c[y] \in Nat,
         c[x] - c[y] < SignBit, c[y] - c[x] < SignBit
  PROVE  elem_compare(c, x, y) = c[x] - c[y]
<1> DEFINE d == c[x] - c[y]
<1>1. SignBit \in Nat /\ SignBit > 0 /\ d \in Int
  BY SignBitAssumption
<1>2. CASE d >= 0
  <2>1. d % (2 * SignBit) = d
    BY <1>1, <1>2
  <2> QED
    BY <1>1, <1>2, <2>1 DEF elem_compare
<1>3. CASE d < 0
  <2>1. d = (2 * SignBit) * (-1) + (d + 2 * SignBit) /\ d + 2 * SignBit \in 0 .. (2 * SignBit) - 1
    BY <1>1, <1>3
  <2>2. d % (2 * SignBit) = d + 2 * SignBit
    BY <1>1, <2>1, Remainder
  <2>3. d + 2 * SignBit >= SignBit
    BY <1>1
  <2> QED
    BY <1>1, <2>2, <2>3 DEF elem_compare
<1> QED
  BY <1>1, <1>2, <1>3

-----------------------------------------------------------------------------
(* The loops.  next says where the loop goes from each position; rank      *)
(* falls on the way.                                                       *)

Falls(next, rank) ==
  /\ rank \in [DOMAIN next -> Nat]
  /\ \A j \in DOMAIN next : next[j] # 0 => next[j] \in DOMAIN next /\ rank[next[j]] < rank[j]

\* The positions visited are the first one and those visited from the next.
LEMMA VisitedIs ==
  ASSUME NEW next, \A j \in DOMAIN next : next[j] # 0 => next[j] \in DOMAIN next,
         NEW i \in DOMAIN next
  PROVE  Visited(next, i) = {i} \cup IF next[i] = 0 THEN {} ELSE Visited(next, next[i])
<1> DEFINE D == DOMAIN next
           Closed(j) == {T \in SUBSET D : j \in T /\ \A k \in T : next[k] # 0 => next[k] \in T}
           Least(j) == {k \in D : \A T \in Closed(j) : k \in T}
           Step(f, j) == {j} \cup IF next[j] = 0 THEN {} ELSE f[next[j]]
           g == [j \in D |-> Least(j)]
           from == CHOOSE f : f = [j \in D |-> Step(f, j)]
<1>1. ASSUME NEW j \in D PROVE g[j] = Step(g, j)
  <2>1. Step(g, j) \subseteq Least(j)
    <3>1. CASE next[j] = 0
      BY <3>1
    <3>2. CASE next[j] # 0
      <4>1. \A T \in Closed(j) : T \in Closed(next[j])
        BY <3>2
      <4> QED
        BY <3>2, <4>1
    <3> QED
      BY <3>1, <3>2
  <2>2. Step(g, j) \in Closed(j)
    <3>1. CASE next[j] = 0
      BY <3>1
    <3>2. CASE next[j] # 0
      <4>1. next[j] \in D /\ next[j] \in Least(next[j])
        BY <3>2
      <4>2. \A k \in Least(next[j]) : next[k] # 0 => next[k] \in Least(next[j])
        BY <3>2, <4>1
      <4> QED
        BY <3>2, <4>1, <4>2
    <3> QED
      BY <3>1, <3>2
  <2>3. Least(j) \subseteq Step(g, j)
    BY <2>2
  <2> QED
    BY <2>1, <2>3
<1>2. g = [j \in D |-> Step(g, j)]
  BY <1>1
<1> HIDE DEF Least, g
<1>3. from = [j \in D |-> Step(from, j)]
  BY <1>2
<1>4. \A j \in D : Visited(next, j) = from[j]
  BY DEF Visited
<1> HIDE DEF from
<1>5. from[i] = Step(from, i)
  BY <1>3
<1> QED
  BY <1>4, <1>5

\* What is known of the positions W a loop visits from i: it never comes back,
\* each position but i has one before it, and there is one end.
Route(next, i, W) ==
  /\ i \in W /\ W \subseteq DOMAIN next
  /\ \A k \in W : next[k] # 0 => next[k] \in W /\ next[k] # i
  /\ \A k \in W \ {i} : \E j \in W : next[j] = k
  /\ \A j, k \in W : next[j] = next[k] => j = k
  /\ \E k \in W : next[k] = 0

\* Every loop has such a route.
LEMMA RouteIs ==
  ASSUME NEW next, NEW rank, Falls(next, rank), 0 \notin DOMAIN next, NEW i \in DOMAIN next
  PROVE  /\ Route(next, i, Visited(next, i))
         /\ \A k \in Visited(next, i) : k = i \/ rank[k] < rank[i]
<1> DEFINE D == DOMAIN next
           V(j) == Visited(next, j)
           Good(j) == /\ Route(next, j, V(j))
                      /\ \A k \in V(j) : k = j \/ rank[k] < rank[j]
           Bad == {rank[j] : j \in {k \in D : ~Good(k)}}
<1>0. rank \in [D -> Nat] /\ \A j \in D : next[j] # 0 => next[j] \in D /\ rank[next[j]] < rank[j]
  BY DEF Falls
<1>1. ASSUME NEW j \in D, \A k \in D : rank[k] < rank[j] => Good(k) PROVE Good(j)
  <2>1. V(j) = {j} \cup IF next[j] = 0 THEN {} ELSE V(next[j])
    BY <1>0, VisitedIs
  <2>2. CASE next[j] = 0
    <3>1. V(j) = {j}
      BY <2>1, <2>2
    <3> HIDE DEF V
    <3> QED
      BY <2>2, <3>1 DEF Route
  <2>3. CASE next[j] # 0
    <3> DEFINE t == next[j]
    <3>1. t \in D /\ rank[t] < rank[j] /\ Good(t) /\ V(j) = {j} \cup V(t)
      BY <1>0, <1>1, <2>1, <2>3
    <3>2. rank[j] \in Nat /\ \A k \in V(t) : k \in D /\ rank[k] \in Nat
      BY <1>0, <3>1 DEF Route
    <3> HIDE DEF V
    <3>3. \A k \in V(t) : rank[k] < rank[j] /\ k # j
      BY <1>0, <3>1, <3>2
    <3>4. \A k \in V(t) : next[k] # t
      BY <2>3, <3>1 DEF Route
    <3>5. t \in V(t)
      BY <3>1 DEF Route
    <3>6. \A k \in V(j) : next[k] # 0 => next[k] \in V(j) /\ next[k] # j
      BY <3>1, <3>3, <3>5 DEF Route
    <3>7. \A k \in V(j) \ {j} : \E l \in V(j) : next[l] = k
      BY <3>1 DEF Route
    <3>8. \A l, k \in V(j) : next[l] = next[k] => l = k
      BY <3>1, <3>4 DEF Route
    <3>9. \E k \in V(j) : next[k] = 0
      BY <3>1 DEF Route
    <3>10. V(j) \subseteq D /\ j \in V(j)
      BY <3>1, <3>2
    <3>11. Route(next, j, V(j))
      BY <3>6, <3>7, <3>8, <3>9, <3>10 DEF Route
    <3> QED
      BY <3>1, <3>3, <3>11
  <2> QED
    BY <2>2, <2>3
<1> HIDE DEF Good
<1>2. Bad = {}
  <2>1. SUFFICES ASSUME Bad # {} PROVE FALSE
    OBVIOUS
  <2>2. Bad \in SUBSET Nat
    BY <1>0
  <2>3. PICK m \in Bad : \A l \in Bad : m <= l
    BY <2>1, <2>2, LeastIs
  <2>4. PICK j \in D : m = rank[j] /\ ~Good(j)
    BY <2>3
  <2>5. \A k \in D : rank[k] < rank[j] => Good(k)
    BY <1>0, <2>3, <2>4
  <2> QED
    BY <1>1, <2>4, <2>5
<1>3. Good(i)
  BY <1>2
<1> QED
  BY <1>3 DEF Good

\* Where such a loop puts what.
LEMMA MovedIs ==
  ASSUME NEW E, NEW h \in Seq(E), NEW x \in E, NEW next, DOMAIN next \subseteq 1 .. Len(h),
         NEW i \in DOMAIN next, Route(next, i, Visited(next, i))
  PROVE  /\ Moved(h, next, i, x) \in Seq(E)
         /\ Len(Moved(h, next, i, x)) = Len(h)
         /\ \A k \in 1 .. Len(h) :
              Moved(h, next, i, x)[k] = IF k \notin Visited(next, i) THEN h[k]
                                        ELSE IF next[k] = 0 THEN x ELSE h[next[k]]
<1> DEFINE W == Visited(next, i)
           m == Moved(h, next, i, x)
<1>1. W \subseteq 1 .. Len(h) /\ DOMAIN h = 1 .. Len(h) /\ Len(h) \in Nat
  BY DEF Route
<1>2. \A k \in W : next[k] # 0 => next[k] \in W
  BY DEF Route
<1>3. m = [k \in 1 .. Len(h) |-> IF k \in W THEN IF next[k] = 0 THEN x ELSE h[next[k]] ELSE h[k]]
  BY <1>1 DEF Moved, Puts
<1> HIDE DEF m, W
<1>0. \A k \in 1 .. Len(h) : h[k] \in E
  OBVIOUS
<1>4. ASSUME NEW k \in 1 .. Len(h) PROVE m[k] \in E
  <2>1. k \in W /\ next[k] # 0 => next[k] \in 1 .. Len(h)
    BY <1>1, <1>2
  <2> QED
    BY <1>0, <1>3, <2>1
<1>5. m \in [1 .. Len(h) -> E]
  BY <1>3, <1>4
<1>6. m \in Seq(E) /\ Len(m) = Len(h)
  BY <1>1, <1>5
<1> QED
  BY <1>3, <1>6 DEF m, W

\* m has for each position visited the entry of the next one, and x for the last.
Shifted(h, next, i, x, m) ==
  \A k \in 1 .. Len(h) : m[k] = IF k \notin Visited(next, i) THEN h[k]
                              ELSE IF next[k] = 0 THEN x ELSE h[next[k]]

LEMMA MovedAt ==
  ASSUME NEW E, NEW h \in Seq(E), NEW x \in E, NEW next, DOMAIN next \subseteq 1 .. Len(h),
         NEW i \in DOMAIN next, Route(next, i, Visited(next, i))
  PROVE  Shifted(h, next, i, x, Moved(h, next, i, x))
BY MovedIs DEF Shifted


\* No entry of h but that at i is there twice, and none of them is x.
OnceBut(h, i, x) ==
  /\ \A j, k \in 1 .. Len(h) : j # i /\ k # i /\ h[j] = h[k] => j = k
  /\ \A j \in 1 .. Len(h) : j # i => h[j] # x

\* m has the entries of h, but x for that at i.
Replaced(h, i, x, m) ==
  \A v : v \in ToSet(m) <=> v = x \/ \E j \in 1 .. Len(h) : j # i /\ v = h[j]

\* A loop that starts at i puts x for the entry at i: the others are all there
\* still, and none is there twice.
LEMMA MovedOnce ==
  ASSUME NEW E, NEW h \in Seq(E), NEW x \in E, NEW next, DOMAIN next \subseteq 1 .. Len(h),
         NEW i \in DOMAIN next, Route(next, i, Visited(next, i)), 0 \notin DOMAIN next,
         OnceBut(h, i, x)
  PROVE  IsInjective(Moved(h, next, i, x)) /\ Replaced(h, i, x, Moved(h, next, i, x))
<1> DEFINE W == Visited(next, i)
           m == Moved(h, next, i, x)
           L == 1 .. Len(h)
           from(k) == IF k \in W THEN next[k] ELSE k
<1>1. /\ DOMAIN m = L
      /\ \A k \in L : m[k] = IF from(k) = 0 THEN x ELSE h[from(k)]
  <2>1. Len(h) \in Nat /\ \A k \in L : k # 0
    OBVIOUS
  <2>2. m \in Seq(E) /\ Len(m) = Len(h)
    BY MovedIs
  <2>3. \A k \in L : m[k] = IF k \notin W THEN h[k] ELSE IF next[k] = 0 THEN x ELSE h[next[k]]
    BY MovedIs
  <2> QED
    BY <2>1, <2>2, <2>3
<1>2. /\ i \in W /\ W \subseteq L /\ i \in L
      /\ \A k \in W : next[k] # 0 => next[k] \in W /\ next[k] # i
      /\ \A k \in W \ {i} : \E j \in W : next[j] = k
      /\ \A j, k \in W : next[j] = next[k] => j = k
      /\ \E k \in W : next[k] = 0
  BY DEF Route
<1> HIDE DEF W, m
<1>3. \A k \in L : from(k) = 0 \/ (from(k) \in L \ {i})
  BY <1>2
<1>4. \A j, k \in L : from(j) = from(k) => j = k
  BY <1>2
<1>5. \A j \in L \ {i} : \E k \in L : from(k) = j
  BY <1>2
<1>6. \E k \in L : from(k) = 0
  BY <1>2
<1>7. 0 \notin L
  OBVIOUS
<1> HIDE DEF L, from
<1>8. ASSUME NEW j \in L, NEW k \in L, m[j] = m[k] PROVE j = k
  <2>1. CASE from(j) = 0 \/ from(k) = 0
    BY <1>1, <1>3, <1>4, <1>8, <2>1 DEF L, OnceBut
  <2>2. CASE from(j) # 0 /\ from(k) # 0
    BY <1>1, <1>3, <1>4, <1>8, <2>2 DEF L, OnceBut
  <2> QED
    BY <2>1, <2>2
<1>9. IsInjective(m)
  BY <1>1, <1>8 DEF IsInjective
<1>10. \A v : (\E k \in L : v = m[k]) <=> (v = x \/ \E j \in L : j # i /\ v = h[j])
  <2>1. \A k \in L : m[k] = x \/ \E j \in L : j # i /\ m[k] = h[j]
    BY <1>1, <1>3
  <2>2. \A j \in L \ {i} : \E k \in L : m[k] = h[j]
    BY <1>1, <1>5, <1>7
  <2>3. \E k \in L : m[k] = x
    BY <1>1, <1>6
  <2> QED
    BY <2>1, <2>2, <2>3
<1>11. \A v : v \in ToSet(m) <=> \E k \in L : v = m[k]
  BY <1>1 DEF ToSet
<1> QED
  BY <1>9, <1>10, <1>11 DEF L, m, Replaced

\* The callbacks note for e the last position it was put at, and nothing if it
\* was put at none.
Noted(W, new, e, was, now) ==
  \/ \E k \in W : new[k] = e /\ now = k
  \/ (\A k \in W : new[k] # e) /\ now = was

LEMMA IndexedIs ==
  ASSUME NEW p, NEW x, NEW next, NEW rank, Falls(next, rank), 0 \notin DOMAIN next,
         NEW i \in DOMAIN next, NEW e \in DOMAIN p.idx
  PROVE  Noted(Visited(next, i), Puts(p.h, next, i, x), e, p.idx[e], Indexed(p, next, i, x)[e])
<1> DEFINE W == Visited(next, i)
           new == Puts(p.h, next, i, x)
           Places == {k \in DOMAIN new : new[k] = e}
           IsLast(k) == Visited(next, k) \cap Places = {k}
<1>1. DOMAIN new = W
  BY DEF Puts
<1>2. Indexed(p, next, i, x)[e] = IF Places = {} THEN p.idx[e] ELSE CHOOSE k \in Places : IsLast(k)
  BY DEF Indexed
<1>3. ASSUME Places # {} PROVE \E k \in Places : IsLast(k)
  <2>1. W \subseteq DOMAIN next
    BY RouteIs DEF Route
  <2>2. \A k \in DOMAIN next : rank[k] \in Nat
    BY DEF Falls
  <2>3. Places \subseteq DOMAIN next
    BY <1>1, <2>1
  <2> DEFINE R == {rank[k] : k \in Places}
  <2> HIDE DEF Places
  <2>4. R \in SUBSET Nat /\ R # {}
    BY <1>3, <2>2, <2>3
  <2>5. PICK m \in R : \A l \in R : m <= l
    BY <2>4, LeastIs
  <2>6. PICK k \in Places : m = rank[k]
    BY <2>5
  <2>7. \A l \in Places : rank[k] <= rank[l]
    BY <2>5, <2>6
  <2>8. k \in DOMAIN next /\ k \in Visited(next, k) /\ \A l \in Visited(next, k) : l = k \/ rank[l] < rank[k]
    BY <2>3, RouteIs DEF Route
  <2>9. \A l \in Places : rank[l] \in Nat
    BY <2>2, <2>3
  <2>10. \A l \in Visited(next, k) \cap Places : l = k
    BY <2>6, <2>7, <2>8, <2>9
  <2> QED
    BY <2>8, <2>10
<1> HIDE DEF IsLast
<1>4. CASE Places = {}
  BY <1>1, <1>2, <1>4 DEF Noted
<1>5. CASE Places # {}
  <2>1. PICK k \in Places : IsLast(k)
    BY <1>3, <1>5
  <2>2. Indexed(p, next, i, x)[e] \in Places
    BY <1>2, <1>5, <2>1
  <2> QED
    BY <1>1, <2>2 DEF Noted
<1> QED
  BY <1>4, <1>5

-----------------------------------------------------------------------------
(* Sinking and rising.                                                     *)

\* Counts of which no two are 2^31 apart.
Comparable(c, S) == \A a, b \in S : c[a] \in Nat /\ c[a] - c[b] < SignBit

LEMMA CompareIs ==
  ASSUME NEW c, NEW S, Comparable(c, S), NEW a \in S, NEW b \in S
  PROVE  /\ c[a] \in Nat /\ c[b] \in Nat /\ elem_compare(c, a, b) = c[a] - c[b]
         /\ elem_compare(c, a, b) <= 0 <=> c[a] <= c[b]
<1>1. c[a] \in Nat /\ c[b] \in Nat /\ elem_compare(c, a, b) = c[a] - c[b]
  BY Difference DEF Comparable
<1> QED
  BY <1>1

\* How far a position is from the end.
FromEnd(n) == [j \in 1 .. n |-> n - j]

\* An entry sinks to one of the two children, so that the way down ends.
LEMMA DownIs ==
  ASSUME NEW h, NEW c, NEW n \in Nat, NEW x, NEW next, next = Down(h, c, n, x)
  PROVE  /\ DOMAIN next = 1 .. n /\ 0 \notin DOMAIN next
         /\ Falls(next, FromEnd(n))
         /\ \A i \in 1 .. n : next[i] # 0 => next[i] \in 1 .. n /\ next[i] \in {2 * i, 2 * i + 1}
<1>1. DOMAIN next = 1 .. n /\ 0 \notin 1 .. n
  BY DEF Down
<1>2. ASSUME NEW i \in 1 .. n, next[i] # 0
      PROVE  next[i] \in 1 .. n /\ next[i] \in {2 * i, 2 * i + 1}
  <2>1. next[i] = Lesser(h, c, n, i) /\ ~Stays(h, c, n, i, x)
    BY <1>2 DEF Down
  <2>2. 2 * i <= n /\ 2 * i \in Nat
    BY <2>1 DEF Stays
  <2>3. Lesser(h, c, n, i) = 2 * i \/ (Lesser(h, c, n, i) = 2 * i + 1 /\ 2 * i < n)
    BY DEF Lesser
  <2> QED
    BY <2>1, <2>2, <2>3
<1>3. Falls(next, FromEnd(n))
  <2>1. \A j \in 1 .. n : next[j] # 0 => next[j] > j /\ next[j] \in 1 .. n
    BY <1>2
  <2>2. \A j \in 1 .. n : n - j \in Nat
    OBVIOUS
  <2> QED
    BY <1>1, <2>1, <2>2 DEF Falls, FromEnd
<1> QED
  BY <1>1, <1>2, <1>3

LEMMA DownFalls ==
  ASSUME NEW h, NEW c, NEW n \in Nat, NEW x, NEW next, next = Down(h, c, n, x)
  PROVE  DOMAIN next = 1 .. n /\ \E rank : Falls(next, rank)
BY DownIs


\* It sinks to the lesser child, and only where that is less.
LEMMA DownLesser ==
  ASSUME NEW E, NEW h \in Seq(E), NEW c, NEW n \in Nat, n <= Len(h), NEW x \in E, Comparable(c, E),
         NEW i \in 1 .. n, NEW k \in 1 .. n, k = 2 * i \/ k = 2 * i + 1
  PROVE  LET t == Down(h, c, n, x)[i]
         IN IF t = 0 THEN c[x] <= c[h[k]]
            ELSE c[h[t]] < c[x] /\ c[h[t]] <= c[h[k]]
<1> DEFINE t == Down(h, c, n, x)[i]
           l == Lesser(h, c, n, i)
<1>0. \A j \in 1 .. n : h[j] \in E /\ c[h[j]] \in Nat
  BY DEF Comparable
<1>1. t = IF Stays(h, c, n, i, x) THEN 0 ELSE l
  BY DEF Down
<1>2. 2 * i \in 1 .. n /\ (2 * i < n => 2 * i + 1 \in 1 .. n)
  OBVIOUS
<1>3. l \in {2 * i, 2 * i + 1} /\ l \in 1 .. n
  BY <1>2 DEF Lesser
<1>4. c[h[l]] <= c[h[k]]
  <2>1. CASE 2 * i < n
    <3>1. elem_compare(c, h[2 * i], h[2 * i + 1]) = c[h[2 * i]] - c[h[2 * i + 1]]
      BY <1>0, <1>2, <2>1, CompareIs
    <3>2. c[h[2 * i]] \in Nat /\ c[h[2 * i + 1]] \in Nat
      BY <1>0, <1>2, <2>1
    <3> DEFINE a == c[h[2 * i]]
               b == c[h[2 * i + 1]]
    <3>3. l = IF a - b > 0 THEN 2 * i + 1 ELSE 2 * i
      BY <2>1, <3>1 DEF Lesser
    <3>4. (a - b > 0 <=> ~ (a <= b)) /\ (~ (a <= b) => b <= a) /\ a <= a /\ b <= b
      <4>1. a \in Nat /\ b \in Nat
        BY <3>2
      <4> HIDE DEF a, b
      <4> QED
        BY <4>1
    <3>5. (k = 2 * i => c[h[k]] = a) /\ (k = 2 * i + 1 => c[h[k]] = b)
      OBVIOUS
    <3>6. c[h[l]] = IF a <= b THEN a ELSE b
      BY <3>3, <3>4
    <3> QED
      BY <3>4, <3>5, <3>6
  <2>2. CASE ~ (2 * i < n)
    <3>1. k = 2 * i /\ l = 2 * i
      BY <2>2 DEF Lesser
    <3> QED
      BY <1>0, <1>3, <3>1
  <2> QED
    BY <2>1, <2>2
<1>5. elem_compare(c, x, h[l]) = c[x] - c[h[l]] /\ c[x] \in Nat /\ c[h[l]] \in Nat
  BY <1>0, <1>3, CompareIs
<1>6. Stays(h, c, n, i, x) <=> c[x] <= c[h[l]]
  BY <1>2, <1>5 DEF Stays
<1>7. l # 0 /\ c[h[k]] \in Nat
  BY <1>0, <1>3
<1> HIDE DEF l, t
<1>8. IF t = 0 THEN c[x] <= c[h[k]] ELSE c[h[t]] < c[x] /\ c[h[t]] <= c[h[k]]
  <2>1. CASE t = 0
    BY <1>1, <1>4, <1>5, <1>6, <1>7, <2>1
  <2>2. CASE t # 0
    BY <1>1, <1>4, <1>5, <1>6, <1>7, <2>2
  <2> QED
    BY <2>1, <2>2
<1> QED
  BY <1>8 DEF t

\* The parent of a position.
LEMMA Parent ==
  ASSUME NEW k \in Nat, k >= 2
  PROVE  /\ k \div 2 \in Nat /\ 1 <= k \div 2 /\ k \div 2 < k
         /\ k = 2 * (k \div 2) \/ k = 2 * (k \div 2) + 1
         /\ (k \div 2) \div 2 = k \div 4
OBVIOUS

\* The child k of j has the parent j.
LEMMA Child ==
  ASSUME NEW j \in Nat, NEW k \in Nat, k = 2 * j \/ k = 2 * j + 1
  PROVE  k \div 2 = j
OBVIOUS

\* Among the first n entries, none is less than its parent.
InOrder(h, c, n) == \A k \in 2 .. n : c[h[k \div 2]] <= c[h[k]]

\* The same, but for the entry at i, which is about to be replaced by x.
InOrderBut(h, c, n, i, x) ==
  /\ \A k \in 2 .. n : k # i /\ k \div 2 # i => c[h[k \div 2]] <= c[h[k]]
  /\ i > 1 => /\ c[h[i \div 2]] <= c[x]
              /\ \A k \in 2 .. n : k \div 2 = i => c[h[i \div 2]] <= c[h[k]]

\* Sinking from there puts the first n entries in order.
LEMMA SiftOrders ==
  ASSUME NEW E, NEW h \in Seq(E), NEW c, NEW n \in Nat, n <= Len(h), NEW x \in E, Comparable(c, E),
         NEW i \in 1 .. n, InOrderBut(h, c, n, i, x)
  PROVE  InOrder(Moved(h, Down(h, c, n, x), i, x), c, n)
<1> DEFINE next == Down(h, c, n, x)
           W == Visited(next, i)
           m == Moved(h, next, i, x)
<1>0. next = Down(h, c, n, x)
  OBVIOUS
<1> HIDE DEF next
<1>1. /\ DOMAIN next = 1 .. n /\ 0 \notin DOMAIN next
      /\ \A j \in 1 .. n : next[j] # 0 => next[j] \in 1 .. n /\ next[j] \in {2 * j, 2 * j + 1}
  BY <1>0, DownIs
<1>2. Route(next, i, W)
  BY <1>0, <1>1, DownIs, RouteIs
<1>3. \A j \in W : j = i \/ j > i
  <2> DEFINE rank == FromEnd(n)
  <2>0. \A j \in 1 .. n : rank[j] = n - j
    BY DEF FromEnd
  <2> HIDE DEF rank
  <2>1. Falls(next, rank)
    BY <1>0, DownIs DEF rank
  <2>3. \A j \in W : j = i \/ rank[j] < rank[i]
    BY <1>1, <2>1, RouteIs
  <2>2. W \subseteq 1 .. n
    BY <1>1, <1>2 DEF Route
  <2> HIDE DEF W
  <2> QED
    BY <2>0, <2>2, <2>3
<1>4. \A k \in 1 .. n : m[k] = IF k \notin W THEN h[k] ELSE IF next[k] = 0 THEN x ELSE h[next[k]]
  <2>1. 1 .. n \subseteq 1 .. Len(h)
    OBVIOUS
  <2>2. \A k \in 1 .. Len(h) : m[k] = IF k \notin W THEN h[k] ELSE IF next[k] = 0 THEN x ELSE h[next[k]]
    BY <1>1, <1>2, <2>1, MovedIs
  <2> QED
    BY <2>1, <2>2
<1>5. /\ i \in W /\ W \subseteq 1 .. n
      /\ \A k \in W : next[k] # 0 => next[k] \in W
      /\ \A k \in W \ {i} : \E j \in W : next[j] = k
  BY <1>1, <1>2 DEF Route
<1>6. \A j \in 1 .. n : h[j] \in E /\ c[h[j]] \in Nat
  BY DEF Comparable
<1>7. c[x] \in Nat
  BY DEF Comparable
<1>8. ASSUME NEW j \in 1 .. n, NEW k \in 1 .. n, k = 2 * j \/ k = 2 * j + 1
      PROVE  IF next[j] = 0 THEN c[x] <= c[h[k]]
             ELSE c[h[next[j]]] < c[x] /\ c[h[next[j]]] <= c[h[k]]
  BY <1>0, <1>8, DownLesser
<1> HIDE DEF W, m
<1>9. ASSUME NEW k \in 2 .. n PROVE c[m[k \div 2]] <= c[m[k]]
  <2> DEFINE j == k \div 2
  <2>1. j \in 1 .. n /\ (k = 2 * j \/ k = 2 * j + 1) /\ k \in 1 .. n /\ j < k
    BY Parent
  <2> HIDE DEF j
  <2>2. CASE k \notin W /\ j \in W
    <3>1. next[j] = 0 => c[m[j]] <= c[m[k]]
      BY <1>4, <1>8, <2>1, <2>2
    <3>2. next[j] # 0 => c[m[j]] <= c[m[k]]
      BY <1>4, <1>8, <2>1, <2>2
    <3> QED
      BY <3>1, <3>2 DEF j
  <2>3. CASE k \notin W /\ j \notin W
    <3>1. k # i /\ j # i
      BY <1>5, <2>3
    <3>2. c[h[j]] <= c[h[k]]
      BY <3>1 DEF j, InOrderBut
    <3> QED
      BY <1>4, <2>1, <2>3, <3>2 DEF j
  <2>4. CASE k \in W /\ k # i
    <3>1. PICK l \in W : next[l] = k
      BY <1>5, <2>4
    <3>2. l \in 1 .. n /\ (k = 2 * l \/ k = 2 * l + 1)
      BY <1>1, <1>5, <2>1, <3>1
    <3>3. l = j
      BY <2>1, <3>2
    <3>4. m[j] = h[k]
      BY <1>4, <2>1, <3>1, <3>3
    <3>5. c[h[k]] < c[x]
      BY <1>8, <2>1, <3>1, <3>3
    <3>6. CASE next[k] = 0
      BY <1>4, <1>6, <1>7, <2>1, <2>4, <3>4, <3>5, <3>6 DEF j
    <3>7. CASE next[k] # 0
      <4> DEFINE t == next[k]
      <4>1. t \in 1 .. n /\ (t = 2 * k \/ t = 2 * k + 1)
        BY <1>1, <2>1, <3>7
      <4>2. t \div 2 = k /\ t \in 2 .. n /\ t # i
        <5>1. t \div 2 = k
          BY <2>1, <4>1, Child
        <5>2. k > i
          BY <1>3, <2>4
        <5> QED
          BY <2>1, <4>1, <5>1, <5>2
      <4>3. c[h[k]] <= c[h[t]]
        BY <2>4, <4>2 DEF InOrderBut
      <4> QED
        BY <1>4, <2>1, <2>4, <3>4, <3>7, <4>3 DEF j
    <3> QED
      BY <3>6, <3>7
  <2>5. CASE k = i
    <3>1. j \notin W /\ m[j] = h[j] /\ i > 1
      BY <1>3, <1>4, <2>1, <2>5
    <3>2. c[h[j]] <= c[x] /\ \A l \in 2 .. n : l \div 2 = i => c[h[j]] <= c[h[l]]
      BY <2>5, <3>1 DEF InOrderBut, j
    <3>3. CASE next[k] = 0
      BY <1>4, <1>5, <2>1, <2>5, <3>1, <3>2, <3>3 DEF j
    <3>4. CASE next[k] # 0
      <4> DEFINE t == next[k]
      <4>1. t \in 1 .. n /\ (t = 2 * k \/ t = 2 * k + 1)
        BY <1>1, <2>1, <3>4
      <4>2. t \div 2 = i /\ t \in 2 .. n
        BY <2>1, <2>5, <4>1, Child
      <4>3. c[h[j]] <= c[h[t]]
        BY <3>2, <4>2
      <4> QED
        BY <1>4, <1>5, <2>1, <2>5, <3>1, <3>4, <4>3 DEF j
    <3> QED
      BY <3>3, <3>4
  <2> QED
    BY <2>2, <2>3, <2>4, <2>5
<1> QED
  BY <1>0, <1>9 DEF InOrder, m

\* How far a position is from the root.
FromStart(n) == [j \in 1 .. n |-> j]

\* The way up goes from a position to its parent.
LEMMA UpIs ==
  ASSUME NEW h, NEW c, Len(h) \in Nat, NEW next, next = Up(h, c)
  PROVE  /\ DOMAIN next = 1 .. Len(h) /\ 0 \notin DOMAIN next
         /\ Falls(next, FromStart(Len(h)))
         /\ \A i \in 1 .. Len(h) : next[i] # 0 => i >= 2 /\ next[i] = i \div 2
<1>1. DOMAIN next = 1 .. Len(h) /\ 0 \notin DOMAIN next
  BY DEF Up
<1>2. ASSUME NEW i \in 1 .. Len(h), next[i] # 0
      PROVE  i >= 2 /\ next[i] = i \div 2 /\ next[i] \in 1 .. Len(h) /\ next[i] < i
  <2>1. i # 1 /\ next[i] = i \div 2
    BY <1>2 DEF Up
  <2> QED
    BY <2>1, Parent
<1>3. Falls(next, FromStart(Len(h)))
  <2> DEFINE rank == FromStart(Len(h))
  <2>1. rank \in [DOMAIN next -> Nat] /\ \A j \in 1 .. Len(h) : rank[j] = j
    BY <1>1 DEF FromStart
  <2> HIDE DEF rank
  <2>2. \A j \in 1 .. Len(h) : next[j] # 0 => rank[next[j]] < rank[j] /\ next[j] \in 1 .. Len(h)
    BY <1>2, <2>1
  <2> QED
    BY <1>1, <2>1, <2>2 DEF Falls, rank
<1> QED
  BY <1>1, <1>2, <1>3

\* In a heap in order a new entry rises one level at most, so that the heap is in
\* order again if and only if it is not less than its grandparent.
LEMMA RiseOrders ==
  ASSUME NEW E, NEW a \in Seq(E), NEW c, Comparable(c, E),
         NEW n \in Nat, n = Len(a), n >= 1, InOrder(a, c, n - 1), NEW x \in E, x = a[n]
  PROVE  InOrder(Moved(a, Up(a, c), n, x), c, n)
           <=> (n \div 4 > 0 => c[a[n \div 4]] <= c[x])
<1> DEFINE next == Up(a, c)
           W == Visited(next, n)
           m == Moved(a, next, n, x)
           f == n \div 2
           g == n \div 4
<1>0. next = Up(a, c)
  OBVIOUS
<1>1. /\ n \in Nat /\ n >= 1 /\ Len(a) = n /\ a[n] = x
      /\ \A k \in 1 .. n : a[k] \in E
  OBVIOUS
<1>2. next = [i \in 1 .. n |-> IF i = 1 \/ elem_compare(c, a[i \div 2], a[i]) <= 0 THEN 0 ELSE i \div 2]
  BY <1>1 DEF Up
<1> HIDE DEF next
<1>3. /\ DOMAIN next = 1 .. n /\ 0 \notin DOMAIN next
      /\ Falls(next, FromStart(n))
      /\ \A i \in 1 .. n : next[i] # 0 => i >= 2 /\ next[i] = i \div 2
  <2>1. /\ DOMAIN next = 1 .. Len(a) /\ 0 \notin DOMAIN next
        /\ Falls(next, FromStart(Len(a)))
        /\ \A i \in 1 .. Len(a) : next[i] # 0 => i >= 2 /\ next[i] = i \div 2
    <3>1. Len(a) \in Nat
      BY <1>1
    <3> QED
      BY <1>0, <3>1, UpIs
  <2> QED
    BY <1>1, <2>1
<1>4. Route(next, n, W)
  BY <1>1, <1>3, RouteIs
<1>5. \A k \in 1 .. n : m[k] = IF k \notin W THEN a[k] ELSE IF next[k] = 0 THEN x ELSE a[next[k]]
  <2>1. DOMAIN next \subseteq 1 .. Len(a) /\ n \in DOMAIN next
    BY <1>1, <1>3
  <2>2. \A k \in 1 .. Len(a) : m[k] = IF k \notin W THEN a[k] ELSE IF next[k] = 0 THEN x ELSE a[next[k]]
    BY <1>1, <1>4, <2>1, MovedIs
  <2> QED
    BY <1>1, <2>2
<1>6. \A i \in 1 .. n : next[i] # 0 => next[i] \in DOMAIN next
  BY <1>3, Parent
<1>7. W = {n} \cup IF next[n] = 0 THEN {} ELSE Visited(next, next[n])
  <2>1. \A j \in DOMAIN next : next[j] # 0 => next[j] \in DOMAIN next
    BY <1>3, <1>6
  <2>2. n \in DOMAIN next
    BY <1>1, <1>3
  <2> QED
    BY <2>1, <2>2, VisitedIs
<1>8. \A k \in 1 .. n : c[a[k]] \in Nat
  BY <1>1 DEF Comparable
<1>9. \A k \in 2 .. n - 1 : c[a[k \div 2]] <= c[a[k]]
  BY DEF InOrder
<1> HIDE DEF W, m
<1>10. CASE n = 1
  <2>1. g = 0
    BY <1>10
  <2>2. InOrder(m, c, n)
    BY <1>10 DEF InOrder
  <2> QED
    BY <2>1, <2>2 DEF m, next
<1>11. CASE n >= 2
  <2>1. /\ f \in Nat /\ f \in 1 .. n - 1 /\ (n = 2 * f \/ n = 2 * f + 1) /\ g = f \div 2
        /\ g \in Nat /\ (g > 0 <=> f >= 2)
    BY <1>1, <1>11, Parent
  <2> HIDE DEF f, g
  <2>2. c[x] \in Nat /\ c[a[f]] \in Nat /\ elem_compare(c, a[f], x) = c[a[f]] - c[x]
    BY <1>1, <2>1, CompareIs
  <2>3. next[n] = IF c[a[f]] <= c[x] THEN 0 ELSE f
    <3>1. n \in 1 .. Len(a) /\ n # 1 /\ n \div 2 = f
      BY <1>1, <1>11 DEF f
    <3>2. next[n] = IF elem_compare(c, a[f], x) <= 0 THEN 0 ELSE f
      BY <1>1, <1>2, <3>1
    <3>3. elem_compare(c, a[f], x) <= 0 <=> c[a[f]] <= c[x]
      BY <2>2
    <3> QED
      BY <3>2, <3>3
  <2>4. g > 0 => g \in 1 .. n - 1 /\ c[a[g]] <= c[a[f]] /\ c[a[g]] \in Nat
    <3>1. SUFFICES ASSUME g > 0 PROVE g \in 1 .. n - 1 /\ c[a[g]] <= c[a[f]] /\ c[a[g]] \in Nat
      OBVIOUS
    <3>2. f \in 2 .. n - 1 /\ g < f /\ g \in 1 .. n
      BY <2>1, <3>1, Parent
    <3> QED
      BY <1>1, <1>8, <1>9, <2>1, <3>2
  <2>5. CASE c[a[f]] <= c[x]
    <3>1. \A k \in 1 .. n : m[k] = a[k]
      BY <1>1, <1>5, <1>7, <2>1, <2>3, <2>5
    <3>2. ASSUME NEW k \in 2 .. n PROVE c[m[k \div 2]] <= c[m[k]]
      <4>1. k \div 2 \in 1 .. n
        BY Parent
      <4>2. CASE k = n
        BY <1>1, <2>1, <2>5, <3>1, <4>1, <4>2 DEF f
      <4>3. CASE k # n
        <5>1. k \in 2 .. n - 1 /\ k \in 1 .. n
          BY <1>1, <4>3
        <5>2. m[k] = a[k] /\ m[k \div 2] = a[k \div 2]
          BY <3>1, <4>1, <5>1
        <5> QED
          BY <1>9, <5>1, <5>2
      <4> QED
        BY <4>2, <4>3
    <3>3. ASSUME g > 0 PROVE c[a[g]] <= c[x]
      <4>1. c[a[g]] <= c[a[f]] /\ c[a[g]] \in Nat
        BY <2>4, <3>3
      <4> QED
        BY <2>2, <2>5, <4>1
    <3> QED
      BY <1>0, <3>2, <3>3 DEF InOrder, m, g
  <2>6. CASE ~ (c[a[f]] <= c[x])
    <3>1. next[n] = f /\ f \in 1 .. n
      BY <2>1, <2>3, <2>6
    <3>2. next[f] = 0
      <4>1. CASE f = 1
        BY <1>2, <2>1, <4>1
      <4>2. CASE f >= 2
        <5>1. g \in 1 .. n - 1 /\ c[a[g]] <= c[a[f]] /\ a[g] \in E /\ a[f] \in E
          BY <1>1, <2>1, <2>4, <4>2
        <5>2. elem_compare(c, a[g], a[f]) <= 0
          BY <5>1, CompareIs
        <5> QED
          BY <1>2, <2>1, <3>1, <5>2
      <4> QED
        BY <2>1, <4>1, <4>2
    <3>3. W = {n, f} /\ n # f
      <4>1. Visited(next, f) = {f}
        BY <1>3, <1>6, <3>1, <3>2, VisitedIs
      <4> QED
        BY <1>7, <2>1, <3>1, <4>1
    <3>4. m[n] = a[f] /\ m[f] = x /\ \A k \in 1 .. n : k # n /\ k # f => m[k] = a[k]
      BY <1>1, <1>5, <2>1, <3>1, <3>2, <3>3
    <3>5. ASSUME NEW k \in 2 .. n, k # f PROVE c[m[k \div 2]] <= c[m[k]]
      <4>1. k \div 2 \in 1 .. n /\ k \div 2 < k /\ k \in 1 .. n
        BY Parent
      <4>2. CASE k = n
        BY <2>2, <2>6, <3>4, <4>2 DEF f
      <4>3. CASE k # n /\ k \div 2 = f
        <5>1. c[a[f]] <= c[a[k]] /\ c[a[k]] \in Nat
          BY <1>8, <1>9, <4>1, <4>3
        <5> QED
          BY <2>2, <2>6, <3>4, <3>5, <4>1, <4>3, <5>1
      <4>4. CASE k # n /\ k \div 2 # f
        <5>1. k \div 2 # n /\ k \in 2 .. n - 1
          BY <1>1, <4>1, <4>4
        <5> QED
          BY <1>9, <3>4, <3>5, <4>1, <4>4, <5>1
      <4> QED
        BY <4>2, <4>3, <4>4
    <3>6. f >= 2 => (c[m[f \div 2]] <= c[m[f]] <=> c[a[g]] <= c[x])
      <4>1. f >= 2 => g \in 1 .. n - 1 /\ g # f /\ g # n
        BY <1>1, <2>1, Parent
      <4> QED
        BY <1>1, <2>1, <2>4, <3>4, <4>1
    <3>7. InOrder(m, c, n) <=> (f >= 2 => c[m[f \div 2]] <= c[m[f]])
      <4>1. InOrder(m, c, n) => (f >= 2 => c[m[f \div 2]] <= c[m[f]])
        <5>1. f >= 2 => f \in 2 .. n
          BY <1>1, <2>1
        <5> QED
          BY <5>1 DEF InOrder
      <4>2. f \in 2 .. n => f >= 2
        BY <1>1, <2>1
      <4>3. (f >= 2 => c[m[f \div 2]] <= c[m[f]]) => InOrder(m, c, n)
        BY <3>5, <4>2 DEF InOrder
      <4> QED
        BY <4>1, <4>3
    <3> QED
      BY <1>0, <2>1, <3>6, <3>7 DEF m, g
  <2> QED
    BY <2>5, <2>6
<1> QED
  BY <1>1, <1>10, <1>11

-----------------------------------------------------------------------------
(* Sorting.                                                                *)

\* The root of a heap in order is the least.
LEMMA RootLeast ==
  ASSUME NEW h, NEW c, NEW n \in Nat, InOrder(h, c, n), \A k \in 1 .. n : c[h[k]] \in Nat,
         NEW k \in 1 .. n
  PROVE  c[h[1]] <= c[h[k]]
<1> DEFINE Bad == {l \in 1 .. n : ~ (c[h[1]] <= c[h[l]])}
<1>1. SUFFICES ASSUME Bad # {} PROVE FALSE
  OBVIOUS
<1>2. Bad \in SUBSET Nat
  OBVIOUS
<1>3. PICK l \in Bad : \A j \in Bad : l <= j
  BY <1>1, <1>2, LeastIs
<1>4. l # 1 /\ l \in 2 .. n
  OBVIOUS
<1>5. l \div 2 \in 1 .. n /\ l \div 2 < l
  BY <1>4, Parent
<1>6. c[h[1]] <= c[h[l \div 2]]
  BY <1>3, <1>5
<1>7. c[h[l \div 2]] <= c[h[l]]
  BY <1>4 DEF InOrder
<1> QED
  BY <1>4, <1>5, <1>6, <1>7



\* Exchanging two entries keeps all.
LEMMA Exchanged ==
  ASSUME NEW E, NEW h \in Seq(E), NEW i \in 1 .. Len(h), NEW j \in 1 .. Len(h),
         NEW t \in Seq(E), Len(t) = Len(h), t[i] = h[j], t[j] = h[i],
         \A k \in 1 .. Len(h) : k # i /\ k # j => t[k] = h[k]
  PROVE  ToSet(t) = ToSet(h) /\ (IsInjective(h) => IsInjective(t))
<1>1. /\ t \in Seq(E) /\ Len(t) = Len(h)
      /\ t[i] = h[j] /\ t[j] = h[i] /\ \A k \in 1 .. Len(h) : k # i /\ k # j => t[k] = h[k]
  OBVIOUS
<1>2. DOMAIN t = 1 .. Len(h) /\ DOMAIN h = 1 .. Len(h)
  BY <1>1
<1>4. ToSet(t) = ToSet(h)
  <2>1. \A k \in 1 .. Len(h) : \E l \in 1 .. Len(h) : t[k] = h[l]
    BY <1>1
  <2>2. \A k \in 1 .. Len(h) : \E l \in 1 .. Len(h) : h[k] = t[l]
    BY <1>1
  <2> QED
    <3>1. \A v : v \in ToSet(t) <=> \E k \in 1 .. Len(h) : v = t[k]
      BY <1>2 DEF ToSet
    <3>2. \A v : v \in ToSet(h) <=> \E k \in 1 .. Len(h) : v = h[k]
      BY <1>2 DEF ToSet
    <3>3. ASSUME NEW v \in ToSet(t) PROVE v \in ToSet(h)
      <4>1. PICK k \in 1 .. Len(h) : v = t[k]
        BY <3>1
      <4> QED
        BY <2>1, <3>2, <4>1
    <3>4. ASSUME NEW v \in ToSet(h) PROVE v \in ToSet(t)
      <4>1. PICK k \in 1 .. Len(h) : v = h[k]
        BY <3>2
      <4> QED
        BY <2>2, <3>1, <4>1
    <3> QED
      BY <3>3, <3>4
<1>5. ASSUME IsInjective(h) PROVE IsInjective(t)
  <2>1. \A k, l \in 1 .. Len(h) : h[k] = h[l] => k = l
    BY <1>2, <1>5 DEF IsInjective
  <2>2. \A k, l \in 1 .. Len(h) : t[k] = t[l] => k = l
    BY <1>1, <2>1
  <2> QED
    BY <1>2, <2>2 DEF IsInjective
<1> QED
  BY <1>1, <1>4, <1>5

\* A round of the sort moves the first entry behind the others and keeps all.
LEMMA RoundIs ==
  ASSUME NEW E, NEW h \in Seq(E), IsInjective(h), NEW c, NEW len \in 1 .. Len(h),
         NEW s, s = Round(h, c, len)
  PROVE  /\ s \in Seq(E) /\ Len(s) = Len(h) /\ ToSet(s) = ToSet(h) /\ IsInjective(s)
         /\ s[len] = h[1]
         /\ \A k \in 1 .. Len(h) : k > len => s[k] = h[k]
         /\ \A k \in 1 .. len : \E l \in 1 .. len : s[k] = h[l]
         /\ Comparable(c, E) /\ InOrder(h, c, len) => InOrder(s, c, len - 1)
<1> DEFINE t == [h EXCEPT ![1] = h[len], ![len] = h[1]]
           n == len - 1
           x == t[1]
           next == Down(t, c, n, x)
           m == Moved(t, next, 1, x)
<1>0. Len(h) \in Nat /\ len \in Nat /\ n \in Nat /\ 1 \in 1 .. Len(h)
  OBVIOUS
<1>2. s = IF len <= 2 THEN t ELSE m
  BY DEF Round
<1>5. /\ t \in Seq(E) /\ Len(t) = Len(h)
      /\ t[1] = h[len] /\ t[len] = h[1]
      /\ \A k \in 1 .. Len(h) : k # 1 /\ k # len => t[k] = h[k]
  BY <1>0
<1> HIDE DEF t
<1>1. /\ t \in Seq(E) /\ Len(t) = Len(h) /\ ToSet(t) = ToSet(h) /\ IsInjective(t)
      /\ t[1] = h[len] /\ t[len] = h[1]
      /\ \A k \in 1 .. Len(h) : k # 1 /\ k # len => t[k] = h[k]
  BY <1>0, <1>5, Exchanged
<1>3. CASE len <= 2
  <2>1. s = t
    BY <1>2, <1>3
  <2>2. \A k \in 1 .. len : \E l \in 1 .. len : s[k] = h[l]
    BY <1>0, <1>1, <1>3, <2>1
  <2>3. InOrder(s, c, n)
    <3>1. 2 .. n = {}
      BY <1>0, <1>3
    <3> QED
      BY <3>1 DEF InOrder
  <2> QED
    BY <1>1, <2>1, <2>2, <2>3
<1>4. CASE len > 2
  <2>0. 1 \in 1 .. n /\ n <= Len(h) /\ x \in E
    BY <1>0, <1>1, <1>4
  <2>1. next = Down(t, c, n, x)
    OBVIOUS
  <2> HIDE DEF next
  <2>2. /\ DOMAIN next = 1 .. n /\ 0 \notin DOMAIN next
        /\ Falls(next, FromEnd(n))
        /\ \A i \in 1 .. n : next[i] # 0 => next[i] \in 1 .. n /\ next[i] \in {2 * i, 2 * i + 1}
    BY <1>0, <2>1, DownIs
  <2>3. Route(next, 1, Visited(next, 1))
    BY <2>0, <2>2, RouteIs
  <2>4. DOMAIN next \subseteq 1 .. Len(t) /\ 1 \in DOMAIN next
    BY <1>0, <1>1, <2>0, <2>2
  <2>5. /\ m \in Seq(E) /\ Len(m) = Len(t)
        /\ \A k \in 1 .. Len(t) : m[k] = IF k \notin Visited(next, 1) THEN t[k]
                                         ELSE IF next[k] = 0 THEN x ELSE t[next[k]]
    BY <1>1, <2>0, <2>3, <2>4, MovedIs
  <2>6. Visited(next, 1) \subseteq 1 .. n
    BY <2>2, <2>3 DEF Route
  <2>7. \A j, k \in 1 .. Len(t) : t[j] = t[k] => j = k
    BY <1>1 DEF IsInjective
  <2>8. /\ IsInjective(m)
        /\ Replaced(t, 1, x, m)
    <3>1. OnceBut(t, 1, x)
      BY <1>0, <1>1, <2>7 DEF OnceBut
    <3> HIDE DEF x
    <3> QED
      BY <1>1, <2>0, <2>2, <2>3, <2>4, <3>1, MovedOnce
  <2>9. ToSet(m) = ToSet(h)
    <3>1. \A v : v \in ToSet(t) <=> \E j \in 1 .. Len(t) : v = t[j]
      BY <1>1 DEF ToSet
    <3>2. 1 \in 1 .. Len(t)
      BY <1>0, <1>1
    <3>3. \A v : v \in ToSet(m) <=> v \in ToSet(t)
      BY <2>8, <3>1, <3>2 DEF Replaced
    <3>4. ToSet(m) = ToSet(t)
      BY <3>3
    <3> QED
      BY <1>1, <3>4
  <2> HIDE DEF m
  <2>10. s = m
    BY <1>2, <1>4
  <2>11. \A k \in 1 .. Len(h) : k >= len => s[k] = t[k]
    BY <1>0, <1>1, <2>5, <2>6, <2>10
  <2>12. s[len] = h[1] /\ \A k \in 1 .. Len(h) : k > len => s[k] = h[k]
    BY <1>0, <1>1, <1>4, <2>11
  <2>13. ASSUME NEW k \in 1 .. len PROVE \E l \in 1 .. len : s[k] = h[l]
    <3>1. k \in 1 .. Len(t) /\ len \in 1 .. len /\ 1 \in 1 .. len
      BY <1>0, <1>1
    <3>2. \E j \in 1 .. len : s[k] = t[j]
      <4>1. CASE k \notin Visited(next, 1)
        BY <2>5, <2>10, <3>1, <4>1
      <4>2. CASE k \in Visited(next, 1) /\ next[k] = 0
        BY <2>5, <2>10, <3>1, <4>2
      <4>3. CASE k \in Visited(next, 1) /\ next[k] # 0
        <5>1. next[k] \in 1 .. len
          BY <1>0, <2>2, <2>6, <4>3
        <5> QED
          BY <2>5, <2>10, <3>1, <4>3, <5>1
      <4> QED
        BY <4>1, <4>2, <4>3
    <3>3. \A j \in 1 .. len : \E l \in 1 .. len : t[j] = h[l]
      BY <1>0, <1>1, <3>1
    <3> QED
      BY <3>2, <3>3
  <2>14. ASSUME Comparable(c, E), InOrder(h, c, len) PROVE InOrder(s, c, n)
    <3>1. ASSUME NEW k \in 2 .. n, k \div 2 # 1 PROVE c[t[k \div 2]] <= c[t[k]]
      <4>1. k \in 1 .. Len(h) /\ k # 1 /\ k # len /\ k \in 2 .. len
        BY <1>0
      <4>2. k \div 2 \in 1 .. Len(h) /\ k \div 2 # len
        BY <1>0, <4>1, Parent
      <4>3. t[k] = h[k] /\ t[k \div 2] = h[k \div 2]
        BY <1>1, <3>1, <4>1, <4>2
      <4> QED
        BY <2>14, <4>1, <4>3 DEF InOrder
    <3>2. InOrderBut(t, c, n, 1, x)
      BY <3>1 DEF InOrderBut
    <3>3. InOrder(Moved(t, Down(t, c, n, x), 1, x), c, n)
      BY <1>0, <1>1, <2>0, <2>14, <3>2, SiftOrders
    <3> QED
      BY <2>1, <2>10, <3>3 DEF m
  <2> QED
    BY <1>1, <2>5, <2>8, <2>9, <2>10, <2>12, <2>13, <2>14
<1> QED
  BY <1>0, <1>3, <1>4

\* What holds after k rounds: the first entries are a heap, and none of them is
\* less than one of those behind, which descend.
Sorting(E, h, c, k, s) ==
  LET len == Len(h) - k
  IN /\ Len(s) = Len(h) /\ ToSet(s) = ToSet(h) /\ IsInjective(s)
     /\ Comparable(c, E) /\ InOrder(h, c, Len(h)) =>
          /\ InOrder(s, c, len)
          /\ \A i, j \in 1 .. Len(h) : i < j /\ j > len => c[s[j]] <= c[s[i]]

LEMMA SortingNext ==
  ASSUME NEW E, NEW h \in Seq(E), NEW c,
         NEW k \in Nat, k < Len(h), NEW s \in Seq(E), Sorting(E, h, c, k, s),
         NEW u, u = Round(s, c, Len(h) - k)
  PROVE  u \in Seq(E) /\ Sorting(E, h, c, k + 1, u)
<1> DEFINE len == Len(h) - k
<1>1. /\ Len(h) \in Nat /\ len \in 1 .. Len(h) /\ Len(s) = Len(h)
      /\ ToSet(s) = ToSet(h) /\ IsInjective(s) /\ Len(h) - (k + 1) = len - 1
  BY DEF Sorting
<1>2. u = Round(s, c, len)
  OBVIOUS
<1>3. Comparable(c, E) /\ InOrder(h, c, Len(h)) =>
        /\ InOrder(s, c, len)
        /\ \A i, j \in 1 .. Len(h) : i < j /\ j > len => c[s[j]] <= c[s[i]]
  BY DEF Sorting
<1> HIDE DEF len
<1>4. /\ u \in Seq(E) /\ Len(u) = Len(s) /\ ToSet(u) = ToSet(s) /\ IsInjective(u)
      /\ u[len] = s[1]
      /\ \A j \in 1 .. Len(s) : j > len => u[j] = s[j]
      /\ \A j \in 1 .. len : \E l \in 1 .. len : u[j] = s[l]
      /\ Comparable(c, E) /\ InOrder(s, c, len) => InOrder(u, c, len - 1)
  BY <1>1, <1>2, RoundIs
<1>5. ASSUME Comparable(c, E), InOrder(h, c, Len(h)), NEW i \in 1 .. Len(h), NEW j \in 1 .. Len(h), i < j, j > len - 1
      PROVE  c[u[j]] <= c[u[i]]
  <2>1. \A l \in 1 .. Len(h) : s[l] \in E /\ c[s[l]] \in Nat
    BY <1>1, <1>5 DEF Comparable
  <2>2. CASE j = len
    <3>1. PICK l \in 1 .. len : u[i] = s[l]
      BY <1>1, <1>4, <1>5, <2>2
    <3>2. c[s[1]] <= c[s[l]]
      <4>1. len \in Nat /\ InOrder(s, c, len) /\ \A o \in 1 .. len : c[s[o]] \in Nat
        BY <1>1, <1>3, <1>5, <2>1
      <4> QED
        BY <4>1, RootLeast
    <3> QED
      BY <1>4, <2>2, <3>1, <3>2
  <2>3. CASE j > len /\ i > len
    BY <1>1, <1>3, <1>4, <1>5, <2>3
  <2>4. CASE j > len /\ i <= len
    <3>1. PICK l \in 1 .. len : u[i] = s[l]
      BY <1>1, <1>4, <2>4
    <3>2. l \in 1 .. Len(h) /\ l < j
      BY <1>1, <2>4
    <3>3. c[s[j]] <= c[s[l]]
      BY <1>3, <1>5, <2>4, <3>2
    <3>4. u[j] = s[j]
      BY <1>1, <1>4, <2>4
    <3> QED
      BY <3>1, <3>3, <3>4
  <2> QED
    BY <1>1, <1>5, <2>2, <2>3, <2>4
<1>6. Comparable(c, E) /\ InOrder(h, c, Len(h)) => InOrder(u, c, len - 1)
  BY <1>3, <1>4
<1> QED
  BY <1>1, <1>4, <1>5, <1>6 DEF Sorting

\* heap_sort keeps all entries, and puts a heap in order into descending order.
LEMMA SortIs ==
  ASSUME NEW E, NEW p, p.h \in Seq(E), IsInjective(p.h), NEW c,
         NEW s, s = heap_sort(p, c)
  PROVE  /\ s \in Seq(E) /\ Len(s) = Len(p.h) /\ ToSet(s) = ToSet(p.h) /\ IsInjective(s)
         /\ Comparable(c, E) /\ InOrder(p.h, c, Len(p.h)) =>
              \A i, j \in 1 .. Len(p.h) : i < j => c[s[j]] <= c[s[i]]
<1> DEFINE h == p.h
           n == Len(h)
           Step(f, k) == IF k = 0 THEN h ELSE Round(f[k - 1], c, n - k + 1)
           Solves(f, m) == f = [k \in 0 .. m |-> Step(f, k)]
           after == CHOOSE f : Solves(f, n)
<1>0. n \in Nat /\ h \in Seq(E) /\ IsInjective(h)
  OBVIOUS
<1>1. s = after[n]
  BY DEF heap_sort
<1> HIDE DEF h, n
<1>2. \A m \in Nat : \E f : Solves(f, m)
  <2> DEFINE Bad == {m \in Nat : ~ \E f : Solves(f, m)}
  <2>1. SUFFICES ASSUME Bad # {} PROVE FALSE
    OBVIOUS
  <2>5. Bad \in SUBSET Nat /\ \A m \in Nat : m \notin Bad => \E f : Solves(f, m)
    OBVIOUS
  <2>6. \A m \in Bad : ~ \E f : Solves(f, m)
    OBVIOUS
  <2> HIDE DEF Bad
  <2>2. PICK m \in Bad : \A l \in Bad : m <= l
    BY <2>1, <2>5, LeastIs
  <2>3. CASE m = 0
    <3> DEFINE f == [k \in 0 .. 0 |-> h]
    <3>1. Solves(f, 0)
      OBVIOUS
    <3> QED
      BY <2>2, <2>3, <2>6, <3>1
  <2>4. CASE m # 0
    <3>1. m - 1 \in Nat /\ m - 1 \notin Bad /\ m \in Nat
      BY <2>2, <2>4, <2>5
    <3>2. PICK g : Solves(g, m - 1)
      BY <2>5, <3>1
    <3> DEFINE f == [k \in 0 .. m |-> IF k = m THEN Step(g, m) ELSE g[k]]
    <3>3. ASSUME NEW k \in 0 .. m PROVE f[k] = Step(f, k)
      <4>1. CASE k = 0
        <5>1. 0 \in 0 .. m - 1 /\ g[0] = Step(g, 0) /\ f[0] = g[0]
          BY <2>4, <3>1, <3>2
        <5> QED
          BY <4>1, <5>1
      <4>2. CASE k # 0 /\ k = m
        <5>1. f[k - 1] = g[k - 1]
          BY <3>1, <4>2
        <5> QED
          BY <3>1, <4>2, <5>1
      <4>3. CASE k # 0 /\ k # m
        <5>1. k \in 0 .. m - 1 /\ k - 1 \in 0 .. m /\ k - 1 # m
          BY <3>1, <4>3
        <5>2. g[k] = Step(g, k)
          BY <3>2, <5>1
        <5>3. f[k - 1] = g[k - 1] /\ f[k] = g[k]
          BY <4>3, <5>1
        <5> QED
          BY <4>3, <5>2, <5>3
      <4> QED
        BY <4>1, <4>2, <4>3
    <3>4. Solves(f, m)
      BY <3>3
    <3> QED
      BY <2>2, <2>6, <3>4
  <2> QED
    BY <2>3, <2>4
<1>3. Solves(after, n)
  BY <1>0, <1>2
<1> HIDE DEF after
<1>4. \A k \in 0 .. n : after[k] = Step(after, k)
  BY <1>3
<1>5. \A k \in 0 .. n : after[k] \in Seq(E) /\ Sorting(E, h, c, k, after[k])
  <2> DEFINE Bad == {k \in 0 .. n : ~ (after[k] \in Seq(E) /\ Sorting(E, h, c, k, after[k]))}
  <2>1. SUFFICES ASSUME Bad # {} PROVE FALSE
    OBVIOUS
  <2>5. Bad \in SUBSET Nat /\ Bad \subseteq 0 .. n
    BY <1>0
  <2>6. \A k \in 0 .. n : k \in Bad <=> ~ (after[k] \in Seq(E) /\ Sorting(E, h, c, k, after[k]))
    OBVIOUS
  <2> HIDE DEF Bad
  <2>2. PICK k \in Bad : \A l \in Bad : k <= l
    BY <2>1, <2>5, LeastIs
  <2>3. CASE k = 0
    <3>1. after[0] = h
      BY <1>0, <1>4
    <3>2. Sorting(E, h, c, 0, h)
      <4>1. Len(h) - 0 = n /\ ~ \E j \in 1 .. n : j > n
        BY <1>0 DEF n
      <4> QED
        BY <1>0, <4>1 DEF Sorting, n
    <3> QED
      BY <1>0, <2>2, <2>3, <2>5, <2>6, <3>1, <3>2
  <2>4. CASE k # 0
    <3>1. /\ k \in 0 .. n /\ k - 1 \in 0 .. n /\ k - 1 \in Nat /\ k - 1 < n /\ k - 1 \notin Bad
          /\ n - k + 1 = n - (k - 1) /\ (k - 1) + 1 = k
      BY <1>0, <2>2, <2>4, <2>5
    <3>2. after[k] = Round(after[k - 1], c, n - (k - 1))
      BY <1>4, <2>4, <3>1
    <3>3. after[k - 1] \in Seq(E) /\ Sorting(E, h, c, k - 1, after[k - 1])
      BY <2>6, <3>1
    <3> DEFINE q == k - 1
    <3>4. q \in Nat /\ q < n /\ after[q] \in Seq(E) /\ Sorting(E, h, c, q, after[q])
          /\ after[k] = Round(after[q], c, n - q) /\ q + 1 = k
      BY <3>1, <3>2, <3>3
    <3> HIDE DEF q
    <3>5. after[k] \in Seq(E) /\ Sorting(E, h, c, q + 1, after[k])
      BY <1>0, <3>4, SortingNext DEF n
    <3> QED
      BY <2>2, <2>5, <2>6, <3>4, <3>5
  <2> QED
    BY <2>3, <2>4
<1>6. s \in Seq(E) /\ Sorting(E, h, c, n, s)
  BY <1>0, <1>1, <1>5
<1>7. \A j \in 1 .. n : j > Len(h) - n
  BY <1>0 DEF n
<1>8. /\ Len(s) = n /\ ToSet(s) = ToSet(h) /\ IsInjective(s)
      /\ Comparable(c, E) /\ InOrder(h, c, n) => \A i, j \in 1 .. n : i < j => c[s[j]] <= c[s[i]]
  BY <1>6, <1>7 DEF Sorting, n
<1> QED
  BY <1>6, <1>8 DEF n, h

-----------------------------------------------------------------------------
(* The calls, on any heap.                                                 *)

\* Every heap_index is the place of its element, but for the place i.
ExactBut(p, i) == \A k \in 1 .. Len(p.h) : k # i => p.idx[p.h[k]] = k
Exact(p) == \A k \in 1 .. Len(p.h) : p.idx[p.h[k]] = k

\* A heap of elements of E.
Heaps(E) == [h : Seq(E), idx : [E -> Nat]]

\* q has as many entries as p, all of them from p or x, and a heap_index that
\* changes becomes a place of the heap.
Bounded(p, x, q) ==
  /\ Len(q.h) = Len(p.h)
  /\ \A k \in 1 .. Len(q.h) : q.h[k] = x \/ \E j \in 1 .. Len(p.h) : q.h[k] = p.h[j]
  /\ \A e \in DOMAIN p.idx : q.idx[e] = p.idx[e] \/ q.idx[e] \in 1 .. Len(p.h)

\* No loop leaves the heap, whatever is in it.
LEMMA LoopBounds ==
  ASSUME NEW E, NEW p \in Heaps(E), NEW x \in E, NEW next, NEW rank, Falls(next, rank),
         DOMAIN next \subseteq 1 .. Len(p.h), NEW i \in DOMAIN next,
         NEW q, q = Loop(p, next, i, x)
  PROVE  q \in Heaps(E) /\ Bounded(p, x, q)
<1> DEFINE W == Visited(next, i)
<1>9. p.h \in Seq(E) /\ p.idx \in [E -> Nat] /\ i \in DOMAIN next
  BY DEF Heaps
<1>1. 0 \notin DOMAIN next
  OBVIOUS
<1>2. Route(next, i, W)
  BY <1>1, RouteIs
<1>3. q.h = Moved(p.h, next, i, x) /\ q.idx = Indexed(p, next, i, x)
  BY DEF Loop
<1>4. /\ q.h \in Seq(E) /\ Len(q.h) = Len(p.h)
      /\ \A k \in 1 .. Len(p.h) : q.h[k] = IF k \notin W THEN p.h[k]
                                           ELSE IF next[k] = 0 THEN x ELSE p.h[next[k]]
  <2>1. q.h \in Seq(E)
    BY <1>2, <1>3, <1>9, MovedIs
  <2>2. Len(q.h) = Len(p.h)
    BY <1>2, <1>3, <1>9, MovedIs
  <2> DEFINE m == Moved(p.h, next, i, x)
  <2>3. \A k \in 1 .. Len(p.h) :
          m[k] = IF k \notin W THEN p.h[k] ELSE IF next[k] = 0 THEN x ELSE p.h[next[k]]
    <3>1. Shifted(p.h, next, i, x, m)
      BY <1>2, <1>9, MovedAt
    <3> QED
      BY <3>1 DEF Shifted
  <2> HIDE DEF W
  <2> QED
    BY <1>3, <2>1, <2>2, <2>3
<1>5. W \subseteq 1 .. Len(p.h) /\ \A k \in W : next[k] # 0 => next[k] \in W
  BY <1>2 DEF Route
<1>6. q.idx = [e \in E |-> q.idx[e]]
  BY <1>3, <1>9 DEF Indexed
<1>7. ASSUME NEW e \in DOMAIN p.idx PROVE q.idx[e] = p.idx[e] \/ q.idx[e] \in W
  <2>1. Noted(W, Puts(p.h, next, i, x), e, p.idx[e], q.idx[e])
    BY <1>1, <1>3, IndexedIs
  <2> QED
    BY <2>1 DEF Noted
<1> HIDE DEF W
<1>8. ASSUME NEW k \in 1 .. Len(q.h)
      PROVE  q.h[k] = x \/ \E j \in 1 .. Len(p.h) : q.h[k] = p.h[j]
  BY <1>4, <1>5
<1>10. q = [h |-> q.h, idx |-> q.idx]
  BY DEF Loop
<1>11. q.idx \in [E -> Nat]
  <2>1. \A e \in E : p.idx[e] \in Nat /\ (q.idx[e] = p.idx[e] \/ q.idx[e] \in 1 .. Len(p.h))
    BY <1>5, <1>7, <1>9
  <2>2. \A e \in E : q.idx[e] \in Nat
    BY <2>1
  <2> QED
    BY <1>6, <2>2
<1>12. q \in Heaps(E)
  BY <1>4, <1>10, <1>11 DEF Heaps
<1> QED
  BY <1>4, <1>5, <1>7, <1>8, <1>12 DEF Bounded

\* A loop that puts x for the entry at i leaves every heap_index right that was.
LEMMA LoopIs ==
  ASSUME NEW E, NEW p \in Heaps(E), NEW x \in E,
         NEW next, NEW rank, Falls(next, rank),
         DOMAIN next \subseteq 1 .. Len(p.h), NEW i \in DOMAIN next, OnceBut(p.h, i, x),
         NEW q, q = Loop(p, next, i, x)
  PROVE  /\ q \in Heaps(E) /\ Bounded(p, x, q)
         /\ IsInjective(q.h) /\ Replaced(p.h, i, x, q.h)
         /\ ExactBut(p, i) => Exact(q)
<1> DEFINE W == Visited(next, i)
           new == Puts(p.h, next, i, x)
<1>0. p.h \in Seq(E) /\ p.idx \in [E -> Nat] /\ i \in DOMAIN next
  BY DEF Heaps
<1>1. 0 \notin DOMAIN next
  OBVIOUS
<1>2. Route(next, i, W)
  BY <1>1, RouteIs
<1>3. q.h = Moved(p.h, next, i, x) /\ q.idx = Indexed(p, next, i, x)
  BY DEF Loop
<1>4. /\ q.h \in Seq(E) /\ Len(q.h) = Len(p.h)
      /\ \A k \in 1 .. Len(p.h) : q.h[k] = IF k \notin W THEN p.h[k]
                                           ELSE IF next[k] = 0 THEN x ELSE p.h[next[k]]
  <2> DEFINE m == Moved(p.h, next, i, x)
  <2>1. m \in Seq(E) /\ Len(m) = Len(p.h)
    BY <1>0, <1>2, MovedIs
  <2>2. \A k \in 1 .. Len(p.h) :
          m[k] = IF k \notin W THEN p.h[k] ELSE IF next[k] = 0 THEN x ELSE p.h[next[k]]
    <3>1. Shifted(p.h, next, i, x, m)
      BY <1>0, <1>2, MovedAt
    <3> QED
      BY <3>1 DEF Shifted
  <2> HIDE DEF W
  <2> QED
    BY <1>3, <2>1, <2>2
<1>5. W \subseteq 1 .. Len(p.h) /\ i \in W
  BY <1>2 DEF Route
<1>6. \A k \in W : new[k] = q.h[k]
  BY <1>4, <1>5 DEF Puts
<1>7. IsInjective(q.h) /\ Replaced(p.h, i, x, q.h)
  BY <1>0, <1>1, <1>2, <1>3, MovedOnce
<1>8. \A j, k \in 1 .. Len(p.h) : q.h[j] = q.h[k] => j = k
  BY <1>4, <1>7 DEF IsInjective
<1>9. \A e \in DOMAIN p.idx : IF \E k \in W : new[k] = e
                              THEN \E k \in W : new[k] = e /\ q.idx[e] = k
                              ELSE q.idx[e] = p.idx[e]
  <2>1. \A e \in DOMAIN p.idx : Noted(W, new, e, p.idx[e], q.idx[e])
    BY <1>1, <1>3, IndexedIs
  <2> HIDE DEF W, new
  <2> QED
    BY <2>1 DEF Noted
<1>10. q \in Heaps(E) /\ Bounded(p, x, q)
  BY LoopBounds
<1> HIDE DEF W, new
<1>11. ASSUME ExactBut(p, i), NEW k \in 1 .. Len(q.h) PROVE q.idx[q.h[k]] = k
  <2>1. q.h[k] \in DOMAIN p.idx /\ k \in 1 .. Len(p.h)
    BY <1>0, <1>4
  <2>2. CASE k \in W
    <3>1. \E l \in W : new[l] = q.h[k] /\ q.idx[q.h[k]] = l
      BY <1>6, <1>9, <2>1, <2>2
    <3> QED
      BY <1>5, <1>6, <1>8, <2>1, <3>1
  <2>3. CASE k \notin W
    <3>1. ~ \E l \in W : new[l] = q.h[k]
      BY <1>5, <1>6, <1>8, <2>1, <2>3
    <3>2. q.idx[q.h[k]] = p.idx[q.h[k]]
      BY <1>9, <2>1, <3>1
    <3>3. q.h[k] = p.h[k] /\ k # i
      BY <1>4, <1>5, <2>1, <2>3
    <3> QED
      BY <1>11, <2>1, <3>2, <3>3 DEF ExactBut
  <2> QED
    BY <2>2, <2>3
<1> QED
  BY <1>7, <1>10, <1>11 DEF Exact

\* An array in which an entry is itself replaced by x that is nowhere else, or
\* by the same entry.
LEMMA OnceIs ==
  ASSUME NEW E, NEW h \in Seq(E), IsInjective(h), NEW i \in 1 .. Len(h), NEW x,
         x = h[i] \/ x \notin ToSet(h)
  PROVE  OnceBut(h, i, x)
<1>1. \A j, k \in 1 .. Len(h) : h[j] = h[k] => j = k
  BY DEF IsInjective
<1>2. \A k \in 1 .. Len(h) : h[k] \in ToSet(h)
  BY DEF ToSet
<1> QED
  BY <1>1, <1>2 DEF OnceBut

\* heap_adjust_siftdown keeps all entries and every heap_index.  If the entry at i
\* is the only one that may be greater than its children, the heap is in order.
LEMMA SiftdownIs ==
  ASSUME NEW E, NEW p \in Heaps(E), NEW c, NEW i \in 1 .. Len(p.h),
         NEW q, q = heap_adjust_siftdown(p, c, i)
  PROVE  /\ q \in Heaps(E) /\ Bounded(p, p.h[i], q)
         /\ IsInjective(p.h) => IsInjective(q.h) /\ \A v : v \in ToSet(q.h) <=> v \in ToSet(p.h)
         /\ IsInjective(p.h) /\ Exact(p) => Exact(q)
         /\ Comparable(c, E) /\ InOrderBut(p.h, c, Len(p.h), i, p.h[i]) => InOrder(q.h, c, Len(p.h))
<1> DEFINE n == Len(p.h)
           x == p.h[i]
           next == Down(p.h, c, n, x)
           m == Moved(p.h, next, i, x)
<1>0. n \in Nat /\ x \in E /\ i \in 1 .. n /\ p.h \in Seq(E)
  BY DEF Heaps
<1>1. next = Down(p.h, c, n, x)
  OBVIOUS
<1> HIDE DEF next
<1>2. DOMAIN next = 1 .. n /\ \E rank : Falls(next, rank)
  <2> HIDE DEF n, x
  <2> QED
    BY <1>0, <1>1, DownFalls
<1>3. CASE Stays(p.h, c, n, i, x)
  <2>1. q = p
    BY <1>3 DEF heap_adjust_siftdown
  <2>2. Bounded(p, x, q)
    BY <1>0, <2>1 DEF Bounded
  <2>3. ASSUME Comparable(c, E), InOrderBut(p.h, c, n, i, x) PROVE InOrder(p.h, c, n)
    <3>1. next[i] = 0
      BY <1>0, <1>1, <1>3 DEF Down
    <3>2. \A k \in 2 .. n : k \div 2 = i => c[x] <= c[p.h[k]]
      <4>1. ASSUME NEW k \in 2 .. n, k \div 2 = i PROVE c[x] <= c[p.h[k]]
        <5>1. k \in 1 .. n /\ (k = 2 * i \/ k = 2 * i + 1) /\ n <= Len(p.h)
          BY <1>0, <4>1, Parent
        <5>2. Down(p.h, c, n, x)[i] = 0
          BY <1>1, <3>1
        <5> HIDE DEF n, x
        <5> QED
          BY <1>0, <2>3, <5>1, <5>2, DownLesser
      <4> QED
        BY <4>1
    <3> QED
      BY <1>0, <2>3, <3>2 DEF InOrder, InOrderBut
  <2> QED
    BY <2>1, <2>2, <2>3
<1>4. CASE ~Stays(p.h, c, n, i, x)
  <2>1. q = Loop(p, next, i, x)
    BY <1>1, <1>4 DEF heap_adjust_siftdown
  <2>2. q.h = m
    BY <2>1 DEF Loop
  <2>3. q \in Heaps(E) /\ Bounded(p, x, q)
    <3> HIDE DEF x
    <3>1. PICK rank : Falls(next, rank)
      BY <1>2
    <3> QED
      BY <1>0, <1>2, <2>1, <3>1, LoopBounds
  <2>4. ASSUME IsInjective(p.h)
        PROVE  /\ IsInjective(q.h) /\ Replaced(p.h, i, x, q.h)
               /\ ExactBut(p, i) => Exact(q)
    <3>1. OnceBut(p.h, i, x)
      BY <1>0, <2>4, OnceIs
    <3> HIDE DEF x
    <3>2. PICK rank : Falls(next, rank)
      BY <1>2
    <3> QED
      BY <1>0, <1>2, <2>1, <3>1, <3>2, LoopIs
  <2>5. \A v : v \in ToSet(p.h) <=> \E j \in 1 .. n : v = p.h[j]
    BY <1>0 DEF ToSet
  <2>6. IsInjective(p.h) => \A v : v \in ToSet(q.h) <=> v \in ToSet(p.h)
    BY <1>0, <2>4, <2>5 DEF Replaced
  <2>7. Exact(p) => ExactBut(p, i)
    BY DEF Exact, ExactBut
  <2>8. ASSUME Comparable(c, E), InOrderBut(p.h, c, n, i, x) PROVE InOrder(q.h, c, n)
    <3> HIDE DEF n, x, m
    <3>1. n <= Len(p.h) /\ p.h \in Seq(E)
      BY <1>0 DEF n
    <3>2. InOrder(Moved(p.h, Down(p.h, c, n, x), i, x), c, n)
      BY <1>0, <2>8, <3>1, SiftOrders
    <3> QED
      BY <1>1, <2>2, <3>2 DEF m
  <2> QED
    BY <2>3, <2>4, <2>6, <2>7, <2>8
<1> QED
  BY <1>3, <1>4

\* A count that grows is greater than at most its children's.
LEMMA RaisedIs ==
  ASSUME NEW h, NEW c, NEW d, NEW n \in Nat, NEW i \in 1 .. n, InOrder(h, c, n),
         \A k \in 1 .. n : c[h[k]] \in Nat /\ d[h[k]] \in Nat,
         \A k \in 1 .. n : k # i => d[h[k]] = c[h[k]],
         c[h[i]] <= d[h[i]]
  PROVE  InOrderBut(h, d, n, i, h[i])
<1>1. ASSUME NEW k \in 2 .. n PROVE k \div 2 \in 1 .. n /\ k \div 2 # k /\ k \in 1 .. n
  BY Parent
<1>2. \A k \in 2 .. n : k # i /\ k \div 2 # i => d[h[k \div 2]] <= d[h[k]]
  BY <1>1 DEF InOrder
<1>3. ASSUME i > 1 PROVE d[h[i \div 2]] <= d[h[i]]
  <2>1. i \in 2 .. n
    BY <1>3
  <2>2. c[h[i \div 2]] <= c[h[i]] /\ d[h[i \div 2]] = c[h[i \div 2]]
    BY <1>1, <2>1 DEF InOrder
  <2>3. c[h[i \div 2]] \in Nat
    BY <1>1, <2>1
  <2> QED
    BY <2>2, <2>3
<1>4. ASSUME i > 1, NEW k \in 2 .. n, k \div 2 = i PROVE d[h[i \div 2]] <= d[h[k]]
  <2>1. i \in 2 .. n /\ k # i /\ k \in 1 .. n
    BY <1>1, <1>4
  <2>2. c[h[i \div 2]] <= c[h[i]] /\ c[h[i]] <= c[h[k]]
    BY <1>4, <2>1 DEF InOrder
  <2>3. d[h[i \div 2]] = c[h[i \div 2]] /\ d[h[k]] = c[h[k]] /\ c[h[i \div 2]] \in Nat /\ c[h[i]] \in Nat
        /\ c[h[k]] \in Nat
    BY <1>1, <2>1
  <2> QED
    BY <2>2, <2>3
<1> QED
  BY <1>2, <1>3, <1>4 DEF InOrderBut

\* The grandparent of a place comes before it.
LEMMA Quarter ==
  ASSUME NEW n \in Nat, n >= 1
  PROVE  n \div 4 > 0 => n \div 4 \in 1 .. n - 1
OBVIOUS

\* q is in order exactly if x, added to p, need not rise more than one level.
RisesOnce(p, c, x, n, q) ==
  InOrder(q.h, c, n) <=> (n \div 4 > 0 => c[p.h[n \div 4]] <= c[x])

\* q has the entries of p and x.
Gains(p, x, q) == \A v : v \in ToSet(q.h) <=> v = x \/ v \in ToSet(p.h)

\* heap_insert adds an entry, and keeps the heap in order if that is not less than
\* the grandparent of its first place.
LEMMA InsertIs ==
  ASSUME NEW E, NEW p \in Heaps(E), NEW c, NEW x \in E,
         NEW n \in Nat, n = Len(p.h) + 1,
         NEW q, q = heap_insert(p, c, x)
  PROVE  /\ q \in Heaps(E) /\ Len(q.h) = n
         /\ \A k \in 1 .. n : q.h[k] = x \/ \E j \in 1 .. Len(p.h) : q.h[k] = p.h[j]
         /\ \A e \in E : q.idx[e] = p.idx[e] \/ q.idx[e] \in 1 .. n
         /\ IsInjective(p.h) /\ x \notin ToSet(p.h) =>
              /\ IsInjective(q.h)
              /\ Gains(p, x, q)
              /\ Exact(p) => Exact(q)
         /\ Comparable(c, E) /\ InOrder(p.h, c, Len(p.h)) => RisesOnce(p, c, x, n, q)
<1> DEFINE a == Append(p.h, x)
           r == [p EXCEPT !.h = a]
           next == Up(a, c)
           m == Len(p.h)
<1>0. n \in Nat /\ n >= 1 /\ m \in Nat /\ m = n - 1 /\ n \in 1 .. n /\ p.h \in Seq(E) /\ p.idx \in [E -> Nat]
  BY DEF Heaps
<1>1. /\ a \in Seq(E) /\ Len(a) = n /\ a[n] = x
      /\ \A k \in 1 .. m : k \in 1 .. n /\ k # n /\ a[k] = p.h[k]
      /\ \A k \in 1 .. n : k # n => k \in 1 .. m
  BY <1>0
<1>2. q = Loop(r, next, n, x)
  BY <1>0 DEF heap_insert
<1>3. r \in Heaps(E) /\ r.h = a /\ r.idx = p.idx
  <2> HIDE DEF a
  <2> QED
    BY <1>1 DEF Heaps
<1>4. next = Up(a, c)
  OBVIOUS
<1> HIDE DEF next, a, r, m
<1>5. DOMAIN next = 1 .. n /\ \E rank : Falls(next, rank)
  BY <1>0, <1>1, <1>4, UpIs
<1>6. PICK rank : Falls(next, rank)
  BY <1>5
<1>7. DOMAIN next \subseteq 1 .. Len(r.h) /\ n \in DOMAIN next
  BY <1>0, <1>1, <1>3, <1>5
<1>8. q \in Heaps(E) /\ Bounded(r, x, q)
  BY <1>2, <1>3, <1>6, <1>7, LoopBounds
<1>9. Len(q.h) = n
  BY <1>1, <1>3, <1>8 DEF Bounded
<1>10. ASSUME NEW k \in 1 .. n PROVE q.h[k] = x \/ \E j \in 1 .. m : q.h[k] = p.h[j]
  <2>1. q.h[k] = x \/ \E j \in 1 .. n : q.h[k] = a[j]
    BY <1>1, <1>3, <1>8, <1>9 DEF Bounded
  <2> QED
    BY <1>1, <2>1
<1>11. \A e \in E : q.idx[e] = p.idx[e] \/ q.idx[e] \in 1 .. n
  BY <1>0, <1>1, <1>3, <1>8 DEF Bounded
<1>12. ASSUME IsInjective(p.h), x \notin ToSet(p.h)
       PROVE  /\ IsInjective(q.h)
              /\ Gains(p, x, q)
              /\ Exact(p) => Exact(q)
  <2>1. \A v : v \in ToSet(p.h) <=> \E j \in 1 .. m : v = p.h[j]
    BY <1>0 DEF ToSet, m
  <2>2. \A j, k \in 1 .. m : p.h[j] = p.h[k] => j = k
    BY <1>0, <1>12 DEF IsInjective, m
  <2>3. OnceBut(r.h, n, x)
    <3>1. \A j, k \in 1 .. n : j # n /\ k # n /\ a[j] = a[k] => j = k
      BY <1>1, <2>2
    <3>2. \A j \in 1 .. n : j # n => a[j] # x
      BY <1>1, <1>12, <2>1
    <3> QED
      BY <1>1, <1>3, <3>1, <3>2 DEF OnceBut
  <2>4. /\ IsInjective(q.h) /\ Replaced(r.h, n, x, q.h)
        /\ ExactBut(r, n) => Exact(q)
    BY <1>2, <1>3, <1>6, <1>7, <2>3, LoopIs
  <2>5. Exact(p) => ExactBut(r, n)
    BY <1>1, <1>3 DEF Exact, ExactBut, m
  <2>6. ASSUME NEW v PROVE v \in ToSet(q.h) <=> v = x \/ v \in ToSet(p.h)
    <3>1. v \in ToSet(q.h) <=> v = x \/ \E j \in 1 .. n : j # n /\ v = a[j]
      BY <1>1, <1>3, <2>4 DEF Replaced
    <3> QED
      BY <1>1, <2>1, <3>1
  <2> QED
    BY <2>4, <2>5, <2>6 DEF Gains
<1>13. ASSUME Comparable(c, E), InOrder(p.h, c, m)
       PROVE  RisesOnce(p, c, x, n, q)
  <2>1. InOrder(a, c, n - 1)
    <3>1. ASSUME NEW k \in 2 .. n - 1 PROVE c[a[k \div 2]] <= c[a[k]]
      <4>1. k \in 2 .. m /\ k \in 1 .. m /\ k \div 2 \in 1 .. m
        BY <1>0, <3>1, Parent
      <4>2. c[p.h[k \div 2]] <= c[p.h[k]]
        BY <1>13, <4>1 DEF InOrder
      <4> QED
        BY <1>1, <4>1, <4>2
    <3> QED
      BY <3>1 DEF InOrder
  <2>2. InOrder(Moved(a, Up(a, c), n, x), c, n) <=> (n \div 4 > 0 => c[a[n \div 4]] <= c[x])
    BY <1>0, <1>1, <1>13, <2>1, RiseOrders
  <2>3. q.h = Moved(a, Up(a, c), n, x)
    BY <1>2, <1>3, <1>4 DEF Loop
  <2>4. n \div 4 > 0 => n \div 4 \in 1 .. m
    <3>1. n \div 4 > 0 => n \div 4 \in 1 .. n - 1
      BY <1>0, Quarter
    <3> QED
      BY <1>0, <3>1, Zenon
  <2> QED
    BY <1>1, <2>2, <2>3, <2>4 DEF RisesOnce
<1> QED
  BY <1>8, <1>9, <1>10, <1>11, <1>12, <1>13 DEF m

\* q has the entries of p, and x for the root.
TakesRoot(p, x, q) ==
  \A v : v \in ToSet(q.h) <=> v = x \/ (v \in ToSet(p.h) /\ v # p.h[1])

\* heap_replace_least puts x for the root unless the comparison calls it less.
LEMMA ReplaceIs ==
  ASSUME NEW E, NEW p \in Heaps(E), NEW c, NEW x \in E,
         NEW n \in Nat, n = Len(p.h), n > 0, ~ (elem_compare(c, x, p.h[1]) <= 0),
         NEW q, q = heap_replace_least(p, c, x)
  PROVE  /\ q \in Heaps(E) /\ Bounded(p, x, q)
         /\ IsInjective(p.h) /\ x \notin ToSet(p.h) =>
              /\ IsInjective(q.h)
              /\ TakesRoot(p, x, q)
              /\ Exact(p) => Exact(q)
         /\ Comparable(c, E) /\ InOrder(p.h, c, n) => InOrder(q.h, c, n)
<1> DEFINE h == p.h
           next == Down(h, c, n, x)
<1>0. /\ n \in Nat /\ 1 \in 1 .. n /\ p.h \in Seq(E) /\ Len(p.h) = n
      /\ n <= Len(h) /\ h \in Seq(E) /\ Len(h) = n
  BY DEF Heaps
<1>1. next = Down(h, c, n, x) /\ h = p.h
  OBVIOUS
<1>2. q = Loop(p, next, 1, x)
  BY <1>0 DEF heap_replace_least
<1> HIDE DEF next, h
<1>3. DOMAIN next = 1 .. n /\ \E rank : Falls(next, rank)
  BY <1>0, <1>1, DownFalls
<1>4. PICK rank : Falls(next, rank)
  BY <1>3
<1>5. DOMAIN next \subseteq 1 .. Len(p.h) /\ 1 \in DOMAIN next
  BY <1>0, <1>3
<1>6. q \in Heaps(E) /\ Bounded(p, x, q)
  BY <1>2, <1>4, <1>5, LoopBounds
<1>7. ASSUME IsInjective(p.h), x \notin ToSet(p.h)
      PROVE  /\ IsInjective(q.h)
             /\ TakesRoot(p, x, q)
             /\ Exact(p) => Exact(q)
  <2>1. \A v : v \in ToSet(p.h) <=> \E j \in 1 .. n : v = p.h[j]
    BY <1>0 DEF ToSet
  <2>2. \A j, k \in 1 .. n : p.h[j] = p.h[k] => j = k
    BY <1>0, <1>7 DEF IsInjective
  <2>3. OnceBut(p.h, 1, x)
    BY <1>0, <1>7, OnceIs
  <2>4. /\ IsInjective(q.h) /\ Replaced(p.h, 1, x, q.h)
        /\ ExactBut(p, 1) => Exact(q)
    BY <1>2, <1>4, <1>5, <2>3, LoopIs
  <2>5. Exact(p) => ExactBut(p, 1)
    BY DEF Exact, ExactBut
  <2>6. ASSUME NEW v PROVE v \in ToSet(q.h) <=> v = x \/ (v \in ToSet(p.h) /\ v # p.h[1])
    <3>1. v \in ToSet(q.h) <=> v = x \/ \E j \in 1 .. n : j # 1 /\ v = p.h[j]
      BY <1>0, <2>4 DEF Replaced
    <3> QED
      BY <1>0, <2>1, <2>2, <3>1
  <2> QED
    BY <2>4, <2>5, <2>6 DEF TakesRoot
<1>8. ASSUME Comparable(c, E), InOrder(h, c, n) PROVE InOrder(q.h, c, n)
  <2>1. InOrderBut(h, c, n, 1, x)
    BY <1>8 DEF InOrder, InOrderBut
  <2>2. InOrder(Moved(h, Down(h, c, n, x), 1, x), c, n)
    BY <1>0, <1>8, <2>1, SiftOrders
  <2>3. q.h = Moved(h, next, 1, x)
    BY <1>1, <1>2 DEF Loop
  <2> QED
    BY <1>1, <2>2, <2>3
<1> QED
  BY <1>1, <1>6, <1>7, <1>8

\* q has the entries of p but the root.
LosesRoot(p, q) == \A v : v \in ToSet(q.h) <=> (v \in ToSet(p.h) /\ v # p.h[1])

\* heap_delete takes the root out and keeps the others.
LEMMA DeleteIs ==
  ASSUME NEW E, NEW p \in Heaps(E), NEW c, NEW n \in Nat, n + 1 = Len(p.h),
         NEW q, q = heap_delete(p, c)
  PROVE  /\ q \in Heaps(E) /\ Len(q.h) = n /\ q.idx = p.idx
         /\ IsInjective(p.h) => IsInjective(q.h) /\ LosesRoot(p, q)
         /\ Comparable(c, E) /\ InOrder(p.h, c, n + 1) => InOrder(q.h, c, n)
<1> DEFINE x == Last(p.h)
           f == Front(p.h)
           next == Down(f, c, n, x)
           m == IF n = 0 THEN <<>> ELSE Moved(f, next, 1, x)
<1>0. n \in Nat /\ p.h \in Seq(E) /\ Len(p.h) = n + 1 /\ p.idx \in [E -> Nat] /\ Len(p.h) - 1 = n
  BY DEF Heaps
<1>1. /\ f \in Seq(E) /\ Len(f) = n /\ x \in E /\ x = p.h[n + 1]
      /\ \A k \in 1 .. n : f[k] = p.h[k]
  BY <1>0 DEF Front, Last
<1>2. q = [p EXCEPT !.h = m]
  BY <1>0 DEF heap_delete
<1>3. \A v : v \in ToSet(p.h) <=> \E j \in 1 .. n + 1 : v = p.h[j]
  BY <1>0 DEF ToSet
<1>4. next = Down(f, c, n, x)
  OBVIOUS
<1>5. m = IF n = 0 THEN <<>> ELSE Moved(f, next, 1, x)
  OBVIOUS
<1> HIDE DEF x, f, next, m
<1>6. /\ m \in Seq(E) /\ Len(m) = n
      /\ IsInjective(p.h) =>
           /\ IsInjective(m)
           /\ \A v : v \in ToSet(m) <=> (v \in ToSet(p.h) /\ v # p.h[1])
      /\ Comparable(c, E) /\ InOrder(p.h, c, n + 1) => InOrder(m, c, n)
  <2>1. CASE n = 0
    <3>1. m = <<>> /\ m \in Seq(E) /\ Len(m) = 0 /\ DOMAIN m = {} /\ 1 .. n + 1 = {1} /\ 2 .. n = {}
      BY <1>5, <2>1
    <3>2. IsInjective(m)
      BY <3>1 DEF IsInjective
    <3>3. \A v : v \notin ToSet(m)
      BY <3>1 DEF ToSet
    <3>4. \A v : v \in ToSet(p.h) <=> v = p.h[1]
      BY <1>3, <3>1
    <3>5. InOrder(m, c, n)
      BY <3>1 DEF InOrder
    <3> QED
      BY <2>1, <3>1, <3>2, <3>3, <3>4, <3>5
  <2>2. CASE n # 0
    <3>0. 1 \in 1 .. n /\ n <= Len(f) /\ n + 1 \in 1 .. n + 1 /\ 1 # n + 1
      BY <1>0, <1>1, <2>2
    <3>1. m = Moved(f, next, 1, x)
      BY <1>5, <2>2
    <3>2. DOMAIN next = 1 .. n /\ \E rank : Falls(next, rank)
      BY <1>0, <1>4, DownFalls
    <3>3. PICK rank : Falls(next, rank)
      BY <3>2
    <3>4. DOMAIN next \subseteq 1 .. Len(f) /\ 1 \in DOMAIN next /\ 0 \notin DOMAIN next
      BY <1>1, <3>0, <3>2
    <3>5. Route(next, 1, Visited(next, 1))
      BY <3>3, <3>4, RouteIs
    <3>6. m \in Seq(E) /\ Len(m) = n
      BY <1>1, <3>1, <3>4, <3>5, MovedIs
    <3>7. ASSUME IsInjective(p.h)
          PROVE  /\ IsInjective(m)
                 /\ \A v : v \in ToSet(m) <=> (v \in ToSet(p.h) /\ v # p.h[1])
      <4>1. \A j, k \in 1 .. n + 1 : p.h[j] = p.h[k] => j = k
        BY <1>0, <3>7 DEF IsInjective
      <4>2. \A k \in 1 .. n : k \in 1 .. n + 1 /\ k # n + 1
        BY <1>0
      <4>3. \A k \in 1 .. n + 1 : k \in 1 .. n \/ k = n + 1
        BY <1>0
      <4>4. OnceBut(f, 1, x)
        BY <1>1, <3>0, <4>1, <4>2 DEF OnceBut
      <4>5. IsInjective(m) /\ Replaced(f, 1, x, m)
        BY <1>1, <3>1, <3>4, <3>5, <4>4, MovedOnce
      <4>6. ASSUME NEW v PROVE v \in ToSet(m) <=> (v \in ToSet(p.h) /\ v # p.h[1])
        <5>1. v \in ToSet(m) <=> v = x \/ \E j \in 1 .. n : j # 1 /\ v = f[j]
          BY <1>1, <4>5 DEF Replaced
        <5>2. v \in ToSet(p.h) <=> v = x \/ \E j \in 1 .. n : v = f[j]
          BY <1>1, <1>3, <3>0, <4>2, <4>3
        <5>3. f[1] = p.h[1] /\ x # p.h[1]
          BY <1>1, <3>0, <4>1, <4>2
        <5>4. \A j \in 1 .. n : f[j] = f[1] => j = 1
          BY <1>1, <3>0, <4>1, <4>2
        <5> QED
          BY <3>0, <5>1, <5>2, <5>3, <5>4
      <4> QED
        BY <4>5, <4>6
    <3>8. ASSUME Comparable(c, E), InOrder(p.h, c, n + 1) PROVE InOrder(m, c, n)
      <4>1. ASSUME NEW k \in 2 .. n, k \div 2 # 1 PROVE c[f[k \div 2]] <= c[f[k]]
        <5>1. k \in 2 .. n + 1 /\ k \in 1 .. n /\ k \div 2 \in 1 .. n
          BY <1>0, Parent
        <5> QED
          BY <1>1, <3>8, <5>1 DEF InOrder
      <4>2. InOrderBut(f, c, n, 1, x)
        BY <4>1 DEF InOrderBut
      <4>3. InOrder(Moved(f, Down(f, c, n, x), 1, x), c, n)
        BY <1>0, <1>1, <3>0, <3>8, <4>2, SiftOrders
      <4> QED
        BY <1>4, <3>1, <4>3
    <3> QED
      BY <3>6, <3>7, <3>8
  <2> QED
    BY <2>1, <2>2
<1>7. q \in Heaps(E) /\ q.h = m /\ q.idx = p.idx
  BY <1>0, <1>2, <1>6 DEF Heaps
<1>8. IsInjective(p.h) => IsInjective(q.h) /\ LosesRoot(p, q)
  BY <1>6, <1>7 DEF LosesRoot
<1> QED
  BY <1>6, <1>7, <1>8

-----------------------------------------------------------------------------
(* HeapCalls.                                                              *)

\* The remainders of a number and its opposite add up to the divisor.
LEMMA Negated ==
  ASSUME NEW a \in Int, NEW n \in Nat, n > 0
  PROVE  /\ a % n \in 0 .. n - 1
         /\ (-a) % n = IF a % n = 0 THEN 0 ELSE n - (a % n)
<1> DEFINE q == a \div n
           r == a % n
<1>1. q \in Int /\ r \in 0 .. n - 1 /\ a = n * q + r
  OBVIOUS
<1> HIDE DEF q, r
<1>2. CASE r = 0
  <2>1. -a = n * (-q) + 0 /\ -q \in Int /\ 0 \in 0 .. n - 1 /\ -a \in Int
    BY <1>1, <1>2
  <2>2. (-a) % n = 0
    BY <2>1, Remainder
  <2> QED
    BY <1>1, <1>2, <2>2 DEF r
<1>3. CASE r # 0
  <2>1. -a = n * (-q - 1) + (n - r) /\ -q - 1 \in Int /\ n - r \in 0 .. n - 1 /\ -a \in Int
    BY <1>1, <1>3
  <2>2. (-a) % n = n - r
    BY <2>1, Remainder
  <2> QED
    BY <1>1, <1>3, <2>2 DEF r
<1> QED
  BY <1>2, <1>3

\* If heap_min_less_than calls the root less, then heap_replace_least agrees,
\* unless the counts are exactly 2^31 apart.
LEMMA BothWays ==
  ASSUME NEW c, NEW x, NEW y, c[x] \in Nat, c[y] \in Nat, elem_compare(c, y, x) < 0
  PROVE  elem_compare(c, x, y) <= 0 <=> (c[x] - c[y]) % (2 * SignBit) = SignBit
<1> DEFINE a == c[x] - c[y]
           n == 2 * SignBit
<1>1. SignBit \in Nat /\ SignBit > 0 /\ a \in Int /\ n \in Nat /\ n > 0 /\ c[y] - c[x] = -a
  BY SignBitAssumption
<1>2. /\ a % n \in 0 .. n - 1
      /\ (-a) % n = IF a % n = 0 THEN 0 ELSE n - (a % n)
  BY <1>1, Negated
<1>3. elem_compare(c, x, y) = IF a % n >= SignBit THEN (a % n) - n ELSE a % n
  BY DEF elem_compare
<1>4. elem_compare(c, y, x) = IF (-a) % n >= SignBit THEN ((-a) % n) - n ELSE (-a) % n
  BY <1>1 DEF elem_compare
<1>5. n = 2 * SignBit
  OBVIOUS
<1> HIDE DEF a, n
<1>6. a % n = 0 => (-a) % n = 0
  BY <1>2
<1>7. a % n # 0
  BY <1>1, <1>4, <1>6
<1>8. (-a) % n = n - (a % n)
  BY <1>2, <1>7
<1>9. n - (a % n) >= SignBit
  BY <1>1, <1>2, <1>4, <1>8
<1>10. a % n <= SignBit /\ a % n > 0
  BY <1>1, <1>2, <1>5, <1>7, <1>9
<1> QED
  BY <1>1, <1>2, <1>3, <1>5, <1>10 DEF a, n

\* The heap before the call: the elements are numbered by their places.
Ready ==
  /\ hbt \in Heaps(Elem) /\ cnt \in [Elem -> Nat]
  /\ IsInjective(hbt.h) /\ Exact(hbt)
  /\ MaxLen + 1 \notin ToSet(hbt.h)
  /\ Narrow(cnt) => InOrder(hbt.h, cnt, Len(hbt.h))

HeapInv == (call = "" => Ready) /\ IndexExact /\ SortDescends

LEMMA NarrowIs ==
  ASSUME NEW c \in [Elem -> Nat], Narrow(c)
  PROVE  Comparable(c, Elem)
BY DEF Narrow, Comparable

LEMMA HeapInitInv ==
  HeapInit => HeapInv
<1> SUFFICES ASSUME HeapInit PROVE HeapInv
  OBVIOUS
<1>0. call = ""
  BY DEF HeapInit
<1>1. MaxLen \in Nat /\ MaxCount \in Nat
  BY CountAssumption
<1>2. PICK n, new :
        /\ n \in 0 .. MaxLen /\ new \in 1 .. MaxCount
        /\ hbt = [h |-> [i \in 1 .. n |-> i],
                  idx |-> [e \in Elem |-> IF e <= n THEN e ELSE 0]]
        /\ \E c \in [1 .. n -> 1 .. MaxCount] :
             cnt = [e \in Elem |-> IF e <= n THEN c[e] ELSE new]
  BY DEF HeapInit
<1>3. PICK c : /\ c \in [1 .. n -> 1 .. MaxCount]
               /\ cnt = [e \in Elem |-> IF e <= n THEN c[e] ELSE new]
  BY <1>2
<1>14. n \in Nat /\ n <= MaxLen /\ MaxLen \in Nat /\ new \in Nat
  <2>1. n \in 0 .. MaxLen /\ new \in 1 .. MaxCount
    BY <1>2
  <2> QED
    BY <1>1, <2>1
<1>15. \A e \in 1 .. n : c[e] \in Nat
  <2>1. \A e \in 1 .. n : c[e] \in 1 .. MaxCount
    BY <1>3
  <2> QED
    BY <1>1, <2>1
<1>4. n \in Nat /\ \A i \in 1 .. n : i \in Elem /\ i # MaxLen + 1 /\ i <= n
  BY <1>14 DEF Elem
<1>5. /\ hbt.h = [i \in 1 .. n |-> i] /\ hbt.idx = [e \in Elem |-> IF e <= n THEN e ELSE 0]
      /\ hbt = [h |-> hbt.h, idx |-> hbt.idx]
  BY <1>2
<1>6. hbt.h \in Seq(Elem) /\ Len(hbt.h) = n /\ DOMAIN hbt.h = 1 .. n
  BY <1>4, <1>5
<1>7. hbt.idx \in [Elem -> Nat]
  <2>1. \A e \in Elem : e \in Nat
    BY <1>14 DEF Elem
  <2> QED
    BY <1>5, <2>1
<1>8. hbt \in Heaps(Elem)
  BY <1>5, <1>6, <1>7 DEF Heaps
<1>9. cnt \in [Elem -> Nat]
  <2>1. ASSUME NEW e \in Elem PROVE (IF e <= n THEN c[e] ELSE new) \in Nat
    <3>1. e \in Nat /\ e >= 1 /\ new \in Nat
      BY <1>14 DEF Elem
    <3>2. CASE e <= n
      <4>1. e \in 1 .. n
        BY <1>14, <3>1, <3>2
      <4> QED
        BY <1>15, <3>2, <4>1
    <3> QED
      BY <3>1, <3>2
  <2> QED
    BY <1>3, <2>1
<1>10. IsInjective(hbt.h)
  BY <1>5, <1>6 DEF IsInjective
<1>11. Exact(hbt)
  BY <1>4, <1>5, <1>6 DEF Exact
<1>12. MaxLen + 1 \notin ToSet(hbt.h)
  BY <1>4, <1>5, <1>6 DEF ToSet
<1>13. Narrow(cnt) => InOrder(hbt.h, cnt, Len(hbt.h))
  BY DEF HeapInit, Ordered, InOrder
<1> QED
  BY <1>0, <1>8, <1>9, <1>10, <1>11, <1>12, <1>13 DEF HeapInv, Ready, IndexExact, SortDescends

\* The calls keep what the callbacks and the sort promise.
LEMMA HeapInvNext ==
  HeapInv /\ [HeapNext]_heapVars => HeapInv'
<1> SUFFICES ASSUME HeapInv, [HeapNext]_heapVars PROVE HeapInv'
  OBVIOUS
<1>1. CASE HeapNext
  <2>0. Ready /\ call = ""
    BY <1>1 DEF HeapNext, HeapInv
  <2>1. /\ hbt \in Heaps(Elem) /\ IsInjective(hbt.h) /\ Exact(hbt) /\ MaxLen + 1 \notin ToSet(hbt.h)
        /\ hbt.h \in Seq(Elem) /\ MaxLen + 1 \in Elem /\ Len(hbt.h) \in Nat /\ cnt \in [Elem -> Nat]
    <3>1. /\ hbt \in Heaps(Elem) /\ IsInjective(hbt.h) /\ Exact(hbt) /\ MaxLen + 1 \notin ToSet(hbt.h)
          /\ cnt \in [Elem -> Nat]
      BY <2>0 DEF Ready
    <3>2. hbt.h \in Seq(Elem)
      BY <3>1 DEF Heaps
    <3>3. MaxLen + 1 \in Elem
      BY CountAssumption DEF Elem
    <3> QED
      BY <3>1, <3>2, <3>3
  <2>2. Exact(hbt') => IndexExact'
    BY DEF IndexExact, Exact, InHeap
  <2>3. ASSUME NEW i \in InHeap, siftdown(i) PROVE HeapInv'
    <3>1. i \in 1 .. Len(hbt.h) /\ hbt' = heap_adjust_siftdown(hbt, cnt', i) /\ call' = "siftdown"
      BY <2>3 DEF siftdown, InHeap
    <3>2. Exact(hbt')
      BY <2>1, <3>1, SiftdownIs
    <3> QED
      BY <2>2, <3>1, <3>2 DEF HeapInv, SortDescends
  <2>4. CASE insert
    <3>1. hbt' = heap_insert(hbt, cnt, MaxLen + 1) /\ call' = "insert"
      BY <2>4 DEF insert
    <3>2. Exact(hbt')
      BY <2>1, <3>1, InsertIs
    <3> QED
      BY <2>2, <3>1, <3>2 DEF HeapInv, SortDescends
  <2>5. CASE replace
    <3>1. /\ hbt' = heap_replace_least(hbt, cnt, MaxLen + 1) /\ call' = "replace" /\ Len(hbt.h) > 0
      BY <2>5 DEF replace
    <3>2. CASE elem_compare(cnt, MaxLen + 1, hbt.h[1]) <= 0
      <4>1. hbt' = hbt
        BY <3>1, <3>2 DEF heap_replace_least
      <4> QED
        BY <2>1, <2>2, <3>1, <4>1 DEF HeapInv, SortDescends
    <3>3. CASE ~ (elem_compare(cnt, MaxLen + 1, hbt.h[1]) <= 0)
      <4>1. Exact(hbt')
        BY <2>1, <3>1, <3>3, ReplaceIs
      <4> QED
        BY <2>2, <3>1, <4>1 DEF HeapInv, SortDescends
    <3> QED
      BY <3>2, <3>3
  <2>6. CASE delete
    BY <2>6 DEF delete, HeapInv, IndexExact, SortDescends
  <2>7. CASE sort
    <3>1. call' = "sort" /\ hbt' = [hbt EXCEPT !.h = heap_sort(hbt, cnt)] /\ cnt' = cnt
      BY <2>7 DEF sort
    <3>2. hbt'.h = heap_sort(hbt, cnt)
      BY <2>1, <3>1 DEF Heaps
    <3>3. ASSUME Narrow(cnt) PROVE \A i, j \in 1 .. Len(hbt'.h) : i < j => cnt[hbt'.h[j]] <= cnt[hbt'.h[i]]
      <4>1. Comparable(cnt, Elem) /\ InOrder(hbt.h, cnt, Len(hbt.h))
        BY <2>0, <2>1, <3>3, NarrowIs DEF Ready
      <4>2. /\ Len(hbt'.h) = Len(hbt.h)
            /\ \A i, j \in 1 .. Len(hbt.h) : i < j => cnt[hbt'.h[j]] <= cnt[hbt'.h[i]]
        BY <2>1, <3>2, <4>1, SortIs
      <4> QED
        BY <4>2
    <3>4. hbt'.h \in Seq(Elem) /\ \A i \in 1 .. Len(hbt'.h) : cnt[hbt'.h[i]] \in Nat
      <4>1. hbt'.h \in Seq(Elem)
        BY <2>1, <3>2, SortIs
      <4> QED
        BY <2>1, <4>1
    <3>5. SortDescends'
      BY <3>1, <3>3, <3>4 DEF SortDescends, InHeap, Narrow
    <3> QED
      BY <3>1, <3>5 DEF HeapInv, IndexExact
  <2> QED
    BY <1>1, <2>3, <2>4, <2>5, <2>6, <2>7 DEF HeapNext
<1>2. CASE UNCHANGED heapVars
  <2>1. hbt' = hbt /\ cnt' = cnt /\ call' = call
    BY <1>2 DEF heapVars
  <2> QED
    BY <2>1 DEF HeapInv, Ready, IndexExact, SortDescends, InHeap, Narrow, Elem
<1> QED
  BY <1>1, <1>2

LEMMA HeapAlways ==
  HeapSpec => []HeapInv
BY HeapInitInv, HeapInvNext, PTL DEF HeapSpec

\* After each call of a function with a callback, every heap_index is the place of
\* its element, whatever the counts and however their differences wrap.
THEOREM IndexTheorem ==
  HeapSpec => []IndexExact
<1>1. HeapInv => IndexExact
  BY DEF HeapInv
<1> QED
  BY <1>1, HeapAlways, PTL

\* heap_sort puts any heap in order into descending order.
THEOREM SortTheorem ==
  HeapSpec => []SortDescends
<1>1. HeapInv => SortDescends
  BY DEF HeapInv
<1> QED
  BY <1>1, HeapAlways, PTL

\* No call disturbs the order of the heap, but heap_insert as it is said there.
LEMMA OrderStep ==
  HeapInv /\ [HeapNext]_heapVars => [OrderKept]_heapVars
<1> SUFFICES ASSUME HeapInv, HeapNext, Narrow(cnt), Narrow(cnt') PROVE OrderKept
  BY DEF OrderKept
<1>0. Ready
  BY DEF HeapNext, HeapInv
<1> DEFINE n == Len(hbt.h)
           x == MaxLen + 1
<1>1. /\ hbt \in Heaps(Elem) /\ IsInjective(hbt.h) /\ InOrder(hbt.h, cnt, n)
      /\ cnt \in [Elem -> Nat]
  BY <1>0 DEF Ready
<1>2. hbt.h \in Seq(Elem) /\ n \in Nat /\ MaxLen + 1 \in Elem /\ \A k \in 1 .. n : hbt.h[k] \in Elem
  <2>1. hbt.h \in Seq(Elem)
    BY <1>1 DEF Heaps
  <2>2. MaxLen + 1 \in Elem
    BY CountAssumption DEF Elem
  <2> QED
    BY <2>1, <2>2
<1>3. Comparable(cnt, Elem)
  BY <1>1, NarrowIs
<1>4. InOrder(hbt'.h, cnt', Len(hbt'.h)) => Ordered(hbt'.h, cnt')
  BY DEF InOrder, Ordered
<1>5. Ordered(hbt'.h, cnt') => InOrder(hbt'.h, cnt', Len(hbt'.h))
  BY DEF InOrder, Ordered
<1>6. ASSUME NEW i \in InHeap, siftdown(i) PROVE OrderKept
  <2>1. /\ i \in 1 .. n /\ hbt' = heap_adjust_siftdown(hbt, cnt', i) /\ call' = "siftdown"
        /\ cnt' = [cnt EXCEPT ![hbt.h[i]] = @ + 1]
    BY <1>6 DEF siftdown, InHeap
  <2>2. cnt' \in [Elem -> Nat]
    BY <1>1, <1>2, <2>1
  <2>3. Comparable(cnt', Elem)
    BY <2>2, NarrowIs
  <2>4. \A k \in 1 .. n : k # i => cnt'[hbt.h[k]] = cnt[hbt.h[k]]
    <3>1. \A k \in 1 .. n : k # i => hbt.h[k] # hbt.h[i]
      BY <1>1, <1>2, <2>1 DEF IsInjective
    <3> QED
      BY <1>1, <1>2, <2>1, <3>1
  <2>5. /\ cnt[hbt.h[i]] <= cnt'[hbt.h[i]]
        /\ \A k \in 1 .. n : cnt[hbt.h[k]] \in Nat /\ cnt'[hbt.h[k]] \in Nat
    <3>1. cnt'[hbt.h[i]] = cnt[hbt.h[i]] + 1
      BY <1>1, <1>2, <2>1
    <3>2. \A k \in 1 .. n : cnt[hbt.h[k]] \in Nat /\ cnt'[hbt.h[k]] \in Nat
      BY <1>1, <1>2, <2>2
    <3> QED
      BY <2>1, <3>1, <3>2
  <2>6. InOrderBut(hbt.h, cnt', n, i, hbt.h[i])
    <3> HIDE DEF n
    <3> QED
      BY <1>1, <1>2, <2>1, <2>4, <2>5, RaisedIs
  <2>7. InOrder(hbt'.h, cnt', n) /\ Len(hbt'.h) = n
    BY <1>1, <2>1, <2>3, <2>6, SiftdownIs DEF Bounded
  <2> QED
    BY <1>4, <2>1, <2>7 DEF OrderKept
<1>7. CASE insert
  <2>1. hbt' = heap_insert(hbt, cnt, x) /\ call' = "insert" /\ cnt' = cnt
    BY <1>7 DEF insert
  <2> DEFINE m == n + 1
  <2>2. m \in Nat /\ m = Len(hbt.h) + 1 /\ x \in Elem /\ InOrder(hbt.h, cnt, Len(hbt.h))
    BY <1>1, <1>2
  <2> HIDE DEF m, n, x
  <2>3. Len(hbt'.h) = m /\ RisesOnce(hbt, cnt, x, m, hbt')
    BY <1>1, <1>3, <2>1, <2>2, InsertIs
  <2> QED
    BY <1>4, <1>5, <2>1, <2>3 DEF OrderKept, RisesOnce, x
<1>8. CASE replace
  <2>1. hbt' = heap_replace_least(hbt, cnt, MaxLen + 1) /\ call' = "replace" /\ cnt' = cnt /\ n > 0
    BY <1>8 DEF replace
  <2>2. CASE elem_compare(cnt, MaxLen + 1, hbt.h[1]) <= 0
    <3>1. hbt' = hbt
      BY <2>1, <2>2 DEF heap_replace_least
    <3> QED
      BY <1>1, <1>4, <2>1, <3>1 DEF OrderKept
  <2>3. CASE ~ (elem_compare(cnt, MaxLen + 1, hbt.h[1]) <= 0)
    <3>1. InOrder(hbt'.h, cnt, n) /\ Len(hbt'.h) = n
      BY <1>1, <1>2, <1>3, <2>1, <2>3, ReplaceIs DEF Bounded
    <3> QED
      BY <1>4, <2>1, <3>1 DEF OrderKept
  <2> QED
    BY <2>2, <2>3
<1>9. CASE delete
  <2>1. hbt' = heap_delete(hbt, cnt) /\ call' = "delete" /\ cnt' = cnt /\ n > 0
    BY <1>9 DEF delete
  <2> DEFINE m == n - 1
  <2>2. m \in Nat /\ m + 1 = Len(hbt.h) /\ m + 1 = n
    BY <1>2, <2>1
  <2> HIDE DEF m, n
  <2>3. InOrder(hbt'.h, cnt, m) /\ Len(hbt'.h) = m
    BY <1>1, <1>3, <2>1, <2>2, DeleteIs
  <2> QED
    BY <1>4, <2>1, <2>3 DEF OrderKept
<1>10. CASE sort
  BY <1>10 DEF sort, OrderKept
<1> QED
  BY <1>6, <1>7, <1>8, <1>9, <1>10 DEF HeapNext

\* As long as no difference of counts wraps, every call keeps a heap of any size in
\* order, heap_insert exactly if the new element need not rise two levels.
THEOREM OrderTheorem ==
  HeapSpec => KeepsOrder
BY HeapAlways, OrderStep, PTL DEF HeapSpec, KeepsOrder

\* The entries after a call are those before, but for the one added or removed.
LEMMA ElementsStep ==
  HeapInv /\ [HeapNext]_heapVars => [ElementsKept]_heapVars
<1> SUFFICES ASSUME HeapInv, HeapNext PROVE ElementsKept
  OBVIOUS
<1>0. Ready
  BY DEF HeapNext, HeapInv
<1> DEFINE n == Len(hbt.h)
           x == MaxLen + 1
<1>1. /\ hbt \in Heaps(Elem) /\ IsInjective(hbt.h) /\ x \notin ToSet(hbt.h)
      /\ cnt \in [Elem -> Nat]
  BY <1>0 DEF Ready
<1>2. hbt.h \in Seq(Elem) /\ n \in Nat /\ x \in Elem /\ \A k \in 1 .. n : hbt.h[k] \in Elem
  <2>1. hbt.h \in Seq(Elem)
    BY <1>1 DEF Heaps
  <2>2. x \in Elem
    BY CountAssumption DEF Elem
  <2> QED
    BY <2>1, <2>2
<1> HIDE DEF n, x
<1>3. ASSUME NEW i \in InHeap, siftdown(i) PROVE ElementsKept
  <2>1. i \in 1 .. Len(hbt.h) /\ hbt' = heap_adjust_siftdown(hbt, cnt', i) /\ call' = "siftdown"
    BY <1>3 DEF siftdown, InHeap
  <2>2. IsInjective(hbt'.h) /\ \A v : v \in ToSet(hbt'.h) <=> v \in ToSet(hbt.h)
    BY <1>1, <2>1, SiftdownIs
  <2>3. ToSet(hbt'.h) = ToSet(hbt.h)
    BY <2>2
  <2> QED
    BY <2>1, <2>2, <2>3 DEF ElementsKept
<1>4. CASE insert
  <2>1. hbt' = heap_insert(hbt, cnt, x) /\ call' = "insert"
    BY <1>4 DEF insert, x
  <2> DEFINE m == n + 1
  <2>2. m \in Nat /\ m = Len(hbt.h) + 1
    BY <1>2 DEF n
  <2> HIDE DEF m
  <2>3. IsInjective(hbt'.h) /\ Gains(hbt, x, hbt')
    BY <1>1, <1>2, <2>1, <2>2, InsertIs
  <2>4. ToSet(hbt'.h) = ToSet(hbt.h) \cup {x}
    BY <2>3 DEF Gains
  <2> QED
    BY <2>1, <2>3, <2>4 DEF ElementsKept, x
<1>5. CASE replace
  <2>1. /\ hbt' = heap_replace_least(hbt, cnt, x) /\ call' = "replace" /\ n > 0
        /\ elem_compare(cnt, hbt.h[1], x) < 0
    BY <1>5 DEF replace, heap_min_less_than, n, x
  <2>2. cnt[hbt.h[1]] \in Nat /\ cnt[x] \in Nat
    BY <1>1, <1>2, <2>1
  <2>3. elem_compare(cnt, x, hbt.h[1]) <= 0 <=> Opposite
    BY <2>1, <2>2, BothWays DEF Opposite, x
  <2>4. CASE Opposite
    <3>1. hbt' = hbt
      BY <2>1, <2>3, <2>4 DEF heap_replace_least
    <3> QED
      BY <1>1, <2>1, <2>4, <3>1 DEF ElementsKept
  <2>5. CASE ~Opposite
    <3>1. ~ (elem_compare(cnt, x, hbt.h[1]) <= 0)
      BY <2>3, <2>5
    <3>2. IsInjective(hbt'.h) /\ TakesRoot(hbt, x, hbt')
      BY <1>1, <1>2, <2>1, <3>1, ReplaceIs DEF n
    <3>3. ToSet(hbt'.h) = (ToSet(hbt.h) \ {hbt.h[1]}) \cup {x}
      BY <3>2 DEF TakesRoot
    <3> QED
      BY <2>1, <2>5, <3>2, <3>3 DEF ElementsKept, x
  <2> QED
    BY <2>4, <2>5
<1>6. CASE delete
  <2>1. hbt' = heap_delete(hbt, cnt) /\ call' = "delete" /\ n > 0
    BY <1>6 DEF delete, n
  <2> DEFINE m == n - 1
  <2>2. m \in Nat /\ m + 1 = Len(hbt.h)
    BY <1>2, <2>1 DEF n
  <2> HIDE DEF m
  <2>3. IsInjective(hbt'.h) /\ LosesRoot(hbt, hbt')
    BY <1>1, <2>1, <2>2, DeleteIs
  <2>4. ToSet(hbt'.h) = ToSet(hbt.h) \ {hbt.h[1]}
    BY <2>3 DEF LosesRoot
  <2> QED
    BY <2>1, <2>3, <2>4 DEF ElementsKept
<1>7. CASE sort
  <2>1. call' = "sort" /\ hbt' = [hbt EXCEPT !.h = heap_sort(hbt, cnt)]
    BY <1>7 DEF sort
  <2>2. hbt'.h = heap_sort(hbt, cnt)
    BY <1>1, <2>1 DEF Heaps
  <2>3. ToSet(hbt'.h) = ToSet(hbt.h) /\ IsInjective(hbt'.h)
    BY <1>1, <1>2, <2>2, SortIs
  <2> QED
    BY <2>1, <2>3 DEF ElementsKept
<1> QED
  BY <1>3, <1>4, <1>5, <1>6, <1>7 DEF HeapNext

\* No call loses, invents or duplicates an entry, whatever the counts.
THEOREM ElementsTheorem ==
  HeapSpec => KeepsElements
BY HeapAlways, ElementsStep, PTL DEF HeapSpec, KeepsElements

-----------------------------------------------------------------------------
(* Lists.                                                                  *)

\* e in front of l.
LEMMA Consed ==
  ASSUME NEW E, NEW l \in Seq(E), NEW e \in E, NEW t, t = <<e>> \o l
  PROVE  /\ t \in Seq(E) /\ Len(t) = Len(l) + 1 /\ t[1] = e
         /\ \A i \in 1 .. Len(l) : t[i + 1] = l[i]
<1>1. <<e>> \in Seq(E) /\ Len(<<e>>) = 1 /\ Len(l) \in Nat
  OBVIOUS
<1>2. /\ t \in Seq(E) /\ Len(t) = 1 + Len(l)
      /\ \A i \in 1 .. 1 + Len(l) : t[i] = IF i <= 1 THEN <<e>>[i] ELSE l[i - 1]
  BY <1>1, ConcatProperties
<1>3. \A i \in 1 .. Len(l) : i + 1 \in 1 .. 1 + Len(l) /\ ~ (i + 1 <= 1) /\ (i + 1) - 1 = i
  BY <1>1
<1> QED
  BY <1>1, <1>2, <1>3

\* The entries of l, e in front of them.
LEMMA ConsedSet ==
  ASSUME NEW E, NEW l \in Seq(E), NEW e \in E, NEW t, t = <<e>> \o l
  PROVE  /\ ToSet(t) = ToSet(l) \cup {e}
         /\ IsInjective(l) /\ e \notin ToSet(l) => IsInjective(t)
<1> DEFINE n == Len(l)
<1>1. /\ t \in Seq(E) /\ Len(t) = n + 1 /\ t[1] = e /\ n \in Nat
      /\ \A i \in 1 .. n : t[i + 1] = l[i]
  BY Consed
<1>2. \A k \in 1 .. n + 1 : k = 1 \/ (k - 1 \in 1 .. n /\ t[k] = l[k - 1])
  <2>1. ASSUME NEW k \in 1 .. n + 1, k # 1 PROVE k - 1 \in 1 .. n /\ (k - 1) + 1 = k
    BY <1>1, <2>1
  <2> QED
    BY <1>1, <2>1
<1>3. \A v : v \in ToSet(l) <=> \E i \in 1 .. n : v = l[i]
  BY DEF ToSet
<1>4. \A v : v \in ToSet(t) <=> \E k \in 1 .. n + 1 : v = t[k]
  <2>1. DOMAIN t = 1 .. n + 1
    BY <1>1
  <2> QED
    BY <2>1 DEF ToSet
<1>5. 1 \in 1 .. n + 1 /\ \A i \in 1 .. n : i + 1 \in 1 .. n + 1
  BY <1>1
<1> HIDE DEF n
<1>6. ASSUME NEW v PROVE v \in ToSet(t) <=> v \in ToSet(l) \cup {e}
  <2>1. (\E k \in 1 .. n + 1 : v = t[k]) => v = e \/ \E i \in 1 .. n : v = l[i]
    BY <1>1, <1>2
  <2>2. (\E i \in 1 .. n : v = l[i]) => \E k \in 1 .. n + 1 : v = t[k]
    BY <1>1, <1>5
  <2>3. v = e => \E k \in 1 .. n + 1 : v = t[k]
    BY <1>1, <1>5
  <2> QED
    BY <1>3, <1>4, <2>1, <2>2, <2>3
<1>7. ASSUME IsInjective(l), e \notin ToSet(l) PROVE IsInjective(t)
  <2>1. \A i, j \in 1 .. n : l[i] = l[j] => i = j
    BY <1>7 DEF IsInjective, n
  <2>2. ASSUME NEW j \in 1 .. n + 1, NEW k \in 1 .. n + 1, t[j] = t[k] PROVE j = k
    <3>1. CASE j = 1 \/ k = 1
      BY <1>1, <1>2, <1>3, <1>7, <2>2, <3>1
    <3>2. CASE j # 1 /\ k # 1
      <4>1. j - 1 = k - 1
        BY <1>2, <2>1, <2>2, <3>2
      <4> QED
        BY <1>1, <4>1
    <3> QED
      BY <3>1, <3>2
  <2> QED
    BY <1>1, <2>2 DEF IsInjective
<1> QED
  BY <1>6, <1>7

\* t is l with the entry at k moved to the front.
Fronted(l, k, t) ==
  /\ Len(t) = Len(l) /\ t[1] = l[k]
  /\ \A i \in 2 .. Len(l) : t[i] = IF i <= k THEN l[i - 1] ELSE l[i]

LEMMA FrontedIs ==
  ASSUME NEW E, NEW l \in Seq(E), NEW k \in 1 .. Len(l), NEW t, t = <<l[k]>> \o RemoveAt(l, k)
  PROVE  t \in Seq(E) /\ Fronted(l, k, t)
<1> DEFINE n == Len(l)
           a == SubSeq(l, 1, k - 1)
           b == SubSeq(l, k + 1, n)
           r == a \o b
           e == l[k]
<1>1. n \in Nat /\ k \in 1 .. n /\ e \in E
  OBVIOUS
<1>2. a \in Seq(E) /\ Len(a) = k - 1 /\ \A i \in 1 .. k - 1 : a[i] = l[i]
  BY <1>1, SubSeqProperties
<1>3. b \in Seq(E) /\ Len(b) = n - k /\ \A i \in 1 .. n - k : b[i] = l[k + i]
  BY <1>1, SubSeqProperties
<1>4. t = <<e>> \o r
  BY DEF RemoveAt
<1> HIDE DEF a, b, e
<1>5. r \in Seq(E) /\ Len(r) = n - 1 /\ \A i \in 1 .. n - 1 : r[i] = IF i <= k - 1 THEN a[i] ELSE b[i - (k - 1)]
  <2>1. /\ r \in Seq(E) /\ Len(r) = Len(a) + Len(b)
        /\ \A i \in 1 .. Len(a) + Len(b) : r[i] = IF i <= Len(a) THEN a[i] ELSE b[i - Len(a)]
    BY <1>2, <1>3, ConcatProperties
  <2>2. Len(a) + Len(b) = n - 1
    BY <1>1, <1>2, <1>3
  <2> QED
    BY <1>2, <2>1, <2>2
<1> HIDE DEF n, r
<1>6. ASSUME NEW i \in 1 .. n - 1 PROVE r[i] = IF i <= k - 1 THEN l[i] ELSE l[i + 1]
  <2>1. CASE i <= k - 1
    BY <1>1, <1>2, <1>5, <2>1
  <2>2. CASE ~ (i <= k - 1)
    <3>1. i - (k - 1) \in 1 .. n - k /\ k + (i - (k - 1)) = i + 1
      BY <1>1, <2>2
    <3>2. b[i - (k - 1)] = l[k + (i - (k - 1))]
      BY <1>3, <3>1
    <3> QED
      BY <1>5, <2>2, <3>1, <3>2
  <2> QED
    BY <2>1, <2>2
<1>7. /\ t \in Seq(E) /\ Len(t) = Len(r) + 1 /\ t[1] = e
      /\ \A i \in 1 .. Len(r) : t[i + 1] = r[i]
  <2>1. \A u : u = <<e>> \o r => /\ u \in Seq(E) /\ Len(u) = Len(r) + 1 /\ u[1] = e
                                 /\ \A i \in 1 .. Len(r) : u[i + 1] = r[i]
    <3>1. ASSUME NEW u, u = <<e>> \o r
          PROVE  /\ u \in Seq(E) /\ Len(u) = Len(r) + 1 /\ u[1] = e
                 /\ \A i \in 1 .. Len(r) : u[i + 1] = r[i]
      <4>1. r \in Seq(E)
        BY <1>5
      <4> QED
        BY <1>1, <3>1, <4>1, Consed
    <3> QED
      BY <3>1
  <2> QED
    BY <1>4, <2>1
<1>8. ASSUME NEW i \in 2 .. n PROVE t[i] = IF i <= k THEN l[i - 1] ELSE l[i]
  <2>1. i - 1 \in 1 .. n - 1 /\ (i - 1) + 1 = i /\ (i - 1 <= k - 1 <=> i <= k)
    BY <1>1
  <2>2. t[i] = r[i - 1]
    BY <1>5, <1>7, <2>1
  <2> QED
    BY <1>6, <2>1, <2>2
<1>9. Len(t) = n
  BY <1>1, <1>5, <1>7
<1> QED
  BY <1>7, <1>8, <1>9 DEF Fronted, n, e

\* Moving an entry to the front keeps all.
LEMMA FrontedSet ==
  ASSUME NEW E, NEW l \in Seq(E), NEW k \in 1 .. Len(l), NEW t \in Seq(E), Fronted(l, k, t)
  PROVE  ToSet(t) = ToSet(l) /\ (IsInjective(l) => IsInjective(t))
<1> DEFINE n == Len(l)
           from(i) == IF i = 1 THEN k ELSE IF i <= k THEN i - 1 ELSE i
           to(j) == IF j = k THEN 1 ELSE IF j < k THEN j + 1 ELSE j
<1>1. n \in Nat /\ k \in 1 .. n
  OBVIOUS
<1>2. \A i \in 1 .. n : from(i) \in 1 .. n /\ to(from(i)) = i
  BY <1>1
<1>3. \A j \in 1 .. n : to(j) \in 1 .. n /\ from(to(j)) = j
  BY <1>1
<1>4. \A i \in 1 .. n : t[i] = l[from(i)]
  BY <1>1 DEF Fronted
<1>5. Len(t) = n
  BY DEF Fronted
<1> HIDE DEF from, to
<1>6. \A v : v \in ToSet(l) <=> \E i \in 1 .. n : v = l[i]
  BY DEF ToSet
<1>7. \A v : v \in ToSet(t) <=> \E i \in 1 .. n : v = t[i]
  BY <1>5 DEF ToSet
<1> HIDE DEF n
<1>8. \A j \in 1 .. n : l[j] = t[to(j)]
  BY <1>3, <1>4
<1>9. ASSUME NEW v PROVE v \in ToSet(t) <=> v \in ToSet(l)
  BY <1>2, <1>3, <1>4, <1>6, <1>7, <1>8
<1>10. ASSUME IsInjective(l) PROVE IsInjective(t)
  <2>1. \A i, j \in 1 .. n : l[i] = l[j] => i = j
    BY <1>10 DEF IsInjective, n
  <2>2. \A i, j \in 1 .. n : t[i] = t[j] => i = j
    BY <1>2, <1>4, <2>1
  <2> QED
    BY <1>5, <2>2 DEF IsInjective
<1> QED
  BY <1>9, <1>10

-----------------------------------------------------------------------------
(* NameTree: the heap after a name was counted.                            *)

\* q has at least the entries p has, none but those and s, and no heap_index beyond
\* its end that is not beyond the end of p.
RankBounds(p, s, q) ==
  /\ Len(p.h) <= Len(q.h) /\ Len(q.h) <= Roof
  /\ \A k \in 1 .. Len(q.h) : q.h[k] = s \/ \E j \in 1 .. Len(p.h) : q.h[k] = p.h[j]
  /\ \A e \in Slot : q.idx[e] = p.idx[e] \/ q.idx[e] \in 1 .. Len(q.h)

\* Whatever is in the heap: it does not outgrow its roof.
LEMMA RankedBounds ==
  ASSUME NEW p \in Heaps(Slot), NEW c, NEW s \in Slot,
         Len(p.h) <= Roof, \A e \in Slot : p.idx[e] <= Len(p.h),
         NEW q, q = Ranked(p, c, s)
  PROVE  q \in Heaps(Slot) /\ RankBounds(p, s, q)
<1> DEFINE n == Len(p.h)
<1>1. p.h \in Seq(Slot) /\ n \in Nat /\ p.idx \in [Slot -> Nat] /\ Roof \in Nat /\ Roof > 0
  BY SizeAssumption DEF Heaps
<1>2. CASE p.idx[s] # 0
  <2>1. p.idx[s] \in 1 .. Len(p.h)
    BY <1>1, <1>2
  <2>2. q = heap_adjust_siftdown(p, c, p.idx[s])
    BY <1>2 DEF Ranked
  <2> DEFINE i == p.idx[s]
  <2> HIDE DEF i
  <2>3. i \in 1 .. Len(p.h) /\ q = heap_adjust_siftdown(p, c, i)
    BY <2>1, <2>2 DEF i
  <2>4. q \in Heaps(Slot) /\ Bounded(p, p.h[i], q)
    BY <2>3, SiftdownIs
  <2> QED
    BY <1>1, <2>3, <2>4 DEF Bounded, RankBounds
<1>3. CASE p.idx[s] = 0 /\ Len(p.h) < Roof
  <2>1. q = heap_insert(p, c, s)
    BY <1>3 DEF Ranked
  <2> DEFINE m == Len(p.h) + 1
  <2>2. m \in Nat /\ m = Len(p.h) + 1 /\ Len(p.h) <= m /\ m <= Roof
    BY <1>1, <1>3
  <2> HIDE DEF m
  <2>3. /\ q \in Heaps(Slot) /\ Len(q.h) = m
        /\ \A k \in 1 .. m : q.h[k] = s \/ \E j \in 1 .. Len(p.h) : q.h[k] = p.h[j]
        /\ \A e \in Slot : q.idx[e] = p.idx[e] \/ q.idx[e] \in 1 .. m
    BY <2>1, <2>2, InsertIs
  <2> QED
    BY <1>1, <2>2, <2>3 DEF RankBounds
<1>4. CASE p.idx[s] = 0 /\ ~ (Len(p.h) < Roof)
  <2>1. n > 0 /\ n = Roof
    BY <1>1, <1>4
  <2>2. q = p \/ (~ (elem_compare(c, s, p.h[1]) <= 0) /\ q = heap_replace_least(p, c, s))
    BY <1>4 DEF Ranked, heap_replace_least
  <2>3. CASE q = p
    BY <1>1, <2>3 DEF RankBounds
  <2>4. CASE ~ (elem_compare(c, s, p.h[1]) <= 0) /\ q = heap_replace_least(p, c, s)
    <3>1. q \in Heaps(Slot) /\ Bounded(p, s, q)
      BY <1>1, <2>1, <2>4, ReplaceIs
    <3> QED
      BY <1>1, <3>1 DEF Bounded, RankBounds
  <2> QED
    BY <2>2, <2>3, <2>4
<1> QED
  BY <1>2, <1>3, <1>4

\* Counts of names are less than 2^31 apart.
LEMMA CountsCompare ==
  ASSUME NEW c \in [Slot -> 0 .. MaxInserts]
  PROVE  Comparable(c, Slot) /\ \A s \in Slot : c[s] \in Nat
<1>1. MaxInserts \in Nat /\ SignBit \in Nat /\ MaxInserts < SignBit
  BY SizeAssumption, SignBitAssumption
<1>2. \A s \in Slot : c[s] \in 0 .. MaxInserts
  OBVIOUS
<1>3. \A s \in Slot : c[s] \in Nat /\ c[s] <= MaxInserts
  BY <1>1, <1>2
<1> QED
  BY <1>1, <1>3 DEF Comparable

\* The order of a heap depends on the counts of its entries.
LEMMA SameOrder ==
  ASSUME NEW h, NEW c, NEW d, NEW n \in Nat, InOrder(h, d, n),
         \A k \in 1 .. n : c[h[k]] = d[h[k]]
  PROVE  InOrder(h, c, n)
<1>1. \A k \in 2 .. n : k \in 1 .. n /\ k \div 2 \in 1 .. n
  BY Parent
<1> QED
  BY <1>1 DEF InOrder

\* Only the count of s has grown.
Counted(d, c, s) == d[s] <= c[s] /\ \A e \in Slot : e # s => c[e] = d[e]

\* Every heap_index is right, none beyond the end, and no entry is there twice.
Placed(p) ==
  /\ p \in Heaps(Slot) /\ IsInjective(p.h) /\ Exact(p)
  /\ Len(p.h) <= Roof /\ \A e \in Slot : p.idx[e] <= Len(p.h)

\* A name that has a heap_index stays where the heap is: what it is sifted from may
\* also be the place it had when it was evicted.
LEMMA RankedSift ==
  ASSUME NEW p, Placed(p), NEW d \in [Slot -> 0 .. MaxInserts], NEW c \in [Slot -> 0 .. MaxInserts],
         NEW s \in Slot, Counted(d, c, s), p.idx[s] # 0,
         NEW q, q = Ranked(p, c, s)
  PROVE  /\ IsInjective(q.h) /\ Exact(q) /\ Len(q.h) = Len(p.h)
         /\ \A v : v \in ToSet(q.h) <=> v \in ToSet(p.h)
         /\ InOrder(p.h, d, Len(p.h)) => InOrder(q.h, c, Len(q.h))
<1> DEFINE n == Len(p.h)
           i == p.idx[s]
<1>1. /\ p \in Heaps(Slot) /\ p.h \in Seq(Slot) /\ n \in Nat /\ IsInjective(p.h) /\ Exact(p)
      /\ i \in 1 .. n /\ \A k \in 1 .. n : p.h[k] \in Slot
  <2>1. p \in Heaps(Slot) /\ p.h \in Seq(Slot) /\ p.idx \in [Slot -> Nat]
    BY DEF Placed, Heaps
  <2>2. i \in Nat /\ i # 0 /\ i <= n /\ n \in Nat
    BY <2>1 DEF Placed
  <2> QED
    BY <2>1, <2>2 DEF Placed
<1>2. q = heap_adjust_siftdown(p, c, i)
  BY DEF Ranked
<1>3. \A k \in 1 .. n : k # i => p.h[k] # s
  BY <1>1 DEF Exact
<1> HIDE DEF i, n
<1>4. i \in 1 .. Len(p.h)
  BY <1>1 DEF n
<1>5. /\ q \in Heaps(Slot) /\ Bounded(p, p.h[i], q)
      /\ IsInjective(q.h) /\ \A v : v \in ToSet(q.h) <=> v \in ToSet(p.h)
      /\ Exact(q)
      /\ Comparable(c, Slot) /\ InOrderBut(p.h, c, Len(p.h), i, p.h[i]) => InOrder(q.h, c, Len(p.h))
  BY <1>1, <1>2, <1>4, SiftdownIs
<1>6. Len(q.h) = Len(p.h)
  BY <1>5 DEF Bounded
<1>7. ASSUME InOrder(p.h, d, n) PROVE InOrder(q.h, c, n)
  <2>1. \A k \in 1 .. n : d[p.h[k]] \in Nat /\ c[p.h[k]] \in Nat
    BY <1>1, CountsCompare
  <2>2. \A k \in 1 .. n : k # i => c[p.h[k]] = d[p.h[k]]
    BY <1>1, <1>3 DEF Counted
  <2>3. d[p.h[i]] <= c[p.h[i]]
    <3>1. CASE p.h[i] = s
      BY <3>1 DEF Counted
    <3>2. CASE p.h[i] # s
      BY <1>1, <2>1, <3>2 DEF Counted
    <3> QED
      BY <3>1, <3>2
  <2>4. InOrderBut(p.h, c, n, i, p.h[i])
    BY <1>1, <1>7, <2>1, <2>2, <2>3, RaisedIs
  <2> QED
    BY <1>5, <2>4, CountsCompare DEF n
<1> QED
  BY <1>5, <1>6, <1>7 DEF n

\* An entry with no heap_index is not in the heap.
LEMMA NotPlaced ==
  ASSUME NEW p, Placed(p), NEW s \in Slot, p.idx[s] = 0
  PROVE  s \notin ToSet(p.h) /\ \A k \in 1 .. Len(p.h) : p.h[k] # s
<1>1. p.h \in Seq(Slot) /\ \A k \in 1 .. Len(p.h) : p.idx[p.h[k]] = k
  BY DEF Placed, Heaps, Exact
<1>2. \A k \in 1 .. Len(p.h) : p.h[k] # s
  BY <1>1
<1> QED
  BY <1>1, <1>2 DEF ToSet

\* A name without one is put into a heap that is not full.
LEMMA RankedInsert ==
  ASSUME NEW p, Placed(p), NEW d \in [Slot -> 0 .. MaxInserts], NEW c \in [Slot -> 0 .. MaxInserts],
         NEW s \in Slot, Counted(d, c, s), p.idx[s] = 0, Len(p.h) < Roof,
         NEW n \in Nat, n = Len(p.h) + 1,
         NEW q, q = Ranked(p, c, s)
  PROVE  /\ IsInjective(q.h) /\ Exact(q) /\ Len(q.h) = n /\ Gains(p, s, q)
         /\ InOrder(p.h, d, Len(p.h)) => RisesOnce(p, c, s, n, q)
<1>1. p \in Heaps(Slot) /\ p.h \in Seq(Slot) /\ IsInjective(p.h) /\ Exact(p) /\ Len(p.h) \in Nat
      /\ \A k \in 1 .. Len(p.h) : p.h[k] \in Slot
  BY DEF Placed, Heaps
<1>2. q = heap_insert(p, c, s)
  BY DEF Ranked
<1>3. s \notin ToSet(p.h) /\ \A k \in 1 .. Len(p.h) : p.h[k] # s
  BY NotPlaced
<1>4. InOrder(p.h, d, Len(p.h)) => InOrder(p.h, c, Len(p.h))
  <2>1. \A k \in 1 .. Len(p.h) : c[p.h[k]] = d[p.h[k]]
    BY <1>1, <1>3 DEF Counted
  <2> QED
    BY <1>1, <2>1, SameOrder
<1>5. Comparable(c, Slot)
  BY CountsCompare
<1> QED
  BY <1>1, <1>2, <1>3, <1>4, <1>5, InsertIs

\* In a full heap it takes the place of the root, or does not get in.
LEMMA RankedFull ==
  ASSUME NEW p, Placed(p), NEW d \in [Slot -> 0 .. MaxInserts], NEW c \in [Slot -> 0 .. MaxInserts],
         NEW s \in Slot, Counted(d, c, s), p.idx[s] = 0, ~ (Len(p.h) < Roof),
         NEW q, q = Ranked(p, c, s)
  PROVE  /\ IsInjective(q.h) /\ Exact(q) /\ Len(q.h) = Len(p.h)
         /\ \/ q = p /\ c[s] <= c[p.h[1]]
            \/ TakesRoot(p, s, q) /\ c[p.h[1]] < c[s]
         /\ InOrder(p.h, d, Len(p.h)) => InOrder(q.h, c, Len(p.h))
<1> DEFINE n == Len(p.h)
<1>1. p \in Heaps(Slot) /\ p.h \in Seq(Slot) /\ IsInjective(p.h) /\ Exact(p) /\ n \in Nat
      /\ n > 0 /\ \A k \in 1 .. n : p.h[k] \in Slot
  <2>1. p \in Heaps(Slot) /\ p.h \in Seq(Slot) /\ IsInjective(p.h) /\ Exact(p)
    BY DEF Placed, Heaps
  <2> QED
    BY <2>1, SizeAssumption
<1>2. q = IF elem_compare(c, p.h[1], s) < 0 THEN heap_replace_least(p, c, s) ELSE p
  BY DEF Ranked, heap_min_less_than
<1>3. s \notin ToSet(p.h) /\ \A k \in 1 .. n : p.h[k] # s
  BY NotPlaced
<1>4. InOrder(p.h, d, n) => InOrder(p.h, c, n)
  <2>1. \A k \in 1 .. n : c[p.h[k]] = d[p.h[k]]
    BY <1>1, <1>3 DEF Counted
  <2> QED
    BY <1>1, <2>1, SameOrder
<1>5. Comparable(c, Slot)
  BY CountsCompare
<1> DEFINE r == p.h[1]
<1>6. r \in Slot
  BY <1>1
<1>7. c[r] \in Nat /\ c[s] \in Nat /\ elem_compare(c, r, s) = c[r] - c[s]
      /\ elem_compare(c, s, r) = c[s] - c[r]
  <2> HIDE DEF r
  <2> QED
    BY <1>5, <1>6, CompareIs
<1>8. CASE c[s] <= c[r]
  <2>1. q = p
    BY <1>2, <1>7, <1>8
  <2> QED
    BY <1>1, <1>4, <1>8, <2>1
<1>9. CASE ~ (c[s] <= c[r])
  <2>1. q = heap_replace_least(p, c, s) /\ ~ (elem_compare(c, s, p.h[1]) <= 0) /\ c[p.h[1]] < c[s]
    BY <1>2, <1>7, <1>9
  <2>2. n = Len(p.h)
    OBVIOUS
  <2> HIDE DEF r, n
  <2>3. /\ Bounded(p, s, q) /\ IsInjective(q.h) /\ TakesRoot(p, s, q) /\ Exact(q)
        /\ Comparable(c, Slot) /\ InOrder(p.h, c, n) => InOrder(q.h, c, n)
    BY <1>1, <1>3, <2>1, <2>2, ReplaceIs
  <2> QED
    BY <1>4, <1>5, <2>1, <2>2, <2>3 DEF Bounded
<1> QED
  BY <1>8, <1>9

-----------------------------------------------------------------------------
(* NameTree: the inductive invariant.                                      *)

\* The slots of the tree, of the list and of the free list.
SlotsKept ==
  /\ Slots <= inserts /\ inserts <= MaxInserts
  /\ IsInjective(freed) /\ IsInjective(lru)
  /\ ToSet(freed) \cap inTree = {}
  /\ \A s \in Slot : s <= Slots <=> s \in ToSet(freed) \/ s \in inTree
  /\ ToSet(lru) \subseteq inTree
  /\ total = Cardinality(inTree)

\* The names of the slots: a name that fits is in the tree once, an EdgeName is
\* overrun for as long as it is there and cannot be found to be counted again.
NamesKept ==
  /\ \A s \in inTree : fqdn[s] \in Name \cup EdgeName
  /\ \A s \in inTree : s \notin ToSet(lru) => fqdn[s] \in EdgeName
  /\ \A s \in inTree : fqdn[s] \in EdgeName => count[s] = 1
  /\ \A s, t \in inTree : fqdn[s] \in Name /\ fqdn[s] = fqdn[t] => s = t
  /\ \A s \in Slot : count[s] <= inserts

\* A heap of the first m slots.
Fits(p, m) ==
  /\ p \in Heaps(Slot) /\ Len(p.h) <= Roof
  /\ \A v : v \in ToSet(p.h) => v \in 1 .. m
  /\ \A s \in Slot : p.idx[s] <= Len(p.h)

\* Every heap_index is right, and all slots of T are there while there is room.
Once(p, T) ==
  /\ IsInjective(p.h) /\ Exact(p)
  /\ Len(p.h) < Roof => \A v : v \in ToSet(p.h) <=> v \in T

\* It is in order, and a name without a heap_index was not seen more often than its
\* first.
Sorted(p, c, T) ==
  /\ InOrder(p.h, c, Len(p.h))
  /\ \A s \in T : p.idx[s] = 0 => Len(p.h) = Roof /\ c[s] <= c[p.h[1]]

\* The heap at any time, until names are recycled, and until a new name sinks.
HeapKept == Fits(hp, Slots)
HeapOnce == ~recycled => freed = <<>> /\ Once(hp, inTree)
HeapOrder == ~recycled /\ ~sunk => Sorted(hp, count, inTree)

TreeInv == TypeOK /\ SlotsKept /\ NamesKept /\ HeapKept /\ HeapOnce /\ HeapOrder

-----------------------------------------------------------------------------
(* Slots of the pool.                                                      *)

LEMMA TreeFinite ==
  ASSUME NEW T \in SUBSET Slot
  PROVE  IsFiniteSet(T) /\ Cardinality(T) \in Nat
<1>1. IsFiniteSet(Slot)
  BY SizeAssumption, FS_Interval DEF Slot
<1> QED
  BY <1>1, FS_Subset, FS_CardinalityType

\* The list without entries.
LEMMA NoEntries ==
  /\ \A E : <<>> \in Seq(E)
  /\ Len(<<>>) = 0 /\ IsInjective(<<>>) /\ \A v : v \notin ToSet(<<>>)
<1>1. Len(<<>>) = 0 /\ DOMAIN <<>> = 1 .. 0
  OBVIOUS
<1>2. \A v : v \notin 1 .. 0
  OBVIOUS
<1>3. IsInjective(<<>>)
  BY <1>1, <1>2 DEF IsInjective
<1>4. \A v : v \notin ToSet(<<>>)
  BY <1>1, <1>2 DEF ToSet
<1> QED
  BY <1>1, <1>3, <1>4

\* The first entry and the others.
LEMMA TailIs ==
  ASSUME NEW E, NEW l \in Seq(E), l # <<>>, IsInjective(l), NEW f, f = Tail(l)
  PROVE  /\ Head(l) \in E /\ Head(l) \in ToSet(l) /\ Len(l) \in Nat /\ Len(l) > 0
         /\ f \in Seq(E) /\ Len(f) = Len(l) - 1 /\ IsInjective(f)
         /\ \A v : v \in ToSet(f) <=> v \in ToSet(l) /\ v # Head(l)
<1> DEFINE n == Len(l)
<1>1. n \in Nat /\ n > 0 /\ Head(l) = l[1] /\ l[1] \in E /\ 1 \in 1 .. n
  OBVIOUS
<1>2. f \in Seq(E) /\ Len(f) = n - 1 /\ \A i \in 1 .. n - 1 : f[i] = l[i + 1]
  BY <1>1
<1>3. \A i, j \in 1 .. n : l[i] = l[j] => i = j
  BY DEF IsInjective
<1>4. \A v : v \in ToSet(l) <=> \E i \in 1 .. n : v = l[i]
  BY DEF ToSet
<1>5. \A v : v \in ToSet(f) <=> \E i \in 1 .. n - 1 : v = f[i]
  <2>1. DOMAIN f = 1 .. n - 1
    BY <1>2
  <2> QED
    BY <2>1 DEF ToSet
<1> HIDE DEF n
<1>6. \A i \in 1 .. n - 1 : i + 1 \in 1 .. n /\ i + 1 # 1
  BY <1>1
<1>7. \A i \in 1 .. n : i # 1 => i - 1 \in 1 .. n - 1 /\ (i - 1) + 1 = i
  BY <1>1
<1>8. IsInjective(f)
  <2>1. \A i, j \in 1 .. n - 1 : f[i] = f[j] => i = j
    <3>1. ASSUME NEW i \in 1 .. n - 1, NEW j \in 1 .. n - 1, f[i] = f[j] PROVE i = j
      <4>1. i + 1 = j + 1
        BY <1>2, <1>3, <1>6, <3>1
      <4> QED
        BY <4>1
    <3> QED
      BY <3>1
  <2> QED
    BY <1>2, <2>1 DEF IsInjective
<1>9. ASSUME NEW v PROVE v \in ToSet(f) <=> v \in ToSet(l) /\ v # Head(l)
  <2>1. ASSUME NEW i \in 1 .. n - 1, v = f[i] PROVE v \in ToSet(l) /\ v # Head(l)
    BY <1>1, <1>2, <1>3, <1>4, <1>6, <2>1
  <2>2. ASSUME NEW i \in 1 .. n, v = l[i], v # Head(l) PROVE \E j \in 1 .. n - 1 : v = f[j]
    <3>1. i # 1
      BY <1>1, <2>2
    <3>2. i - 1 \in 1 .. n - 1 /\ f[i - 1] = v
      BY <1>2, <1>7, <2>2, <3>1
    <3> QED
      BY <3>2
  <2> QED
    BY <1>4, <1>5, <2>1, <2>2
<1>10. Head(l) \in ToSet(l)
  BY <1>1, <1>4
<1> QED
  BY <1>1, <1>2, <1>8, <1>9, <1>10 DEF n

\* The last entry and the others.
LEMMA FrontIs ==
  ASSUME NEW E, NEW l \in Seq(E), l # <<>>, IsInjective(l), NEW f, f = Front(l)
  PROVE  /\ Last(l) \in E /\ Last(l) \in ToSet(l) /\ Len(l) \in Nat /\ Len(l) > 0 /\ Last(l) = l[Len(l)]
         /\ f \in Seq(E) /\ Len(f) = Len(l) - 1 /\ IsInjective(f)
         /\ \A i \in 1 .. Len(l) - 1 : f[i] = l[i]
         /\ \A v : v \in ToSet(f) <=> v \in ToSet(l) /\ v # Last(l)
<1> DEFINE n == Len(l)
<1>1. n \in Nat /\ n > 0 /\ Last(l) = l[n] /\ l[n] \in E /\ n \in 1 .. n
  BY DEF Last
<1>2. f \in Seq(E) /\ Len(f) = n - 1 /\ \A i \in 1 .. n - 1 : f[i] = l[i]
  <2>1. f = SubSeq(l, 1, n - 1) /\ 1 \in 1 .. n + 1 /\ n - 1 \in 1 - 1 .. n /\ (n - 1) - 1 + 1 = n - 1
    BY <1>1 DEF Front
  <2> DEFINE m == n - 1
  <2>2. f = SubSeq(l, 1, m) /\ m \in Nat /\ m \in 0 .. n /\ \A i \in 1 .. m : i \in 1 .. n
    BY <1>1, <2>1
  <2> HIDE DEF m
  <2>3. f = [i \in 1 .. m |-> l[i]]
    BY <1>1, <2>2
  <2>4. f \in Seq(E) /\ Len(f) = m /\ \A i \in 1 .. m : f[i] = l[i]
    <3>1. \A i \in 1 .. m : l[i] \in E
      BY <2>2
    <3> QED
      BY <2>2, <2>3, <3>1
  <2> QED
    BY <2>4 DEF m
<1>3. \A i, j \in 1 .. n : l[i] = l[j] => i = j
  BY DEF IsInjective
<1>4. \A v : v \in ToSet(l) <=> \E i \in 1 .. n : v = l[i]
  BY DEF ToSet
<1>5. \A v : v \in ToSet(f) <=> \E i \in 1 .. n - 1 : v = f[i]
  <2>1. DOMAIN f = 1 .. n - 1
    BY <1>2
  <2> QED
    BY <2>1 DEF ToSet
<1> HIDE DEF n
<1>6. \A i \in 1 .. n - 1 : i \in 1 .. n /\ i # n
  BY <1>1
<1>7. \A i \in 1 .. n : i # n => i \in 1 .. n - 1
  BY <1>1
<1>8. IsInjective(f)
  <2>1. \A i, j \in 1 .. n - 1 : f[i] = f[j] => i = j
    BY <1>2, <1>3, <1>6
  <2> QED
    BY <1>2, <2>1 DEF IsInjective
<1>9. ASSUME NEW v PROVE v \in ToSet(f) <=> v \in ToSet(l) /\ v # Last(l)
  <2>1. ASSUME NEW i \in 1 .. n - 1, v = f[i] PROVE v \in ToSet(l) /\ v # Last(l)
    BY <1>1, <1>2, <1>3, <1>4, <1>6, <2>1
  <2>2. ASSUME NEW i \in 1 .. n, v = l[i], v # Last(l) PROVE \E j \in 1 .. n - 1 : v = f[j]
    BY <1>1, <1>2, <1>7, <2>2
  <2> QED
    BY <1>4, <1>5, <2>1, <2>2
<1>10. Last(l) \in ToSet(l)
  BY <1>1, <1>4
<1> QED
  BY <1>1, <1>2, <1>8, <1>9, <1>10 DEF n

\* A slot taken from the pool is one that is not in the tree, and the slots of the
\* tree and of the free list are still the first ones.
Taken(s, f, T, m) ==
  /\ s = mem_pool_alloc /\ f = IF freed # <<>> THEN Tail(freed) ELSE <<>>
  /\ T = inTree \cup {s} /\ m = Cardinality(T) + Len(f)

LEMMA AllocIs ==
  ASSUME TypeOK, SlotsKept, inserts < MaxInserts, NEW s, NEW f, NEW T, NEW m, Taken(s, f, T, m)
  PROVE  /\ s \in Slot /\ s \notin inTree
         /\ f \in Seq(Slot) /\ IsInjective(f)
         /\ \A v : v \in ToSet(f) <=> v \in ToSet(freed) /\ v # s
         /\ (freed = <<>> => f = <<>>)
         /\ Cardinality(T) = Cardinality(inTree) + 1
         /\ m \in Nat /\ Slots <= m /\ m <= inserts + 1 /\ Slots \in Nat
         /\ \A v \in Slot : v <= m <=> v \in ToSet(f) \/ v \in T
<1>1. /\ IsFiniteSet(inTree) /\ Cardinality(inTree) \in Nat /\ freed \in Seq(Slot) /\ Len(freed) \in Nat
      /\ inTree \in SUBSET Slot /\ inserts \in Nat /\ MaxInserts \in Nat
      /\ Slots = Cardinality(inTree) + Len(freed) /\ Slots \in Nat
  BY TreeFinite, SizeAssumption DEF TypeOK, Slots
<1>0. /\ s = mem_pool_alloc /\ f = IF freed # <<>> THEN Tail(freed) ELSE <<>>
      /\ T = inTree \cup {s} /\ m = Cardinality(T) + Len(f)
  BY DEF Taken
<1>2. /\ IsInjective(freed) /\ ToSet(freed) \cap inTree = {} /\ Slots <= inserts
      /\ \A v \in Slot : v <= Slots <=> v \in ToSet(freed) \/ v \in inTree
  BY DEF SlotsKept
<1>3. CASE freed # <<>>
  <2>1. s = Head(freed) /\ f = Tail(freed)
    BY <1>0, <1>3 DEF mem_pool_alloc
  <2>2. /\ s \in Slot /\ s \in ToSet(freed) /\ Len(freed) > 0
        /\ f \in Seq(Slot) /\ Len(f) = Len(freed) - 1 /\ IsInjective(f)
        /\ \A v : v \in ToSet(f) <=> v \in ToSet(freed) /\ v # s
    <3>1. freed \in Seq(Slot) /\ freed # <<>> /\ IsInjective(freed)
      BY <1>1, <1>2, <1>3
    <3> QED
      BY <2>1, <3>1, TailIs
  <2>3. s \notin inTree
    BY <1>2, <2>2
  <2>4. Cardinality(T) = Cardinality(inTree) + 1
    BY <1>0, <1>1, <2>3, FS_AddElement
  <2>5. m = Slots
    BY <1>0, <1>1, <2>2, <2>4
  <2>6. \A v \in Slot : v <= m <=> v \in ToSet(f) \/ v \in T
    BY <1>0, <1>2, <2>2, <2>5
  <2>7. m \in Nat /\ Slots <= m /\ m <= inserts + 1
    BY <1>1, <1>2, <2>5
  <2> QED
    BY <1>1, <1>3, <2>2, <2>3, <2>4, <2>6, <2>7
<1>4. CASE freed = <<>>
  <2>1. s = Slots + 1 /\ f = <<>>
    BY <1>0, <1>4 DEF mem_pool_alloc
  <2>2. s \in Slot
    BY <1>1, <1>2, <2>1 DEF Slot
  <2>3. ~ (s <= Slots)
    BY <1>1, <2>1
  <2>4. s \notin inTree
    BY <1>2, <2>2, <2>3
  <2>5. Cardinality(T) = Cardinality(inTree) + 1
    BY <1>0, <1>1, <2>4, FS_AddElement
  <2>6. f \in Seq(Slot) /\ IsInjective(f) /\ Len(f) = 0 /\ \A v : v \notin ToSet(f)
    BY <2>1, NoEntries
  <2>7. Len(freed) = 0 /\ \A v : v \notin ToSet(freed)
    BY <1>4, NoEntries
  <2>8. m = Slots + 1
    BY <1>0, <1>1, <2>5, <2>6, <2>7
  <2>9. \A v \in Slot : v <= m <=> v <= Slots \/ v = s
    BY <1>1, <2>1, <2>8 DEF Slot
  <2>10. \A v \in Slot : v <= m <=> v \in ToSet(f) \/ v \in T
    BY <1>0, <1>2, <2>6, <2>7, <2>9
  <2>11. m \in Nat /\ Slots <= m /\ m <= inserts + 1
    BY <1>1, <1>2, <2>8
  <2> QED
    BY <1>1, <1>4, <2>1, <2>2, <2>4, <2>5, <2>6, <2>7, <2>10, <2>11
<1> QED
  BY <1>3, <1>4

-----------------------------------------------------------------------------
(* A step of the heap.                                                     *)

\* Whatever is counted, a heap of the first m slots remains one.
LEMMA RankedFits ==
  ASSUME NEW m \in Nat, NEW p, Fits(p, m), NEW c, NEW s \in Slot, s <= m,
         NEW q, q = Ranked(p, c, s)
  PROVE  Fits(q, m)
<1>1. p \in Heaps(Slot) /\ Len(p.h) <= Roof /\ \A e \in Slot : p.idx[e] <= Len(p.h)
  BY DEF Fits
<1>2. q \in Heaps(Slot) /\ RankBounds(p, s, q)
  BY <1>1, RankedBounds
<1>3. /\ p.h \in Seq(Slot) /\ p.idx \in [Slot -> Nat] /\ q.h \in Seq(Slot) /\ q.idx \in [Slot -> Nat]
      /\ Len(p.h) \in Nat /\ Len(q.h) \in Nat /\ Roof \in Nat
  BY <1>1, <1>2, SizeAssumption DEF Heaps
<1>4. s \in 1 .. m
  BY DEF Slot
<1>5. \A j \in 1 .. Len(p.h) : p.h[j] \in 1 .. m
  BY <1>3 DEF Fits, ToSet
<1>6. \A k \in 1 .. Len(q.h) : q.h[k] \in 1 .. m
  BY <1>2, <1>4, <1>5 DEF RankBounds
<1>7. \A v : v \in ToSet(q.h) => v \in 1 .. m
  BY <1>3, <1>6 DEF ToSet
<1>8. \A e \in Slot : q.idx[e] <= Len(q.h)
  <2>1. ASSUME NEW e \in Slot PROVE q.idx[e] <= Len(q.h)
    <3>1. p.idx[e] <= Len(p.h) /\ Len(p.h) <= Len(q.h) /\ p.idx[e] \in Nat
      BY <1>1, <1>2, <1>3 DEF RankBounds
    <3>2. q.idx[e] = p.idx[e] \/ q.idx[e] \in 1 .. Len(q.h)
      BY <1>2 DEF RankBounds
    <3> QED
      BY <1>3, <3>1, <3>2
  <2> QED
    BY <2>1
<1>9. Len(q.h) <= Roof
  BY <1>2 DEF RankBounds
<1> QED
  BY <1>2, <1>7, <1>8, <1>9 DEF Fits

\* A name that is counted stays in the heap once, and gets there while there is room.
LEMMA RankedOnce ==
  ASSUME NEW T, NEW p, Placed(p), Once(p, T),
         NEW d \in [Slot -> 0 .. MaxInserts], NEW c \in [Slot -> 0 .. MaxInserts],
         NEW s \in Slot, Counted(d, c, s), s \in T \/ p.idx[s] = 0,
         NEW q, q = Ranked(p, c, s), NEW U, U = T \cup {s}
  PROVE  Once(q, U)
<1>1. Len(p.h) \in Nat /\ Roof \in Nat /\ Len(p.h) <= Roof
  BY SizeAssumption DEF Placed, Heaps
<1>2. CASE p.idx[s] # 0
  <2>1. /\ IsInjective(q.h) /\ Exact(q) /\ Len(q.h) = Len(p.h)
        /\ \A v : v \in ToSet(q.h) <=> v \in ToSet(p.h)
    BY <1>2, RankedSift
  <2> QED
    BY <1>2, <2>1 DEF Once
<1>3. CASE p.idx[s] = 0 /\ Len(p.h) < Roof
  <2> DEFINE n == Len(p.h) + 1
  <2>1. n \in Nat /\ n = Len(p.h) + 1
    BY <1>1
  <2> HIDE DEF n
  <2>2. IsInjective(q.h) /\ Exact(q) /\ Len(q.h) = n /\ Gains(p, s, q)
    BY <1>3, <2>1, RankedInsert
  <2>3. \A v : v \in ToSet(q.h) <=> v \in U
    BY <1>3, <2>2 DEF Once, Gains
  <2> QED
    BY <2>2, <2>3 DEF Once
<1>4. CASE p.idx[s] = 0 /\ ~ (Len(p.h) < Roof)
  <2>1. IsInjective(q.h) /\ Exact(q) /\ Len(q.h) = Len(p.h)
    BY <1>4, RankedFull
  <2> QED
    BY <1>4, <2>1 DEF Once
<1> QED
  BY <1>2, <1>3, <1>4

\* The count of the root never falls, whatever takes its place.
LEMMA RootRises ==
  ASSUME NEW p, Placed(p), NEW d \in [Slot -> 0 .. MaxInserts], NEW c \in [Slot -> 0 .. MaxInserts],
         NEW s \in Slot, Counted(d, c, s), InOrder(p.h, d, Len(p.h)), Len(p.h) > 0,
         NEW v, v \in ToSet(p.h)
  PROVE  p.h[1] \in Slot /\ v \in Slot /\ d[p.h[1]] \in Nat /\ c[v] \in Nat /\ d[p.h[1]] <= c[v]
<1>1. p.h \in Seq(Slot) /\ Len(p.h) \in Nat /\ 1 \in 1 .. Len(p.h)
  BY DEF Placed, Heaps
<1>2. PICK k \in 1 .. Len(p.h) : v = p.h[k]
  BY <1>1 DEF ToSet
<1>3. \A j \in 1 .. Len(p.h) : p.h[j] \in Slot
  BY <1>1
<1>4. \A e \in Slot : d[e] \in Nat /\ c[e] \in Nat
  BY CountsCompare
<1>5. \A j \in 1 .. Len(p.h) : d[p.h[j]] \in Nat
  BY <1>3, <1>4
<1>6. d[p.h[1]] <= d[p.h[k]]
  BY <1>1, <1>2, <1>5, RootLeast
<1>7. v \in Slot /\ p.h[1] \in Slot
  BY <1>1, <1>2, <1>3
<1>8. d[v] <= c[v]
  <2>1. v = s \/ c[v] = d[v]
    BY <1>7 DEF Counted
  <2>2. d[s] <= c[s]
    BY DEF Counted
  <2> QED
    BY <1>4, <1>7, <2>1, <2>2
<1> QED
  BY <1>2, <1>4, <1>6, <1>7, <1>8

\* An entry of a heap whose every heap_index is right has one.
LEMMA ExactPlaces ==
  ASSUME NEW E, NEW q, q.h \in Seq(E), Exact(q), NEW s, s \in ToSet(q.h)
  PROVE  q.idx[s] # 0
<1>1. PICK k \in 1 .. Len(q.h) : s = q.h[k]
  BY DEF ToSet
<1>2. q.idx[s] = k
  BY <1>1 DEF Exact
<1>3. k # 0
  OBVIOUS
<1> QED
  BY <1>2, <1>3

\* It stays in order if a new entry is not less than the grandparent of its first place,
\* and then no name without a heap_index is seen more often than its first.
LEMMA RankedSorted ==
  ASSUME NEW T \in SUBSET Slot, NEW p, Placed(p), Once(p, T),
         NEW d \in [Slot -> 0 .. MaxInserts], NEW c \in [Slot -> 0 .. MaxInserts], Sorted(p, d, T),
         NEW s \in Slot, Counted(d, c, s), s \in T \/ p.idx[s] = 0,
         NEW n \in Nat, n = Len(p.h) + 1,
         p.idx[s] = 0 /\ Len(p.h) < Roof /\ n \div 4 > 0 => c[p.h[n \div 4]] <= c[s],
         NEW q, q = Ranked(p, c, s), NEW U, U = T \cup {s}
  PROVE  Sorted(q, c, U)
<1>1. /\ p \in Heaps(Slot) /\ p.h \in Seq(Slot) /\ Len(p.h) \in Nat /\ Roof \in Nat /\ Roof > 0
      /\ p.idx \in [Slot -> Nat] /\ Len(p.h) <= Roof
      /\ \A e \in Slot : d[e] \in Nat /\ c[e] \in Nat
  BY SizeAssumption, CountsCompare DEF Placed, Heaps
<1>2. InOrder(p.h, d, Len(p.h)) /\ \A e \in T : p.idx[e] = 0 => Len(p.h) = Roof /\ d[e] <= d[p.h[1]]
  BY DEF Sorted
<1>3. q \in Heaps(Slot) /\ RankBounds(p, s, q)
  BY <1>1, RankedBounds DEF Placed
<1>4. q.h \in Seq(Slot) /\ Len(q.h) \in Nat /\ q.idx \in [Slot -> Nat]
  BY <1>3 DEF Heaps
<1>5. \A e \in Slot : q.idx[e] = 0 => p.idx[e] = 0
  <2>1. \A e \in Slot : q.idx[e] = p.idx[e] \/ q.idx[e] \in 1 .. Len(q.h)
    BY <1>3 DEF RankBounds
  <2>2. 0 \notin 1 .. Len(q.h)
    BY <1>4
  <2> QED
    BY <2>1, <2>2
<1>6. Len(p.h) = Roof => 1 \in 1 .. Len(q.h) /\ q.h[1] \in ToSet(q.h) /\ q.h[1] \in Slot
  <2>1. ASSUME Len(p.h) = Roof PROVE 1 \in 1 .. Len(q.h)
    BY <1>1, <1>3, <1>4, <2>1 DEF RankBounds
  <2> QED
    BY <1>4, <2>1 DEF ToSet
\* An entry that the heap did not take before.
<1>7. ASSUME NEW e \in T, e # s, q.idx[e] = 0,
             NEW v, v \in ToSet(p.h), v = q.h[1]
      PROVE  c[e] <= c[q.h[1]]
  <2>1. e \in Slot /\ p.idx[e] = 0 /\ Len(p.h) = Roof /\ d[e] <= d[p.h[1]] /\ c[e] = d[e]
    BY <1>2, <1>5, <1>7 DEF Counted
  <2>2. p.h[1] \in Slot /\ d[p.h[1]] \in Nat /\ c[v] \in Nat /\ d[p.h[1]] <= c[v]
    BY <1>1, <1>2, <1>7, <2>1, RootRises
  <2> QED
    BY <1>1, <1>7, <2>1, <2>2
<1>8. CASE p.idx[s] # 0
  <2>1. /\ Len(q.h) = Len(p.h) /\ \A v : v \in ToSet(q.h) <=> v \in ToSet(p.h)
        /\ InOrder(q.h, c, Len(q.h))
    BY <1>2, <1>8, RankedSift
  <2>2. ASSUME NEW e \in U, q.idx[e] = 0 PROVE Len(q.h) = Roof /\ c[e] <= c[q.h[1]]
    <3>1. e \in T /\ e # s /\ p.idx[e] = 0 /\ Len(p.h) = Roof
      BY <1>2, <1>5, <1>8, <2>2
    <3>2. q.h[1] \in ToSet(p.h)
      BY <1>6, <2>1, <3>1
    <3> QED
      BY <1>7, <2>1, <2>2, <3>1, <3>2
  <2> QED
    BY <2>1, <2>2 DEF Sorted
<1>9. CASE p.idx[s] = 0 /\ Len(p.h) < Roof
  <2>1. Exact(q) /\ Len(q.h) = n /\ Gains(p, s, q) /\ RisesOnce(p, c, s, n, q)
    BY <1>2, <1>9, RankedInsert
  <2>2. InOrder(q.h, c, Len(q.h))
    BY <1>9, <2>1 DEF RisesOnce
  <2>3. q.idx[s] # 0
    <3>1. s \in ToSet(q.h)
      BY <2>1 DEF Gains
    <3> QED
      BY <1>4, <2>1, <3>1, ExactPlaces
  <2>4. ASSUME NEW e \in U, q.idx[e] = 0 PROVE FALSE
    <3>1. e \in T /\ p.idx[e] = 0
      BY <1>5, <2>3, <2>4
    <3> QED
      BY <1>1, <1>2, <1>9, <3>1
  <2> QED
    BY <2>2, <2>4 DEF Sorted
<1>10. CASE p.idx[s] = 0 /\ ~ (Len(p.h) < Roof)
  <2>1. /\ Exact(q) /\ Len(q.h) = Len(p.h) /\ InOrder(q.h, c, Len(q.h)) /\ Len(p.h) = Roof
        /\ \/ q = p /\ c[s] <= c[p.h[1]]
           \/ TakesRoot(p, s, q) /\ c[p.h[1]] < c[s]
    <3>1. Len(p.h) = Roof
      BY <1>1, <1>10
    <3>2. /\ Exact(q) /\ Len(q.h) = Len(p.h) /\ InOrder(q.h, c, Len(p.h))
          /\ \/ q = p /\ c[s] <= c[p.h[1]]
             \/ TakesRoot(p, s, q) /\ c[p.h[1]] < c[s]
      <4>1. InOrder(p.h, d, Len(p.h)) /\ p.idx[s] = 0 /\ ~ (Len(p.h) < Roof)
        BY <1>2, <1>10
      <4> QED
        BY <4>1, RankedFull
    <3> QED
      BY <3>1, <3>2
  <2>2. p.h[1] \in Slot
    BY <1>1, <2>1
  <2>3. CASE q = p /\ c[s] <= c[p.h[1]]
    <3>1. ASSUME NEW e \in U, q.idx[e] = 0 PROVE c[e] <= c[q.h[1]]
      <4>1. CASE e = s
        BY <2>3, <4>1
      <4>2. CASE e # s
        BY <1>6, <1>7, <2>1, <2>3, <3>1, <4>2
      <4> QED
        BY <4>1, <4>2
    <3> QED
      BY <2>1, <3>1 DEF Sorted
  <2>4. CASE TakesRoot(p, s, q) /\ c[p.h[1]] < c[s]
    <3>1. q.idx[s] # 0
      <4>1. s \in ToSet(q.h)
        BY <2>4 DEF TakesRoot
      <4> QED
        BY <1>4, <2>1, <4>1, ExactPlaces
    <3>2. ASSUME NEW e \in U, q.idx[e] = 0 PROVE c[e] <= c[q.h[1]]
      <4>1. e \in T /\ e # s
        BY <3>1, <3>2
      <4>2. q.h[1] = s \/ q.h[1] \in ToSet(p.h)
        BY <1>6, <2>1, <2>4 DEF TakesRoot
      <4>3. CASE q.h[1] \in ToSet(p.h)
        BY <1>7, <3>2, <4>1, <4>3
      <4>4. CASE q.h[1] = s
        <5>1. e \in Slot /\ d[e] <= d[p.h[1]] /\ c[e] = d[e]
          BY <1>2, <1>5, <3>2, <4>1 DEF Counted
        <5>2. p.h[1] # s
          BY <1>1, <2>1, <1>10, NotPlaced
        <5>3. c[p.h[1]] = d[p.h[1]]
          BY <2>2, <5>2 DEF Counted
        <5> QED
          BY <1>1, <2>2, <2>4, <4>4, <5>1, <5>3
      <4> QED
        BY <4>2, <4>3, <4>4
    <3> QED
      BY <2>1, <3>2 DEF Sorted
  <2> QED
    BY <2>1, <2>3, <2>4
<1> QED
  BY <1>8, <1>9, <1>10

-----------------------------------------------------------------------------
(* The invariant holds, step by step.                                      *)

LEMMA TreeInitInv == Init => TreeInv
<1> SUFFICES ASSUME Init PROVE TreeInv
  OBVIOUS
<1>1. /\ fqdn = [s \in Slot |-> NULL] /\ count = [s \in Slot |-> 0]
      /\ hp = [h |-> <<>>, idx |-> [s \in Slot |-> 0]]
      /\ inTree = {} /\ freed = <<>> /\ lru = <<>> /\ total = 0
      /\ expect = NULL /\ inserts = 0 /\ recycled = FALSE /\ sunk = FALSE
  BY DEF Init
<1>2. MaxInserts \in Nat /\ Roof \in Nat /\ Slot \subseteq Nat
  BY SizeAssumption DEF Slot
<1>3. Cardinality({}) = 0 /\ Len(<<>>) = 0 /\ <<>> \in Seq(Slot) /\ IsInjective(<<>>)
      /\ \A v : v \notin ToSet(<<>>)
  BY FS_EmptySet, NoEntries
<1>4. hp.h = <<>> /\ hp.idx = [s \in Slot |-> 0]
  BY <1>1
<1>5. TypeOK
  <2>1. fqdn \in [Slot -> AnyName \cup {NULL}] /\ count \in [Slot -> 0 .. MaxInserts]
    BY <1>1, <1>2
  <2>2. hp.h \in Seq(Slot) /\ hp.idx \in [Slot -> 0 .. Roof]
    BY <1>2, <1>3, <1>4
  <2> QED
    BY <1>1, <1>3, <2>1, <2>2 DEF TypeOK, Fields
<1>6. Slots = 0
  BY <1>1, <1>3 DEF Slots
<1>7. SlotsKept
  <2>1. \A s \in Slot : ~ (s <= 0)
    BY DEF Slot
  <2> QED
    BY <1>1, <1>2, <1>3, <1>6, <2>1 DEF SlotsKept
<1>8. NamesKept
  BY <1>1, <1>2 DEF NamesKept
<1>9. HeapKept
  <2>1. hp \in Heaps(Slot)
    BY <1>1, <1>3 DEF Heaps
  <2> QED
    BY <1>2, <1>3, <1>4, <2>1 DEF HeapKept, Fits
<1>10. HeapOnce
  <2>1. Exact(hp)
    BY <1>3, <1>4 DEF Exact
  <2> QED
    BY <1>1, <1>3, <1>4, <2>1 DEF HeapOnce, Once
<1>11. HeapOrder
  <2>1. InOrder(hp.h, count, Len(hp.h))
    BY <1>3, <1>4 DEF InOrder
  <2> QED
    BY <1>1, <2>1 DEF HeapOrder, Sorted
<1> QED
  BY <1>5, <1>7, <1>8, <1>9, <1>10, <1>11 DEF TreeInv

\* Nothing but the number of calls and expect_size changes.
LEMMA TreeIdle ==
  ASSUME TreeInv, UNCHANGED <<pool, count, hp, lru>>, inserts' \in Nat, inserts <= inserts',
         inserts' <= MaxInserts, expect' \in Nat \cup {NULL}
  PROVE  TreeInv'
<1>1. /\ fqdn' = fqdn /\ count' = count /\ hp' = hp /\ inTree' = inTree /\ freed' = freed
      /\ lru' = lru /\ total' = total /\ recycled' = recycled /\ sunk' = sunk
  BY DEF pool
<1>2. Slots' = Slots /\ Slots \in Nat /\ inserts \in Nat
  BY <1>1, TreeFinite DEF Slots, TreeInv, TypeOK
<1>3. TypeOK'
  BY <1>1 DEF TreeInv, TypeOK, Fields
<1>4. SlotsKept'
  <2>1. Slots <= inserts /\ inserts <= inserts'
    BY DEF TreeInv, SlotsKept
  <2>2. Slots <= inserts'
    BY <1>2, <2>1
  <2> QED
    BY <1>1, <1>2, <2>2 DEF TreeInv, SlotsKept
<1>5. NamesKept'
  <2>1. \A s \in Slot : count[s] \in Nat /\ count[s] <= inserts
    BY CountsCompare DEF TreeInv, NamesKept, TypeOK, Fields
  <2>2. \A s \in Slot : count[s] <= inserts'
    BY <1>2, <2>1
  <2> QED
    BY <1>1, <2>2 DEF TreeInv, NamesKept
<1>6. HeapKept'
  BY <1>1, <1>2 DEF TreeInv, HeapKept
<1>7. HeapOnce'
  BY <1>1 DEF TreeInv, HeapOnce
<1>8. HeapOrder'
  BY <1>1 DEF TreeInv, HeapOrder
<1> QED
  BY <1>3, <1>4, <1>5, <1>6, <1>7, <1>8 DEF TreeInv

\* A counted heap that fits has the fields it should have.
LEMMA FitsTypes ==
  ASSUME NEW m, NEW p, Fits(p, m)
  PROVE  p.h \in Seq(Slot) /\ p.idx \in [Slot -> 0 .. Roof]
<1>1. p.h \in Seq(Slot) /\ p.idx \in [Slot -> Nat] /\ Len(p.h) \in Nat /\ Len(p.h) <= Roof /\ Roof \in Nat
      /\ \A s \in Slot : p.idx[s] <= Len(p.h)
  BY SizeAssumption DEF Fits, Heaps
<1>2. \A s \in Slot : p.idx[s] \in 0 .. Roof
  BY <1>1
<1> QED
  BY <1>1, <1>2

\* A heap that fits is placed right while every heap_index is.
LEMMA OncePlaced ==
  ASSUME NEW m, NEW p, Fits(p, m), NEW T, Once(p, T)
  PROVE  Placed(p)
BY DEF Fits, Once, Placed

LEMMA TreeTypes ==
  ASSUME TreeInv
  PROVE  /\ inserts \in Nat /\ MaxInserts \in Nat /\ Slots \in Nat /\ Slots <= inserts
         /\ lru \in Seq(Slot) /\ freed \in Seq(Slot) /\ inTree \in SUBSET Slot
         /\ IsFiniteSet(inTree) /\ Cardinality(inTree) \in Nat
         /\ count \in [Slot -> 0 .. MaxInserts] /\ \A e \in Slot : count[e] \in Nat /\ count[e] <= inserts
<1>1. TypeOK /\ SlotsKept /\ NamesKept
  BY DEF TreeInv
<1>2. inserts \in Nat /\ lru \in Seq(Slot) /\ freed \in Seq(Slot) /\ inTree \in SUBSET Slot
      /\ count \in [Slot -> 0 .. MaxInserts]
  BY <1>1 DEF TypeOK, Fields
<1>3. IsFiniteSet(inTree) /\ Cardinality(inTree) \in Nat /\ MaxInserts \in Nat
  BY <1>2, TreeFinite, SizeAssumption
<1>4. Slots \in Nat /\ Slots <= inserts
  BY <1>1, <1>2, <1>3 DEF Slots, SlotsKept
<1>5. \A e \in Slot : count[e] \in Nat /\ count[e] <= inserts
  BY <1>1, <1>2, CountsCompare DEF NamesKept
<1> QED
  BY <1>2, <1>3, <1>4, <1>5

\* name_tree_insert finds the name: it fits, and is in the LRU list.
LEMMA FoundIs ==
  ASSUME TreeInv, NEW x \in AnyName, x \notin LongName, NEW s \in Found(x)
  PROVE  /\ s \in inTree /\ s \in Slot /\ fqdn[s] = x /\ x \in Name /\ x \notin EdgeName
         /\ s \in ToSet(lru) /\ s <= Slots
<1>1. s \in inTree /\ s \in Slot /\ fqdn[s] = x /\ ~ Overruns(s)
  BY DEF Found, TreeInv, TypeOK
<1>2. x \notin EdgeName
  <2>1. ASSUME x \in EdgeName PROVE FALSE
    <3>1. count[s] = 1
      BY <1>1, <2>1 DEF TreeInv, NamesKept
    <3>2. 1 % 256 # 0
      OBVIOUS
    <3> QED
      BY <1>1, <2>1, <3>1, <3>2 DEF Overruns
  <2> QED
    BY <2>1
<1>3. x \in Name
  BY <1>2 DEF AnyName
<1>4. s \in ToSet(lru)
  BY <1>1, <1>2 DEF TreeInv, NamesKept
<1>5. s <= Slots
  BY <1>1 DEF TreeInv, SlotsKept
<1> QED
  BY <1>1, <1>2, <1>3, <1>4, <1>5

\* And it moves to the front of that.
LEMMA TouchedIs ==
  ASSUME lru \in Seq(Slot), NEW s \in ToSet(lru), NEW t, t = Touched(s)
  PROVE  \E k \in 1 .. Len(lru) : lru[k] = s /\ t \in Seq(Slot) /\ Fronted(lru, k, t)
<1> DEFINE k == CHOOSE i \in DOMAIN lru : lru[i] = s
<1>1. DOMAIN lru = 1 .. Len(lru)
  OBVIOUS
<1>2. \E i \in DOMAIN lru : lru[i] = s
  BY DEF ToSet
<1>3. k \in 1 .. Len(lru) /\ lru[k] = s
  BY <1>1, <1>2
<1>4. t = <<s>> \o RemoveAt(lru, k)
  BY DEF Touched
<1> HIDE DEF k
<1>5. t = <<lru[k]>> \o RemoveAt(lru, k)
  BY <1>3, <1>4
<1>6. t \in Seq(Slot) /\ Fronted(lru, k, t)
  BY <1>3, <1>5, FrontedIs
<1> QED
  BY <1>3, <1>6

LEMMA TreeFoundInv ==
  ASSUME TreeInv, NEW x \in AnyName, name_tree_insert_found(x)
  PROVE  TreeInv'
<1>1. PICK s \in Found(x) : /\ lru' = Touched(s)
                            /\ count' = [count EXCEPT ![s] = @ + 1]
                            /\ hp' = Ranked(hp, count', s)
  BY DEF name_tree_insert_found
<1>2. /\ inserts < MaxInserts /\ inserts' = inserts + 1 /\ expect' = expect /\ x \notin LongName
      /\ fqdn' = fqdn /\ inTree' = inTree /\ freed' = freed /\ total' = total
      /\ recycled' = recycled /\ sunk' = sunk
  BY DEF name_tree_insert_found, Insert, pool
<1>3. /\ s \in inTree /\ s \in Slot /\ fqdn[s] = x /\ x \notin EdgeName
      /\ s \in ToSet(lru) /\ s <= Slots
  BY <1>1, <1>2, FoundIs
<1>4. TypeOK /\ SlotsKept /\ NamesKept /\ HeapKept /\ HeapOnce /\ HeapOrder
  BY DEF TreeInv
<1>5. /\ inserts \in Nat /\ MaxInserts \in Nat /\ Slots \in Nat /\ inserts' \in Nat
      /\ lru \in Seq(Slot) /\ inTree \in SUBSET Slot
      /\ count \in [Slot -> 0 .. MaxInserts] /\ \A e \in Slot : count[e] \in Nat /\ count[e] <= inserts
  BY <1>2, TreeTypes
<1>6. Slots' = Slots
  BY <1>2 DEF Slots
<1>7. lru' \in Seq(Slot) /\ (IsInjective(lru) => IsInjective(lru')) /\ ToSet(lru') = ToSet(lru)
  <2> DEFINE t == Touched(s)
  <2>0. t = Touched(s)
    OBVIOUS
  <2> HIDE DEF t
  <2>1. PICK k \in 1 .. Len(lru) : t \in Seq(Slot) /\ Fronted(lru, k, t)
    BY <1>3, <1>5, <2>0, TouchedIs
  <2>2. ToSet(t) = ToSet(lru) /\ (IsInjective(lru) => IsInjective(t))
    BY <1>5, <2>1, FrontedSet
  <2> QED
    BY <1>1, <2>0, <2>1, <2>2
<1>8. /\ count' \in [Slot -> 0 .. MaxInserts] /\ Counted(count, count', s)
      /\ \A e \in Slot : count'[e] <= inserts'
  <2>1. count' \in [Slot -> 0 .. MaxInserts]
    BY <1>1, <1>2, <1>3, <1>5
  <2>2. count'[s] = count[s] + 1 /\ \A e \in Slot : e # s => count'[e] = count[e]
    BY <1>1, <1>3, <1>5
  <2>3. Counted(count, count', s)
    BY <1>3, <1>5, <2>2 DEF Counted
  <2>4. \A e \in Slot : count'[e] <= inserts'
    BY <1>2, <1>3, <1>5, <2>2
  <2> QED
    BY <2>1, <2>3, <2>4
<1>9. Fits(hp', Slots)
  BY <1>1, <1>3, <1>4, <1>5, RankedFits DEF HeapKept
<1>10. TypeOK'
  BY <1>2, <1>4, <1>7, <1>8, <1>9, <1>5, FitsTypes DEF TypeOK, Fields
<1>11. SlotsKept'
  BY <1>2, <1>4, <1>5, <1>6, <1>7 DEF SlotsKept
<1>12. NamesKept'
  <2>1. \A e \in inTree : fqdn[e] \in EdgeName => e # s
    BY <1>3
  <2>2. \A e \in inTree : fqdn[e] \in EdgeName => count'[e] = 1
    BY <1>4, <1>5, <1>8, <2>1 DEF Counted, NamesKept
  <2> QED
    BY <1>2, <1>4, <1>7, <1>8, <2>2 DEF NamesKept
<1>13. HeapKept'
  BY <1>6, <1>9 DEF HeapKept
<1>14. inTree = inTree \cup {s}
  BY <1>3
<1>15. HeapOnce'
  <2>1. ASSUME ~ recycled PROVE freed' = <<>> /\ Once(hp', inTree)
    <3>1. freed = <<>> /\ Once(hp, inTree)
      BY <1>4, <2>1 DEF HeapOnce
    <3>2. Placed(hp)
      BY <1>4, <3>1, OncePlaced DEF HeapKept
    <3>3. Once(hp', inTree)
      BY <1>1, <1>3, <1>5, <1>8, <1>14, <3>1, <3>2, RankedOnce
    <3> QED
      BY <1>2, <3>1, <3>3
  <2> QED
    BY <1>2, <2>1 DEF HeapOnce
<1>16. HeapOrder'
  <2>1. ASSUME ~ recycled, ~ sunk PROVE Sorted(hp', count', inTree)
    <3>1. Once(hp, inTree) /\ Sorted(hp, count, inTree)
      BY <1>4, <2>1 DEF HeapOnce, HeapOrder
    <3>2. Placed(hp)
      BY <1>4, <3>1, OncePlaced DEF HeapKept
    <3>3. hp.idx[s] = 0 => Len(hp.h) = Roof
      BY <1>3, <3>1 DEF Sorted
    <3> DEFINE n == Len(hp.h) + 1
    <3>4. n \in Nat /\ n = Len(hp.h) + 1 /\ ~ (Roof < Roof)
      BY <3>2, SizeAssumption DEF Placed, Heaps
    <3> HIDE DEF n
    <3>5. ~ (hp.idx[s] = 0 /\ Len(hp.h) < Roof /\ n \div 4 > 0)
      BY <3>3, <3>4
    <3>6. Sorted(hp', count', inTree)
      BY <1>1, <1>3, <1>5, <1>8, <1>14, <3>1, <3>2, <3>4, <3>5, RankedSorted
    <3> QED
      BY <3>6
  <2> QED
    BY <1>2, <2>1 DEF HeapOrder
<1> QED
  BY <1>10, <1>11, <1>12, <1>13, <1>15, <1>16 DEF TreeInv

LEMMA TreeNewInv ==
  ASSUME TreeInv, NEW x \in AnyName, name_tree_insert_new(x)
  PROVE  TreeInv'
<1> DEFINE s == mem_pool_alloc
           f == IF freed # <<>> THEN Tail(freed) ELSE <<>>
           p == [hp EXCEPT !.idx[s] = 0]
<1>1. /\ inserts < MaxInserts /\ inserts' = inserts + 1 /\ expect' = expect
      /\ x \notin LongName /\ Found(x) = {}
      /\ fqdn' = [fqdn EXCEPT ![s] = x] /\ inTree' = inTree \cup {s} /\ lru' = <<s>> \o lru
      /\ count' = [count EXCEPT ![s] = 1] /\ hp' = Ranked(p, count', s)
      /\ freed' = f /\ total' = total + 1 /\ sunk' = (sunk \/ Sinks) /\ recycled' = recycled
  BY DEF name_tree_insert_new, Insert
<1>2. TypeOK /\ SlotsKept /\ NamesKept /\ HeapKept /\ HeapOnce /\ HeapOrder
  BY DEF TreeInv
<1>3. /\ inserts \in Nat /\ MaxInserts \in Nat /\ Slots \in Nat /\ inserts' \in Nat
      /\ lru \in Seq(Slot) /\ inTree \in SUBSET Slot
      /\ count \in [Slot -> 0 .. MaxInserts] /\ \A e \in Slot : count[e] \in Nat /\ count[e] <= inserts
  BY <1>1, TreeTypes
<1>4. s = mem_pool_alloc /\ f = (IF freed # <<>> THEN Tail(freed) ELSE <<>>)
  OBVIOUS
<1>5. p = [hp EXCEPT !.idx[s] = 0]
  OBVIOUS
<1> HIDE DEF s, f, p
<1>6. /\ s \in Slot /\ s \notin inTree
      /\ f \in Seq(Slot) /\ IsInjective(f)
      /\ \A v : v \in ToSet(f) <=> v \in ToSet(freed) /\ v # s
      /\ (freed = <<>> => f = <<>>)
      /\ Cardinality(inTree') = Cardinality(inTree) + 1
      /\ Slots' \in Nat /\ Slots <= Slots' /\ Slots' <= inserts'
      /\ \A v \in Slot : v <= Slots' <=> v \in ToSet(f) \/ v \in inTree'
  <2> DEFINE T == inTree \cup {s}
             m == Cardinality(T) + Len(f)
  <2>1. T = inTree \cup {s} /\ m = Cardinality(T) + Len(f) /\ inTree' = T /\ Slots' = m
    BY <1>1 DEF Slots
  <2>3. Taken(s, f, T, m)
    BY <1>4, <2>1 DEF Taken
  <2> HIDE DEF T, m
  <2>2. /\ s \in Slot /\ s \notin inTree
        /\ f \in Seq(Slot) /\ IsInjective(f)
        /\ \A v : v \in ToSet(f) <=> v \in ToSet(freed) /\ v # s
        /\ (freed = <<>> => f = <<>>)
        /\ Cardinality(T) = Cardinality(inTree) + 1
        /\ m \in Nat /\ Slots <= m /\ m <= inserts + 1
        /\ \A v \in Slot : v <= m <=> v \in ToSet(f) \/ v \in T
    BY <1>1, <1>2, <2>3, AllocIs
  <2> QED
    BY <1>1, <2>1, <2>2
<1>7. \A e \in inTree : e # s
  BY <1>6
<1>8. s \notin ToSet(lru) /\ \A e \in inTree : e \in Slot
  BY <1>2, <1>3, <1>6 DEF SlotsKept
<1>9. lru' \in Seq(Slot) /\ ToSet(lru') = ToSet(lru) \cup {s} /\ (IsInjective(lru) => IsInjective(lru'))
  <2> DEFINE t == <<s>> \o lru
  <2>1. t = <<s>> \o lru
    OBVIOUS
  <2> HIDE DEF t
  <2>2. t \in Seq(Slot)
    BY <1>3, <1>6, <2>1, Consed
  <2>3. ToSet(t) = ToSet(lru) \cup {s} /\ (IsInjective(lru) => IsInjective(t))
    BY <1>3, <1>6, <1>8, <2>1, ConsedSet
  <2> QED
    BY <1>1, <2>1, <2>2, <2>3
<1>10. /\ count' \in [Slot -> 0 .. MaxInserts] /\ count'[s] = 1
       /\ \A e \in Slot : e # s => count'[e] = count[e]
  <2>1. 1 \in 0 .. MaxInserts
    BY <1>1, <1>3
  <2> QED
    BY <1>1, <1>3, <1>6, <2>1
<1>11. \A e \in Slot : count'[e] <= inserts'
  BY <1>1, <1>3, <1>10
<1>12. fqdn' \in [Slot -> AnyName \cup {NULL}] /\ fqdn'[s] = x
       /\ \A e \in Slot : e # s => fqdn'[e] = fqdn[e]
  BY <1>1, <1>2, <1>6 DEF TypeOK, Fields
<1>13. /\ p \in Heaps(Slot) /\ p.h = hp.h /\ p.idx[s] = 0
       /\ \A e \in Slot : e # s => p.idx[e] = hp.idx[e]
  BY <1>2, <1>5, <1>6 DEF HeapKept, Fits, Heaps
<1>14. Fits(p, Slots')
  <2>1. Fits(hp, Slots)
    BY <1>2 DEF HeapKept
  <2>2. \A v : v \in ToSet(p.h) => v \in 1 .. Slots'
    BY <1>3, <1>6, <1>13, <2>1 DEF Fits
  <2>3. Len(p.h) \in Nat /\ \A e \in Slot : p.idx[e] <= Len(p.h)
    BY <1>13, <2>1 DEF Fits, Heaps
  <2> QED
    BY <1>13, <2>1, <2>2, <2>3 DEF Fits
<1>15. s \in inTree' /\ s <= Slots'
  BY <1>1, <1>6
<1>16. Fits(hp', Slots')
  BY <1>1, <1>6, <1>14, <1>15, RankedFits
<1>17. TypeOK'
  <2>1. hp'.h \in Seq(Slot) /\ hp'.idx \in [Slot -> 0 .. Roof]
    BY <1>16, FitsTypes
  <2>2. sunk' \in BOOLEAN /\ recycled' \in BOOLEAN /\ expect' \in Nat \cup {NULL}
    BY <1>1, <1>2 DEF TypeOK
  <2>3. inTree' \in SUBSET Slot /\ freed' \in Seq(Slot) /\ lru' \in Seq(Slot)
    BY <1>1, <1>3, <1>6, <1>9
  <2>4. total' \in Nat /\ inserts' \in Nat
    BY <1>1, <1>2, <1>3 DEF TypeOK
  <2> QED
    BY <1>10, <1>12, <2>1, <2>2, <2>3, <2>4 DEF TypeOK, Fields
<1>18. SlotsKept'
  <2>1. ToSet(freed') \cap inTree' = {}
    BY <1>1, <1>2, <1>6 DEF SlotsKept
  <2>2. total' = Cardinality(inTree')
    BY <1>1, <1>2, <1>6 DEF SlotsKept
  <2>3. inserts' <= MaxInserts
    BY <1>1, <1>3
  <2>4. ToSet(lru') \subseteq inTree' /\ IsInjective(lru')
    BY <1>1, <1>2, <1>9 DEF SlotsKept
  <2> QED
    BY <1>1, <1>6, <2>1, <2>2, <2>3, <2>4 DEF SlotsKept
<1>19. NamesKept'
  <2>1. x \in Name \cup EdgeName
    BY <1>1 DEF AnyName
  <2>2. ASSUME NEW t \in inTree, fqdn[t] = x, x \in Name PROVE FALSE
    <3>1. ~ Overruns(t)
      BY <2>2, NameAssumption DEF Overruns
    <3> QED
      BY <1>1, <2>2, <3>1 DEF Found
  <2>3. \A e \in inTree' : e = s \/ (e \in inTree /\ e # s /\ e \in Slot)
    BY <1>1, <1>7, <1>8
  <2>4. \A e \in inTree' : fqdn'[e] \in Name \cup EdgeName
    BY <1>2, <1>12, <2>1, <2>3 DEF NamesKept
  <2>5. \A e \in inTree' : e \notin ToSet(lru') => fqdn'[e] \in EdgeName
    BY <1>2, <1>9, <1>12, <2>3 DEF NamesKept
  <2>6. \A e \in inTree' : fqdn'[e] \in EdgeName => count'[e] = 1
    BY <1>2, <1>10, <1>12, <2>3 DEF NamesKept
  <2>7. ASSUME NEW e \in inTree', NEW t \in inTree', fqdn'[e] \in Name, fqdn'[e] = fqdn'[t]
        PROVE  e = t
    BY <1>2, <1>12, <2>2, <2>3, <2>7 DEF NamesKept
  <2> QED
    BY <1>11, <2>4, <2>5, <2>6, <2>7 DEF NamesKept
<1>20. HeapKept'
  BY <1>16 DEF HeapKept
\* The slot is a fresh one and not in the heap until slots are recycled.
<1> DEFINE d == [count EXCEPT ![s] = 0]
<1>21. /\ d \in [Slot -> 0 .. MaxInserts] /\ d[s] = 0
       /\ \A e \in Slot : e # s => d[e] = count[e]
  BY <1>3, <1>6
<1> HIDE DEF d
<1>22. Counted(d, count', s)
  BY <1>10, <1>21 DEF Counted
<1>23. ASSUME ~ recycled
       PROVE  /\ freed' = <<>> /\ Once(p, inTree) /\ Placed(p)
              /\ \A k \in 1 .. Len(p.h) : p.h[k] \in inTree /\ p.h[k] # s /\ p.h[k] \in Slot
  <2>1. freed = <<>> /\ Once(hp, inTree)
    BY <1>2, <1>23 DEF HeapOnce
  <2>2. \A v : v \notin ToSet(freed)
    BY <2>1, NoEntries
  <2>3. hp.h \in Seq(Slot) /\ \A v : v \in ToSet(hp.h) => v \in 1 .. Slots
    BY <1>2 DEF HeapKept, Fits, Heaps
  <2>4. ASSUME NEW k \in 1 .. Len(hp.h)
        PROVE  hp.h[k] \in inTree /\ hp.h[k] # s /\ hp.h[k] \in Slot
    <3>1. hp.h[k] \in Slot /\ hp.h[k] \in ToSet(hp.h)
      BY <2>3 DEF ToSet
    <3>2. hp.h[k] <= Slots
      BY <1>3, <2>3, <3>1
    <3> QED
      BY <1>2, <1>7, <2>2, <3>1, <3>2 DEF SlotsKept
  <2>5. Exact(p)
    BY <1>13, <2>1, <2>4 DEF Once, Exact
  <2>6. Once(p, inTree)
    BY <1>13, <2>1, <2>5 DEF Once
  <2> QED
    BY <1>1, <1>6, <1>13, <1>14, <2>1, <2>4, <2>6, OncePlaced
<1>24. HeapOnce'
  <2>1. ASSUME ~ recycled PROVE freed' = <<>> /\ Once(hp', inTree')
    BY <1>1, <1>6, <1>10, <1>13, <1>21, <1>22, <1>23, <2>1, RankedOnce
  <2> QED
    BY <1>1, <2>1 DEF HeapOnce
<1>25. HeapOrder'
  <2>1. ASSUME ~ recycled, ~ sunk, ~ Sinks PROVE Sorted(hp', count', inTree')
    <3>1. Sorted(hp, count, inTree)
      BY <1>2, <2>1 DEF HeapOrder
    <3>2. Len(p.h) \in Nat /\ \A k \in 1 .. Len(p.h) : d[p.h[k]] = count[p.h[k]]
      BY <1>13, <1>21, <1>23, <2>1 DEF Heaps
    <3>3. Sorted(p, d, inTree)
      <4>1. InOrder(p.h, d, Len(p.h))
        BY <1>13, <3>1, <3>2, SameOrder DEF Sorted
      <4>2. ASSUME NEW e \in inTree, p.idx[e] = 0
            PROVE  Len(p.h) = Roof /\ d[e] <= d[p.h[1]]
        <5>1. e \in Slot /\ e # s /\ hp.idx[e] = 0
          BY <1>7, <1>8, <1>13, <4>2
        <5>2. Len(p.h) = Roof /\ count[e] <= count[p.h[1]]
          BY <1>13, <3>1, <5>1 DEF Sorted
        <5>3. 1 \in 1 .. Len(p.h)
          BY <5>2, SizeAssumption
        <5> QED
          BY <1>21, <3>2, <5>1, <5>2, <5>3
      <4> QED
        BY <4>1, <4>2 DEF Sorted
    <3> DEFINE n == Len(p.h) + 1
    <3>4. n \in Nat /\ n = Len(p.h) + 1 /\ n >= 1 /\ n - 1 = Len(p.h)
      BY <3>2
    <3>9. n \div 4 > 0 => n \div 4 \in 1 .. Len(p.h)
      <4> HIDE DEF n
      <4> QED
        BY <3>4, Quarter
    <3>5. ASSUME Len(p.h) < Roof, n \div 4 > 0 PROVE count'[p.h[n \div 4]] <= count'[s]
      <4>1. ~ (count[hp.h[n \div 4]] > 1)
        BY <1>13, <2>1, <3>5 DEF Sinks
      <4>2. n \div 4 \in 1 .. Len(p.h)
        BY <3>5, <3>9
      <4> DEFINE g == p.h[n \div 4]
      <4>3. g \in Slot /\ g # s
        BY <1>23, <2>1, <4>2
      <4>4. count[g] \in Nat /\ ~ (count[g] > 1)
        BY <1>3, <1>13, <4>1, <4>3
      <4>5. count'[g] <= count'[s]
        BY <1>10, <4>3, <4>4
      <4> QED
        BY <4>5
    <3> HIDE DEF n
    <3>6. inTree' = inTree \cup {s} /\ inTree \in SUBSET Slot
      BY <1>1, <1>3
    <3>7. Once(p, inTree) /\ Placed(p)
      BY <1>23, <2>1
    <3>8. p.idx[s] = 0 /\ Len(p.h) < Roof /\ n \div 4 > 0 => count'[p.h[n \div 4]] <= count'[s]
      BY <3>5
    <3> QED
      BY <1>1, <1>6, <1>10, <1>13, <1>21, <1>22, <3>3, <3>4, <3>6, <3>7, <3>8, RankedSorted
  <2> QED
    BY <1>1, <2>1 DEF HeapOrder
<1> QED
  BY <1>17, <1>18, <1>19, <1>20, <1>24, <1>25 DEF TreeInv

\* view_stats_set_memsize takes the tail of the list, and deletes the name there unless
\* it is too long to be found.
LEMMA TreeStepInv ==
  ASSUME TreeInv, view_stats_set_memsize_step
  PROVE  TreeInv'
<1> DEFINE s == Last(lru)
<1>1. /\ lru # <<>> /\ lru' = Front(lru) /\ count' = count /\ hp' = hp
      /\ expect' = expect /\ inserts' = inserts /\ name_tree_delete(s)
  BY DEF view_stats_set_memsize_step
<1>2. TypeOK /\ SlotsKept /\ NamesKept /\ HeapKept /\ HeapOnce /\ HeapOrder
  BY DEF TreeInv
<1>3. /\ inserts \in Nat /\ MaxInserts \in Nat /\ Slots \in Nat /\ Slots <= inserts
      /\ lru \in Seq(Slot) /\ freed \in Seq(Slot) /\ inTree \in SUBSET Slot
      /\ IsFiniteSet(inTree) /\ Cardinality(inTree) \in Nat
  BY TreeTypes
<1>4. IsInjective(lru) /\ ToSet(lru) \subseteq inTree
  BY <1>2 DEF SlotsKept
<1>5. /\ s \in Slot /\ s \in ToSet(lru) /\ lru' \in Seq(Slot) /\ IsInjective(lru')
      /\ \A v : v \in ToSet(lru') <=> v \in ToSet(lru) /\ v # s
  <2> DEFINE f == Front(lru)
  <2>1. f = Front(lru)
    OBVIOUS
  <2> HIDE DEF f
  <2>2. /\ s \in Slot /\ s \in ToSet(lru) /\ f \in Seq(Slot) /\ IsInjective(f)
        /\ \A v : v \in ToSet(f) <=> v \in ToSet(lru) /\ v # s
    BY <1>1, <1>3, <1>4, <2>1, FrontIs
  <2> QED
    BY <1>1, <2>1, <2>2
<1>6. s \in inTree
  BY <1>4, <1>5
<1> HIDE DEF s
<1>7. CASE fqdn[s] \in EdgeName
  <2>1. /\ fqdn' = fqdn /\ inTree' = inTree /\ freed' = freed /\ total' = total
        /\ recycled' = recycled /\ sunk' = sunk
    BY <1>1, <1>7 DEF name_tree_delete, pool
  <2>2. Slots' = Slots
    BY <2>1 DEF Slots
  <2>3. TypeOK'
    BY <1>1, <1>2, <1>5, <2>1 DEF TypeOK, Fields
  <2>4. SlotsKept'
    BY <1>1, <1>2, <1>5, <2>1, <2>2 DEF SlotsKept
  <2>5. NamesKept'
    BY <1>1, <1>2, <1>5, <1>7, <2>1 DEF NamesKept
  <2>6. HeapKept' /\ HeapOnce' /\ HeapOrder'
    BY <1>1, <1>2, <2>1, <2>2 DEF HeapKept, HeapOnce, HeapOrder
  <2> QED
    BY <2>3, <2>4, <2>5, <2>6 DEF TreeInv
<1>8. CASE fqdn[s] \notin EdgeName
  <2>1. /\ fqdn' = [fqdn EXCEPT ![s] = NULL] /\ inTree' = inTree \ {s} /\ freed' = <<s>> \o freed
        /\ total' = total - 1 /\ recycled' = TRUE /\ sunk' = sunk
    BY <1>1, <1>8 DEF name_tree_delete
  <2>2. Cardinality(inTree') = Cardinality(inTree) - 1
    BY <1>3, <1>6, <2>1, FS_RemoveElement
  <2>3. s \notin ToSet(freed) /\ IsInjective(freed)
    BY <1>2, <1>6 DEF SlotsKept
  <2>4. /\ freed' \in Seq(Slot) /\ Len(freed') = Len(freed) + 1 /\ Len(freed) \in Nat
        /\ ToSet(freed') = ToSet(freed) \cup {s} /\ IsInjective(freed')
    <3> DEFINE f == <<s>> \o freed
    <3>1. f = <<s>> \o freed
      OBVIOUS
    <3> HIDE DEF f
    <3>2. f \in Seq(Slot) /\ Len(f) = Len(freed) + 1
      BY <1>3, <1>5, <3>1, Consed
    <3>3. /\ ToSet(f) = ToSet(freed) \cup {s}
          /\ IsInjective(freed) /\ s \notin ToSet(freed) => IsInjective(f)
      <4>1. freed \in Seq(Slot) /\ s \in Slot
        BY <1>3, <1>5
      <4> QED
        BY <3>1, <4>1, ConsedSet
    <3>4. freed' = f
      BY <2>1, <3>1
    <3>5. Len(freed) \in Nat
      BY <1>3
    <3> QED
      BY <2>3, <3>2, <3>3, <3>4, <3>5
  <2>5. Slots' = Slots
    BY <1>3, <2>2, <2>4 DEF Slots
  <2>6. fqdn' \in [Slot -> AnyName \cup {NULL}] /\ \A e \in Slot : e # s => fqdn'[e] = fqdn[e]
    BY <1>2, <1>5, <2>1 DEF TypeOK, Fields
  <2>7. total' = Cardinality(inTree') /\ total' \in Nat
    <3>1. inTree' \in SUBSET Slot
      BY <1>3, <2>1
    <3>2. Cardinality(inTree') \in Nat
      BY <3>1, TreeFinite
    <3> QED
      BY <1>2, <2>1, <2>2, <3>2 DEF SlotsKept
  <2>8. TypeOK'
    BY <1>1, <1>2, <1>3, <1>5, <2>1, <2>4, <2>6, <2>7 DEF TypeOK, Fields
  <2>9. SlotsKept'
    <3>1. ToSet(freed') \cap inTree' = {} /\ ToSet(lru') \subseteq inTree'
      BY <1>2, <1>5, <2>1, <2>4 DEF SlotsKept
    <3>2. \A v \in Slot : v <= Slots' <=> v \in ToSet(freed') \/ v \in inTree'
      BY <1>2, <1>6, <2>1, <2>4, <2>5 DEF SlotsKept
    <3>3. Slots' <= inserts' /\ inserts' <= MaxInserts
      BY <1>1, <1>2, <2>5 DEF SlotsKept
    <3> QED
      BY <1>5, <2>4, <2>7, <3>1, <3>2, <3>3 DEF SlotsKept
  <2>10. NamesKept'
    <3>1. \A e \in inTree' : e \in inTree /\ e # s /\ e \in Slot /\ fqdn'[e] = fqdn[e]
      BY <1>3, <2>1, <2>6
    <3> QED
      BY <1>1, <1>2, <1>5, <3>1 DEF NamesKept
  <2>11. HeapKept' /\ HeapOnce' /\ HeapOrder'
    BY <1>1, <1>2, <2>1, <2>5 DEF HeapKept, HeapOnce, HeapOrder
  <2> QED
    BY <2>8, <2>9, <2>10, <2>11 DEF TreeInv
<1> QED
  BY <1>7, <1>8

LEMMA TreeInvNext == TreeInv /\ [Next]_vars => TreeInv'
<1> SUFFICES ASSUME TreeInv, [Next]_vars PROVE TreeInv'
  OBVIOUS
<1>1. /\ inserts \in Nat /\ inserts <= MaxInserts /\ MaxInserts \in Nat /\ expect \in Nat \cup {NULL}
  BY SizeAssumption DEF TreeInv, TypeOK, SlotsKept
<1>2. ASSUME NEW x \in AnyName, name_tree_insert_refused(x) PROVE TreeInv'
  <2>1. /\ UNCHANGED <<pool, count, hp, lru>> /\ inserts' = inserts + 1 /\ inserts < MaxInserts
        /\ expect' = expect
    BY <1>2 DEF name_tree_insert_refused, Insert
  <2>2. inserts' \in Nat /\ inserts <= inserts' /\ inserts' <= MaxInserts
    BY <1>1, <2>1
  <2> QED
    BY <1>1, <2>1, <2>2, TreeIdle
<1>3. ASSUME NEW x \in AnyName, name_tree_insert_found(x) PROVE TreeInv'
  BY <1>3, TreeFoundInv
<1>4. ASSUME NEW x \in AnyName, name_tree_insert_new(x) PROVE TreeInv'
  BY <1>4, TreeNewInv
<1>5. ASSUME NEW size \in Expect, view_stats_set_memsize(size) PROVE TreeInv'
  <2>1. UNCHANGED <<pool, count, hp, lru>> /\ inserts' = inserts /\ expect' = size /\ size \in Nat
    BY <1>5, SizeAssumption DEF view_stats_set_memsize
  <2> QED
    BY <1>1, <2>1, TreeIdle
<1>6. CASE view_stats_set_memsize_step
  BY <1>6, TreeStepInv
<1>7. CASE view_stats_set_memsize_return
  <2>1. UNCHANGED <<pool, count, hp, lru>> /\ inserts' = inserts /\ expect' = NULL
    BY <1>7 DEF view_stats_set_memsize_return
  <2> QED
    BY <1>1, <2>1, TreeIdle
<1>8. CASE UNCHANGED vars
  <2>1. UNCHANGED <<pool, count, hp, lru>> /\ inserts' = inserts /\ expect' = expect
    BY <1>8 DEF vars
  <2> QED
    BY <1>1, <2>1, TreeIdle
<1> QED
  BY <1>2, <1>3, <1>4, <1>5, <1>6, <1>7, <1>8 DEF Next

LEMMA TreeAlways == Spec => []TreeInv
<1>1. Init => TreeInv
  BY TreeInitInv
<1>2. TreeInv /\ [Next]_vars => TreeInv'
  BY TreeInvNext
<1> QED
  BY <1>1, <1>2, PTL DEF Spec

-----------------------------------------------------------------------------
(* NameTree: theorems.                                                     *)

\* mem_pool_alloc never hands out a slot that is in use, name_tree_delete never gives one
\* back twice, and tree, list and size accounting agree, whatever names overrun their
\* slots and however many are inserted and recycled.
THEOREM PoolTheorem == Spec => []PoolSound
<1>1. TreeInv => PoolSound
  <2> SUFFICES ASSUME TreeInv PROVE PoolSound
    OBVIOUS
  <2>1. TypeOK /\ SlotsKept /\ NamesKept
    BY DEF TreeInv
  <2>2. /\ inserts \in Nat /\ MaxInserts \in Nat /\ Slots \in Nat /\ Slots <= inserts
        /\ freed \in Seq(Slot) /\ inTree \in SUBSET Slot
    BY TreeTypes
  <2>3. ToSet(freed) \cup inTree = 1 .. Slots
    <3>1. \A v \in ToSet(freed) : v \in Slot
      BY <2>2 DEF ToSet
    <3>2. \A v : v \in 1 .. Slots <=> v \in Slot /\ v <= Slots
      BY <2>1, <2>2 DEF Slot, SlotsKept
    <3>3. ASSUME NEW v PROVE v \in ToSet(freed) \cup inTree <=> v \in 1 .. Slots
      BY <2>1, <2>2, <3>1, <3>2 DEF SlotsKept
    <3> QED
      BY <3>3
  <2>4. ASSUME NEW s \in inTree \ ToSet(lru) PROVE Overruns(s)
    <3>1. fqdn[s] \in EdgeName /\ count[s] = 1
      BY <2>1, <2>4 DEF NamesKept
    <3>2. 1 % 256 # 0
      OBVIOUS
    <3> QED
      BY <3>1, <3>2 DEF Overruns
  <2> QED
    BY <2>1, <2>3, <2>4 DEF PoolSound, SlotsKept
<1> QED
  BY <1>1, TreeAlways, PTL

\* A heap of any roof never outgrows it and never sifts from a heap_index beyond its end,
\* recycled names or not; until names are recycled it has no name twice, every name while
\* there is room, and is in order unless a new name sank.
THEOREM HeapTheorem == Spec => []HeapSound
<1>1. TreeInv => HeapSound
  <2> SUFFICES ASSUME TreeInv PROVE HeapSound
    OBVIOUS
  <2>1. SlotsKept /\ HeapKept /\ HeapOnce /\ HeapOrder
    BY DEF TreeInv
  <2>2. HeapBounded
    BY <2>1 DEF HeapBounded, HeapKept, Fits
  <2>3. HeapHoldsNames
    <3>1. ASSUME ~ recycled
          PROVE  /\ IsInjective(hp.h) /\ \A i \in 1 .. Len(hp.h) : hp.idx[hp.h[i]] = i
                 /\ Len(hp.h) < Roof => ToSet(hp.h) = inTree
      <4>1. Once(hp, inTree)
        BY <2>1, <3>1 DEF HeapOnce
      <4>2. Len(hp.h) < Roof => ToSet(hp.h) = inTree
        BY <4>1 DEF Once
      <4> QED
        BY <4>1, <4>2 DEF Once, Exact
    <3>2. ASSUME ~ recycled, ~ sunk PROVE Ordered(hp.h, count)
      BY <2>1, <3>2 DEF HeapOrder, Sorted, InOrder, Ordered
    <3> QED
      BY <3>1, <3>2 DEF HeapHoldsNames
  <2> QED
    BY <2>2, <2>3 DEF HeapSound
<1> QED
  BY <1>1, TreeAlways, PTL

\* The least of two numbers.
LEMMA LeastOfTwo ==
  ASSUME NEW a \in Nat, NEW b \in Nat, NEW m, m = Min({a, b})
  PROVE  m \in Nat /\ m <= a /\ m <= b /\ (m = a \/ m = b)
<1>1. \E x \in {a, b} : \A y \in {a, b} : x <= y
  <2>1. CASE a <= b
    BY <2>1
  <2>2. CASE ~ (a <= b)
    BY <2>2
  <2> QED
    BY <2>1, <2>2
<1>2. m \in {a, b} /\ \A y \in {a, b} : m <= y
  BY <1>1 DEF Min
<1> QED
  BY <1>2

\* A top-N reply of any length, from a heap of any roof: until names are recycled or a
\* new name sinks it has no name twice, is in order, and leaves out no name seen more
\* often than its last but one the heap evicted once, which keeps its old heap_index.
THEOREM TopTheorem == Spec => []TopN
<1>1. TreeInv => TopN
  <2> SUFFICES ASSUME TreeInv, ~ recycled, ~ sunk, NEW n \in 1 .. Roof
               PROVE  LET top == _view_stats_result(n)
                          last == count[Last(top)]
                      IN /\ IsInjective(top)
                         /\ \A i \in 2 .. Len(top) : count[top[i]] <= count[top[i - 1]]
                         /\ top # <<>> => \A s \in inTree \ ToSet(top) :
                              count[s] > last => s \notin ToSet(hp.h) /\ hp.idx[s] # 0
    BY DEF TopN
  <2> DEFINE S == heap_sort(hp, count)
             h == hp.h
             m == Min({n, Len(h)})
             top == _view_stats_result(n)
  <2>1. /\ hp \in Heaps(Slot) /\ h \in Seq(Slot) /\ Len(h) \in Nat /\ IsInjective(h)
        /\ Sorted(hp, count, inTree)
    BY DEF TreeInv, HeapKept, HeapOnce, HeapOrder, Fits, Once, Heaps
  <2>2. /\ count \in [Slot -> 0 .. MaxInserts] /\ inTree \in SUBSET Slot
        /\ \A e \in Slot : count[e] \in Nat
    BY TreeTypes
  <2>3. InOrder(h, count, Len(h))
    BY <2>1 DEF Sorted
  <2>4. S = heap_sort(hp, count) /\ Comparable(count, Slot)
    BY <2>2, CountsCompare
  <2>5. top = SubSeq(S, 1, m)
    BY DEF _view_stats_result
  <2>6. m \in Nat /\ m <= Len(h) /\ m <= n
    <3>1. n \in Nat /\ m = Min({n, Len(h)})
      BY SizeAssumption
    <3> HIDE DEF m
    <3> QED
      BY <2>1, <3>1, LeastOfTwo
  <2> HIDE DEF S, m, top
  <2>7. /\ S \in Seq(Slot) /\ Len(S) = Len(h) /\ ToSet(S) = ToSet(h) /\ IsInjective(S)
        /\ \A i, j \in 1 .. Len(h) : i < j => count[S[j]] <= count[S[i]]
    BY <2>1, <2>3, <2>4, SortIs
  <2>8. \A k \in 1 .. Len(h) : h[k] \in Slot /\ S[k] \in Slot
    BY <2>1, <2>7
  <2> HIDE DEF h
  <2>9. /\ top \in Seq(Slot) /\ Len(top) = m /\ DOMAIN top = 1 .. m
        /\ \A i \in 1 .. m : i \in 1 .. Len(h) /\ top[i] = S[i]
    <3>1. \A i \in 1 .. m : i \in 1 .. Len(h) /\ S[i] \in Slot
      BY <2>1, <2>6, <2>8
    <3>2. top = [i \in 1 .. m |-> S[i]]
      BY <2>5, <2>6, <2>7, <3>1
    <3> QED
      BY <2>6, <3>1, <3>2
  <2>10. IsInjective(top)
    <3>1. \A i, j \in 1 .. Len(h) : S[i] = S[j] => i = j
      BY <2>7 DEF IsInjective
    <3> QED
      BY <2>9, <3>1 DEF IsInjective
  <2>11. \A i \in 2 .. Len(top) : count[top[i]] <= count[top[i - 1]]
    <3>1. ASSUME NEW i \in 2 .. m PROVE count[top[i]] <= count[top[i - 1]]
      <4>1. i \in 1 .. m /\ i - 1 \in 1 .. m /\ i - 1 < i
        BY <2>6
      <4> QED
        BY <2>7, <2>9, <4>1
    <3> QED
      BY <2>9, <3>1
  <2>12. ASSUME top # <<>>, NEW s \in inTree \ ToSet(top), count[s] > count[Last(top)]
         PROVE  s \notin ToSet(h) /\ hp.idx[s] # 0
    <3>1. m > 0 /\ m \in 1 .. m /\ Last(top) = S[m] /\ m \in 1 .. Len(h)
      BY <2>6, <2>9, <2>12 DEF Last
    <3>2. s \in Slot /\ count[s] \in Nat /\ count[S[m]] \in Nat /\ ~ (count[s] <= count[S[m]])
      BY <2>2, <2>8, <2>12, <3>1
    <3>3. s \notin ToSet(h)
      <4>1. ASSUME NEW j \in 1 .. Len(h), s = S[j] PROVE FALSE
        <5>1. ~ (j \in 1 .. m)
          BY <2>9, <2>12, <4>1 DEF ToSet
        <5>2. m < j
          BY <2>6, <5>1
        <5> QED
          BY <2>7, <3>1, <3>2, <4>1, <5>2
      <4>2. DOMAIN S = 1 .. Len(h)
        BY <2>7
      <4>3. s \notin ToSet(S)
        BY <4>1, <4>2 DEF ToSet
      <4> QED
        BY <2>7, <4>3
    <3>4. ASSUME hp.idx[s] = 0 PROVE FALSE
      <4>1. count[s] <= count[h[1]]
        BY <2>1, <2>12, <3>4 DEF Sorted, h
      <4>2. PICK k \in 1 .. Len(h) : S[m] = h[k]
        <5>1. S[m] \in ToSet(S)
          BY <2>7, <3>1 DEF ToSet
        <5>2. S[m] \in ToSet(h)
          BY <2>7, <5>1
        <5>3. DOMAIN h = 1 .. Len(h)
          BY <2>1
        <5> QED
          BY <5>2, <5>3 DEF ToSet
      <4>3. \A l \in 1 .. Len(h) : count[h[l]] \in Nat
        BY <2>2, <2>8
      <4>4. count[h[1]] <= count[h[k]] /\ 1 \in 1 .. Len(h)
        BY <2>1, <2>3, <4>2, <4>3, RootLeast
      <4> QED
        BY <3>2, <4>1, <4>2, <4>3, <4>4
    <3> QED
      BY <3>3, <3>4
  <2> QED
    BY <2>10, <2>11, <2>12 DEF top, h
<1> QED
  BY <1>1, TreeAlways, PTL

-----------------------------------------------------------------------------
(* NameTree: what the list tells of the names.                             *)

\* The names that fit in list l of slots that read as f says, and where.
Names(l, f) == {x \in Name : \E i \in DOMAIN l : f[l[i]] = x}
PlaceOf(l, f, x) == CHOOSE i \in DOMAIN l : f[l[i]] = x

\* K are those names, P their places, and sn and lt what the abstract tree knows of
\* them if c counts the slots.
Shows(l, f, c, K, P, sn, lt) ==
  /\ K \subseteq Name
  /\ \A x \in K : P[x] \in 1 .. Len(l) /\ f[l[P[x]]] = x
  /\ \A i \in 1 .. Len(l) : f[l[i]] \in Name => f[l[i]] \in K /\ P[f[l[i]]] = i
  /\ sn = [x \in K |-> c[l[P[x]]]]
  /\ lt = [x \in K |-> {y \in K : P[y] < P[x]}]

TreeShows == \E K, P : Shows(lru, fqdn, count, K, P, Seen, Later)

\* The list has every name that fits once.
LEMMA ListShows == TreeInv => TreeShows
<1> SUFFICES ASSUME TreeInv PROVE TreeShows
  OBVIOUS
<1>1. lru \in Seq(Slot) /\ IsInjective(lru) /\ ToSet(lru) \subseteq inTree
      /\ \A s, t \in inTree : fqdn[s] \in Name /\ fqdn[s] = fqdn[t] => s = t
  BY DEF TreeInv, TypeOK, SlotsKept, NamesKept
<1>2. ASSUME NEW i \in 1 .. Len(lru), NEW j \in 1 .. Len(lru),
             fqdn[lru[i]] \in Name, fqdn[lru[i]] = fqdn[lru[j]]
      PROVE  i = j
  <2>1. lru[i] \in inTree /\ lru[j] \in inTree
    BY <1>1 DEF ToSet
  <2>2. lru[i] = lru[j]
    BY <1>1, <1>2, <2>1
  <2> QED
    BY <1>1, <2>2 DEF IsInjective
<1>3. DOMAIN lru = 1 .. Len(lru)
  BY <1>1
<1> DEFINE K == Listed
           P == [x \in K |-> Place(x)]
<1>4. ASSUME NEW x \in K
      PROVE  x \in Name /\ P[x] = Place(x) /\ P[x] \in 1 .. Len(lru) /\ fqdn[lru[P[x]]] = x
  <2>1. x \in Name /\ \E i \in DOMAIN lru : fqdn[lru[i]] = x
    BY <1>4 DEF Listed
  <2>2. Place(x) \in DOMAIN lru /\ fqdn[lru[Place(x)]] = x
    BY <2>1 DEF Place
  <2>3. P[x] = Place(x)
    BY <1>4
  <2> QED
    BY <1>3, <2>1, <2>2, <2>3
<1>5. ASSUME NEW i \in 1 .. Len(lru), fqdn[lru[i]] \in Name
      PROVE  fqdn[lru[i]] \in K /\ P[fqdn[lru[i]]] = i
  <2>1. fqdn[lru[i]] \in K
    BY <1>3, <1>5 DEF Listed
  <2> DEFINE x == fqdn[lru[i]]
  <2>2. P[x] \in 1 .. Len(lru) /\ fqdn[lru[P[x]]] = x
    BY <1>4, <2>1
  <2> HIDE DEF P, K
  <2>3. P[x] = i
    BY <1>2, <1>5, <2>2
  <2> QED
    BY <2>1, <2>3
<1>6. Seen = [x \in K |-> count[lru[P[x]]]]
  BY <1>4 DEF Seen
<1>7. Later = [x \in K |-> {y \in K : P[y] < P[x]}]
  BY <1>4 DEF Later
<1> HIDE DEF P, K
<1>8. Shows(lru, fqdn, count, K, P, Seen, Later)
  BY <1>4, <1>5, <1>6, <1>7 DEF Shows
<1> QED
  BY <1>8 DEF TreeShows

\* A name x that comes first, the others behind it as they were.
Heads(K, P, x, J, Q) ==
  /\ J = K \cup {x} /\ Q[x] = 1
  /\ \A y \in K : y # x => Q[y] > 1
  /\ \A y, z \in K : y # x /\ z # x => (Q[y] < Q[z] <=> P[y] < P[z])

\* Its count is one more, or one if it was not there; the others are as they were.
Tallies(l, c, K, P, x, m, d, Q) ==
  /\ \A y \in K : /\ d[m[Q[y]]] = IF y = x THEN c[l[P[y]]] + 1 ELSE c[l[P[y]]]
                  /\ c[l[P[y]]] \in Nat
  /\ x \notin K => d[m[Q[x]]] = 1

\* See(x) of the abstract tree.
Sees(sn, lt, x, ns, tl) ==
  /\ ns = [y \in DOMAIN sn \cup {x} |->
             IF y \notin DOMAIN sn THEN 1 ELSE sn[y] + IF y = x THEN 1 ELSE 0]
  /\ tl = [y \in DOMAIN sn \cup {x} |-> IF y = x THEN {} ELSE lt[y] \cup {x}]

LEMMA HeadsSee ==
  ASSUME NEW l, NEW f, NEW c, NEW K, NEW P, NEW sn, NEW lt, Shows(l, f, c, K, P, sn, lt),
         NEW m, NEW g, NEW d, NEW J, NEW Q, NEW ns, NEW tl, Shows(m, g, d, J, Q, ns, tl),
         NEW x, Heads(K, P, x, J, Q), Tallies(l, c, K, P, x, m, d, Q)
  PROVE  Sees(sn, lt, x, ns, tl)
<1>1. sn = [y \in K |-> c[l[P[y]]]] /\ lt = [y \in K |-> {z \in K : P[z] < P[y]}]
  BY DEF Shows
<1>2. ns = [y \in J |-> d[m[Q[y]]]] /\ tl = [y \in J |-> {z \in J : Q[z] < Q[y]}]
      /\ \A y \in J : Q[y] \in 1 .. Len(m)
  BY DEF Shows
<1>3. J = K \cup {x} /\ Q[x] = 1 /\ DOMAIN sn = K
  BY <1>1 DEF Heads
<1>4. ASSUME NEW y \in J
      PROVE  d[m[Q[y]]] = IF y \notin K THEN 1 ELSE sn[y] + IF y = x THEN 1 ELSE 0
  <2>1. CASE y \notin K
    BY <1>3, <1>4, <2>1 DEF Tallies
  <2>2. CASE y \in K
    BY <1>1, <2>2 DEF Tallies
  <2> QED
    BY <2>1, <2>2
<1>5. ASSUME NEW y \in J
      PROVE  {z \in J : Q[z] < Q[y]} = IF y = x THEN {} ELSE lt[y] \cup {x}
  <2>1. CASE y = x
    <3>1. \A z \in J : ~ (Q[z] < 1)
      BY <1>2
    <3> QED
      BY <1>3, <2>1, <3>1
  <2>2. CASE y # x
    <3>1. y \in K /\ lt[y] = {z \in K : P[z] < P[y]} /\ Q[y] > 1 /\ Q[y] \in Int
      BY <1>1, <1>2, <1>3, <1>5, <2>2 DEF Heads
    <3>2. ASSUME NEW z PROVE z \in {u \in J : Q[u] < Q[y]} <=> z \in lt[y] \cup {x}
      <4>1. CASE z = x
        BY <1>3, <3>1, <4>1
      <4>2. CASE z # x
        BY <1>3, <2>2, <3>1, <4>2 DEF Heads
      <4> QED
        BY <4>1, <4>2
    <3> QED
      BY <2>2, <3>2
  <2> QED
    BY <2>1, <2>2
<1>6. ns = [y \in K \cup {x} |-> IF y \notin K THEN 1 ELSE sn[y] + IF y = x THEN 1 ELSE 0]
  BY <1>2, <1>3, <1>4
<1>7. tl = [y \in K \cup {x} |-> IF y = x THEN {} ELSE lt[y] \cup {x}]
  BY <1>2, <1>3, <1>5
<1> QED
  BY <1>3, <1>6, <1>7 DEF Sees

\* Touching a name that is found brings it to the front.
LEMMA FoundSees ==
  ASSUME TreeInv, TreeShows, TreeShows', NEW x \in AnyName, name_tree_insert_found(x)
  PROVE  x \in Name /\ Sees(Seen, Later, x, Seen', Later')
<1>1. PICK s \in Found(x) : lru' = Touched(s) /\ count' = [count EXCEPT ![s] = @ + 1]
  BY DEF name_tree_insert_found
<1>2. x \notin LongName /\ fqdn' = fqdn
  BY DEF name_tree_insert_found, pool
<1>3. s \in Slot /\ fqdn[s] = x /\ x \in Name /\ s \in ToSet(lru)
  BY <1>1, <1>2, FoundIs
<1>4. lru \in Seq(Slot) /\ count \in [Slot -> 0 .. MaxInserts] /\ \A e \in Slot : count[e] \in Nat
  BY TreeTypes
<1> DEFINE t == Touched(s)
<1>5. t = Touched(s) /\ lru' = t
  BY <1>1
<1> HIDE DEF t
<1>6. PICK k \in 1 .. Len(lru) : lru[k] = s /\ t \in Seq(Slot) /\ Fronted(lru, k, t)
  BY <1>3, <1>4, <1>5, TouchedIs
<1> DEFINE n == Len(lru)
           to(j) == IF j = k THEN 1 ELSE IF j < k THEN j + 1 ELSE j
<1>7. /\ n \in Nat /\ k \in 1 .. n /\ Len(t) = n
      /\ \A i \in 1 .. n : to(i) \in 1 .. n /\ t[to(i)] = lru[i]
  <2>1. /\ n \in Nat /\ k \in 1 .. n /\ Len(t) = n /\ t[1] = lru[k]
        /\ \A i \in 2 .. n : t[i] = IF i <= k THEN lru[i - 1] ELSE lru[i]
    <3>1. n \in Nat /\ k \in 1 .. n
      BY <1>4, <1>6
    <3>2. Fronted(lru, k, t)
      BY <1>6
    <3> QED
      BY <3>1, <3>2 DEF Fronted
  <2> HIDE DEF n
  <2>2. ASSUME NEW i \in 1 .. n PROVE to(i) \in 1 .. n /\ t[to(i)] = lru[i]
    <3>1. CASE i = k
      BY <2>1, <3>1
    <3>2. CASE i < k
      <4>1. i + 1 \in 2 .. n /\ i + 1 <= k /\ (i + 1) - 1 = i /\ to(i) = i + 1
        BY <2>1, <3>2
      <4>2. t[i + 1] = lru[(i + 1) - 1]
        BY <2>1, <4>1
      <4> QED
        BY <4>1, <4>2
    <3>3. CASE i > k
      <4>1. i \in 2 .. n /\ ~ (i <= k) /\ to(i) = i
        BY <2>1, <3>3
      <4> QED
        BY <2>1, <4>1
    <3> QED
      BY <2>1, <3>1, <3>2, <3>3
  <2> QED
    BY <2>1, <2>2
<1>8. \A i \in 1 .. n : \E j \in 1 .. n : i = to(j)
  <2>1. ASSUME NEW i \in 1 .. n PROVE \E j \in 1 .. n : i = to(j)
    <3> DEFINE j == IF i = 1 THEN k ELSE IF i <= k THEN i - 1 ELSE i
    <3>1. j \in 1 .. n /\ to(j) = i
      BY <1>7
    <3> QED
      BY <3>1
  <2> QED
    BY <2>1
<1>9. PICK K, P : Shows(lru, fqdn, count, K, P, Seen, Later)
  BY DEF TreeShows
<1>10. PICK J, Q : Shows(t, fqdn, count', J, Q, Seen', Later')
  BY <1>2, <1>5 DEF TreeShows
<1>11. \A y \in K : y \in Name /\ P[y] \in 1 .. n /\ fqdn[lru[P[y]]] = y
  BY <1>9 DEF Shows
<1>12. \A i \in 1 .. n : fqdn[lru[i]] \in Name => fqdn[lru[i]] \in K /\ P[fqdn[lru[i]]] = i
  BY <1>9 DEF Shows
<1>13. \A y \in J : y \in Name /\ Q[y] \in 1 .. n /\ fqdn[t[Q[y]]] = y
  BY <1>7, <1>10 DEF Shows
<1>14. \A i \in 1 .. n : fqdn[t[i]] \in Name => fqdn[t[i]] \in J /\ Q[fqdn[t[i]]] = i
  BY <1>7, <1>10 DEF Shows
<1>15. to(k) = 1
  OBVIOUS
<1>16. ASSUME NEW j \in 1 .. n, j # k PROVE to(j) > 1 /\ to(j) = IF j < k THEN j + 1 ELSE j
  BY <1>7, <1>16
<1>17. ASSUME NEW i \in 1 .. n, NEW j \in 1 .. n, i # k, j # k PROVE to(i) < to(j) <=> i < j
  BY <1>7, <1>17
<1> HIDE DEF n, to
<1>18. ASSUME NEW y \in K PROVE y \in J /\ Q[y] = to(P[y])
  <2>1. fqdn[t[to(P[y])]] = y /\ to(P[y]) \in 1 .. n /\ y \in Name
    BY <1>7, <1>11
  <2> QED
    BY <1>14, <2>1
<1>19. ASSUME NEW y \in J PROVE y \in K
  <2>1. PICK j \in 1 .. n : Q[y] = to(j)
    BY <1>8, <1>13
  <2>2. fqdn[lru[j]] = y /\ y \in Name
    BY <1>7, <1>13, <2>1
  <2> QED
    BY <1>12, <2>2
<1>20. x \in K /\ P[x] = k
  BY <1>3, <1>6, <1>7, <1>12
<1>21. \A y \in K : y # x => P[y] # k
  BY <1>3, <1>6, <1>11
<1>22. Heads(K, P, x, J, Q)
  <2>1. J = K \cup {x}
    BY <1>18, <1>19, <1>20
  <2>2. Q[x] = 1
    BY <1>15, <1>18, <1>20
  <2>3. \A y \in K : y # x => Q[y] > 1
    BY <1>11, <1>16, <1>18, <1>21
  <2>4. ASSUME NEW y \in K, NEW z \in K, y # x, z # x PROVE Q[y] < Q[z] <=> P[y] < P[z]
    <3>1. to(P[y]) < to(P[z]) <=> P[y] < P[z]
      BY <1>11, <1>17, <1>21, <2>4
    <3> QED
      BY <1>18, <3>1
  <2> QED
    BY <2>1, <2>2, <2>3, <2>4 DEF Heads
<1>23. ASSUME NEW y \in K
       PROVE  /\ count'[t[Q[y]]] = IF y = x THEN count[lru[P[y]]] + 1 ELSE count[lru[P[y]]]
              /\ count[lru[P[y]]] \in Nat
  <2>1. t[Q[y]] = lru[P[y]] /\ lru[P[y]] \in Slot
    BY <1>4, <1>7, <1>11, <1>18 DEF n
  <2>2. lru[P[y]] = s <=> y = x
    BY <1>3, <1>6, <1>11, <1>20
  <2> QED
    BY <1>1, <1>3, <1>4, <2>1, <2>2
<1>24. Tallies(lru, count, K, P, x, t, count', Q)
  BY <1>20, <1>23 DEF Tallies
<1>25. Sees(Seen, Later, x, Seen', Later')
  BY <1>9, <1>10, <1>22, <1>24, HeadsSee
<1> QED
  BY <1>3, <1>25

\* m is l with a slot s in front that reads as x and was counted once; the others read
\* and count as before.
Consing(l, f, c, s, x, m, g, d) ==
  /\ l \in Seq(Slot) /\ c \in [Slot -> Nat] /\ s \in Slot /\ s \notin ToSet(l) /\ m = <<s>> \o l
  /\ g[s] = x /\ \A e \in Slot : e # s => g[e] = f[e]
  /\ d[s] = 1 /\ \A e \in Slot : e # s => d[e] = c[e]

\* What that changes.
LEMMA ConsedShows ==
  ASSUME NEW l, NEW f, NEW c, NEW K, NEW P, NEW sn, NEW lt, Shows(l, f, c, K, P, sn, lt),
         NEW s, NEW x, x \notin K, NEW m, NEW g, NEW d, Consing(l, f, c, s, x, m, g, d),
         NEW J, NEW Q, NEW ns, NEW tl, Shows(m, g, d, J, Q, ns, tl)
  PROVE  /\ x \in Name => Sees(sn, lt, x, ns, tl)
         /\ x \notin Name => ns = sn /\ tl = lt
<1> DEFINE n == Len(l)
<1>0. /\ l \in Seq(Slot) /\ c \in [Slot -> Nat] /\ s \in Slot /\ s \notin ToSet(l)
      /\ g[s] = x /\ \A e \in Slot : e # s => g[e] = f[e]
      /\ d[s] = 1 /\ \A e \in Slot : e # s => d[e] = c[e]
  BY DEF Consing
<1>1. n \in Nat /\ Len(m) = n + 1 /\ m[1] = s /\ \A i \in 1 .. n : m[i + 1] = l[i]
  <2>1. l \in Seq(Slot) /\ s \in Slot /\ m = <<s>> \o l
    BY DEF Consing
  <2> QED
    BY <2>1, Consed
<1>2. \A i \in 1 .. n : l[i] \in Slot /\ l[i] # s
  BY <1>0 DEF ToSet
<1>3. \A y \in K : y \in Name /\ P[y] \in 1 .. n /\ f[l[P[y]]] = y
  BY DEF Shows
<1>4. \A i \in 1 .. n : f[l[i]] \in Name => f[l[i]] \in K /\ P[f[l[i]]] = i
  BY DEF Shows
<1>5. \A y \in J : y \in Name /\ Q[y] \in 1 .. n + 1 /\ g[m[Q[y]]] = y
  BY <1>1 DEF Shows
<1>6. \A i \in 1 .. n + 1 : g[m[i]] \in Name => g[m[i]] \in J /\ Q[g[m[i]]] = i
  BY <1>1 DEF Shows
<1>7. sn = [y \in K |-> c[l[P[y]]]] /\ lt = [y \in K |-> {z \in K : P[z] < P[y]}]
      /\ ns = [y \in J |-> d[m[Q[y]]]] /\ tl = [y \in J |-> {z \in J : Q[z] < Q[y]}]
  BY DEF Shows
<1> HIDE DEF n
<1>8. ASSUME NEW y \in K
      PROVE  /\ y \in J /\ Q[y] = P[y] + 1 /\ Q[y] > 1 /\ y # x
             /\ d[m[Q[y]]] = c[l[P[y]]] /\ c[l[P[y]]] \in Nat
  <2>1. P[y] \in 1 .. n /\ P[y] + 1 \in 1 .. n + 1 /\ P[y] + 1 > 1 /\ y \in Name
    BY <1>1, <1>3
  <2>2. m[P[y] + 1] = l[P[y]] /\ l[P[y]] \in Slot /\ l[P[y]] # s
    BY <1>1, <1>2, <2>1
  <2>3. g[m[P[y] + 1]] = y
    BY <1>0, <1>3, <2>2
  <2>4. y \in J /\ Q[y] = P[y] + 1
    BY <1>6, <2>1, <2>3
  <2> QED
    BY <1>0, <2>1, <2>2, <2>4
<1>9. ASSUME NEW y \in J, y # x PROVE y \in K
  <2>1. Q[y] # 1
    BY <1>0, <1>1, <1>5, <1>9
  <2>2. Q[y] - 1 \in 1 .. n /\ (Q[y] - 1) + 1 = Q[y]
    BY <1>1, <1>5, <2>1
  <2>3. m[Q[y]] = l[Q[y] - 1] /\ l[Q[y] - 1] \in Slot /\ l[Q[y] - 1] # s
    BY <1>1, <1>2, <2>2
  <2>4. f[l[Q[y] - 1]] = y /\ y \in Name
    BY <1>0, <1>5, <2>3
  <2> QED
    BY <1>4, <2>2, <2>4
<1>10. CASE x \in Name
  <2>1. x \in J /\ Q[x] = 1 /\ d[m[Q[x]]] = 1
    BY <1>0, <1>1, <1>6, <1>10
  <2>2. Heads(K, P, x, J, Q)
    <3>1. J = K \cup {x}
      BY <1>8, <1>9, <2>1
    <3>2. \A y, z \in K : Q[y] < Q[z] <=> P[y] < P[z]
      BY <1>3, <1>8
    <3> QED
      BY <1>8, <2>1, <3>1, <3>2 DEF Heads
  <2>3. \A y \in K : d[m[Q[y]]] = IF y = x THEN c[l[P[y]]] + 1 ELSE c[l[P[y]]]
    BY <1>8
  <2>4. \A y \in K : c[l[P[y]]] \in Nat
    BY <1>8
  <2>5. Tallies(l, c, K, P, x, m, d, Q)
    BY <2>1, <2>3, <2>4 DEF Tallies
  <2>6. Sees(sn, lt, x, ns, tl)
    BY <2>2, <2>5, HeadsSee
  <2> QED
    BY <1>10, <2>6
<1>11. CASE x \notin Name
  <2>1. x \notin J
    BY <1>5, <1>11
  <2>2. J = K
    BY <1>8, <1>9, <2>1
  <2>3. ns = sn
    BY <1>7, <1>8, <2>2
  <2>4. \A y \in K : {z \in K : Q[z] < Q[y]} = {z \in K : P[z] < P[y]}
    BY <1>3, <1>8
  <2>5. tl = lt
    BY <1>7, <2>2, <2>4
  <2> QED
    BY <1>11, <2>3, <2>5
<1> QED
  BY <1>10, <1>11

\* A new name that fits is seen for the first time; one that overruns its slot is none of
\* the abstract tree's.
LEMMA NewSees ==
  ASSUME TreeInv, TreeShows, TreeShows', NEW x \in AnyName, name_tree_insert_new(x)
  PROVE  /\ x \in Name => Sees(Seen, Later, x, Seen', Later')
         /\ x \notin Name => Seen' = Seen /\ Later' = Later
<1> DEFINE s == mem_pool_alloc
<1>1. /\ inserts < MaxInserts /\ Found(x) = {} /\ fqdn' = [fqdn EXCEPT ![s] = x]
      /\ lru' = <<s>> \o lru /\ count' = [count EXCEPT ![s] = 1]
  BY DEF name_tree_insert_new, Insert
<1>2. TypeOK /\ SlotsKept /\ NamesKept
  BY DEF TreeInv
<1>3. /\ lru \in Seq(Slot) /\ inTree \in SUBSET Slot /\ count \in [Slot -> 0 .. MaxInserts]
      /\ \A e \in Slot : count[e] \in Nat
  BY TreeTypes
<1>4. s \in Slot /\ s \notin inTree
  <2> DEFINE f == IF freed # <<>> THEN Tail(freed) ELSE <<>>
             T == inTree \cup {s}
             m == Cardinality(T) + Len(f)
  <2>1. Taken(s, f, T, m)
    BY DEF Taken
  <2> HIDE DEF s, f, T, m
  <2> QED
    BY <1>1, <1>2, <2>1, AllocIs
<1> HIDE DEF s
<1>5. s \notin ToSet(lru)
  BY <1>2, <1>4 DEF SlotsKept
<1>6. fqdn'[s] = x /\ \A e \in Slot : e # s => fqdn'[e] = fqdn[e]
  BY <1>1, <1>2, <1>4 DEF TypeOK, Fields
<1>7. /\ count \in [Slot -> Nat] /\ count'[s] = 1
      /\ \A e \in Slot : e # s => count'[e] = count[e]
  BY <1>1, <1>3, <1>4
<1>8. PICK K, P : Shows(lru, fqdn, count, K, P, Seen, Later)
  BY DEF TreeShows
<1>9. PICK J, Q : Shows(lru', fqdn', count', J, Q, Seen', Later')
  BY DEF TreeShows
<1>10. x \notin K
  <2>1. ASSUME x \in K PROVE FALSE
    <3>1. x \in Name /\ P[x] \in 1 .. Len(lru) /\ fqdn[lru[P[x]]] = x
      BY <1>8, <2>1 DEF Shows
    <3>2. lru[P[x]] \in inTree
      BY <1>2, <3>1 DEF SlotsKept, ToSet
    <3>3. ~ Overruns(lru[P[x]])
      BY <3>1, NameAssumption DEF Overruns
    <3> QED
      BY <1>1, <3>1, <3>2, <3>3 DEF Found
  <2> QED
    BY <2>1
<1> DEFINE m == <<s>> \o lru
<1>11. m = <<s>> \o lru /\ lru' = m
  BY <1>1
<1> HIDE DEF m
<1>12. Shows(m, fqdn', count', J, Q, Seen', Later')
  BY <1>9, <1>11
<1>13. Consing(lru, fqdn, count, s, x, m, fqdn', count')
  BY <1>3, <1>4, <1>5, <1>6, <1>7, <1>11 DEF Consing
<1> QED
  BY <1>8, <1>10, <1>12, <1>13, ConsedShows

\* Forget of the abstract tree.
Forgets(sn, lt, ns, tl) ==
  \E x \in DOMAIN sn :
    /\ lt[x] = DOMAIN sn \ {x}
    /\ ns = [y \in DOMAIN sn \ {x} |-> sn[y]]
    /\ tl = [y \in DOMAIN sn \ {x} |-> lt[y]]

\* What taking the tail off the list changes, and the name of its slot if it fits.
LEMMA FrontShows ==
  ASSUME NEW l \in Seq(Slot), l # <<>>, IsInjective(l), NEW f, NEW c, NEW K, NEW P, NEW sn, NEW lt,
         Shows(l, f, c, K, P, sn, lt),
         NEW m, m = Front(l), NEW s, s = Last(l),
         NEW g, \A e \in Slot : e # s => g[e] = f[e],
         NEW J, NEW Q, NEW ns, NEW tl, Shows(m, g, c, J, Q, ns, tl)
  PROVE  Forgets(sn, lt, ns, tl) \/ (ns = sn /\ tl = lt)
<1> DEFINE n == Len(l)
<1>1. /\ n \in Nat /\ n > 0 /\ Len(m) = n - 1 /\ s = l[n] /\ n \in 1 .. n
      /\ \A i \in 1 .. n - 1 : m[i] = l[i]
  <2>1. /\ Len(l) \in Nat /\ Len(l) > 0 /\ Last(l) = l[Len(l)] /\ Len(m) = Len(l) - 1
        /\ \A i \in 1 .. Len(l) - 1 : m[i] = l[i]
    BY FrontIs
  <2> QED
    BY <2>1
<1>2. \A i, j \in 1 .. n : l[i] = l[j] => i = j
  BY DEF IsInjective
<1>3. \A i \in 1 .. n : l[i] \in Slot
  OBVIOUS
<1>4. \A y \in K : y \in Name /\ P[y] \in 1 .. n /\ f[l[P[y]]] = y
  BY DEF Shows
<1>5. \A i \in 1 .. n : f[l[i]] \in Name => f[l[i]] \in K /\ P[f[l[i]]] = i
  BY DEF Shows
<1>6. \A y \in J : y \in Name /\ Q[y] \in 1 .. n - 1 /\ g[m[Q[y]]] = y
  BY <1>1 DEF Shows
<1>7. \A i \in 1 .. n - 1 : g[m[i]] \in Name => g[m[i]] \in J /\ Q[g[m[i]]] = i
  BY <1>1 DEF Shows
<1>8. sn = [y \in K |-> c[l[P[y]]]] /\ lt = [y \in K |-> {z \in K : P[z] < P[y]}]
      /\ ns = [y \in J |-> c[m[Q[y]]]] /\ tl = [y \in J |-> {z \in J : Q[z] < Q[y]}]
  BY DEF Shows
<1> HIDE DEF n
<1>9. ASSUME NEW i \in 1 .. n - 1 PROVE i \in 1 .. n /\ i # n /\ m[i] = l[i] /\ g[m[i]] = f[l[i]]
  <2>1. i \in 1 .. n /\ i # n
    BY <1>1
  <2>2. l[i] # s /\ l[i] \in Slot
    BY <1>1, <1>2, <1>3, <2>1
  <2> QED
    BY <1>1, <2>1, <2>2
<1>10. ASSUME NEW y \in K, P[y] # n PROVE y \in J /\ Q[y] = P[y] /\ m[Q[y]] = l[P[y]]
  <2>1. P[y] \in 1 .. n - 1 /\ y \in Name
    BY <1>1, <1>4, <1>10
  <2>2. g[m[P[y]]] = y /\ m[P[y]] = l[P[y]]
    BY <1>4, <1>9, <2>1
  <2> QED
    BY <1>7, <2>1, <2>2
<1>11. ASSUME NEW y \in J PROVE y \in K /\ P[y] # n
  <2>1. Q[y] \in 1 .. n - 1 /\ y \in Name
    BY <1>6
  <2>2. f[l[Q[y]]] = y /\ Q[y] \in 1 .. n /\ Q[y] # n
    BY <1>6, <1>9, <2>1
  <2> QED
    BY <1>5, <2>1, <2>2
<1>12. CASE \E x \in K : P[x] = n
  <2>1. PICK x \in K : P[x] = n
    BY <1>12
  <2>2. \A y \in K : P[y] = n <=> y = x
    BY <1>4, <2>1
  <2>3. J = K \ {x}
    BY <1>10, <1>11, <2>2
  <2>4. DOMAIN sn = K
    BY <1>8
  <2>5. lt[x] = K \ {x}
    <3>1. \A y \in K : P[y] < n <=> y # x
      BY <1>1, <1>4, <2>2
    <3>2. lt[x] = {y \in K : P[y] < n}
      BY <1>8, <2>1
    <3> QED
      BY <3>1, <3>2
  <2>6. ns = [y \in K \ {x} |-> sn[y]]
    BY <1>8, <1>10, <2>2, <2>3
  <2>7. tl = [y \in K \ {x} |-> lt[y]]
    <3>1. ASSUME NEW y \in K \ {x} PROVE {z \in K \ {x} : Q[z] < Q[y]} = lt[y]
      <4>1. lt[y] = {z \in K : P[z] < P[y]}
        BY <1>8
      <4>2. ~ (P[x] < P[y]) /\ Q[y] = P[y]
        BY <1>1, <1>4, <1>10, <2>1, <2>2
      <4>3. \A z \in K \ {x} : Q[z] = P[z]
        BY <1>10, <2>2
      <4> QED
        BY <4>1, <4>2, <4>3
    <3> QED
      BY <1>8, <2>3, <3>1
  <2> QED
    BY <2>1, <2>4, <2>5, <2>6, <2>7 DEF Forgets
<1>13. CASE ~ \E x \in K : P[x] = n
  <2>1. J = K
    BY <1>10, <1>11, <1>13
  <2>2. \A y \in K : Q[y] = P[y] /\ m[Q[y]] = l[P[y]]
    BY <1>10, <1>13
  <2>3. ns = sn
    BY <1>8, <2>1, <2>2
  <2>4. tl = lt
    BY <1>8, <2>1, <2>2
  <2> QED
    BY <2>3, <2>4
<1> QED
  BY <1>12, <1>13

\* Recycling forgets the name that was not seen for the longest time; an overrun name at
\* the tail was none of the abstract tree's.
LEMMA StepForgets ==
  ASSUME TreeInv, TreeShows, TreeShows', view_stats_set_memsize_step
  PROVE  Forgets(Seen, Later, Seen', Later') \/ (Seen' = Seen /\ Later' = Later)
<1>1. /\ lru # <<>> /\ lru' = Front(lru) /\ count' = count /\ name_tree_delete(Last(lru))
  BY DEF view_stats_set_memsize_step
<1>2. lru \in Seq(Slot) /\ IsInjective(lru) /\ fqdn \in [Slot -> AnyName \cup {NULL}]
  BY DEF TreeInv, TypeOK, SlotsKept, Fields
<1> DEFINE s == Last(lru)
           m == Front(lru)
<1>3. \A e \in Slot : e # s => fqdn'[e] = fqdn[e]
  BY <1>1, <1>2 DEF name_tree_delete, pool
<1>4. s = Last(lru) /\ m = Front(lru) /\ lru' = m
  BY <1>1
<1> HIDE DEF s, m
<1>5. PICK K, P : Shows(lru, fqdn, count, K, P, Seen, Later)
  BY DEF TreeShows
<1>6. PICK J, Q : Shows(m, fqdn', count, J, Q, Seen', Later')
  BY <1>1, <1>4 DEF TreeShows
<1> QED
  BY <1>1, <1>2, <1>3, <1>4, <1>5, <1>6, FrontShows

\* Every other action sees one name or changes nothing the abstract tree knows.
LEMMA OthersSee ==
  ASSUME TreeInv, TreeShows, TreeShows', [Next]_vars, ~ view_stats_set_memsize_step
  PROVE  (\E x \in Name : Sees(Seen, Later, x, Seen', Later')) \/ (Seen' = Seen /\ Later' = Later)
<1>1. ASSUME UNCHANGED <<pool, count, hp, lru>> PROVE Seen' = Seen /\ Later' = Later
  <2>1. fqdn' = fqdn /\ count' = count /\ lru' = lru
    BY <1>1 DEF pool
  <2>2. Listed' = Listed
    BY <2>1 DEF Listed
  <2>3. \A x : Place(x)' = Place(x)
    BY <2>1 DEF Place
  <2>4. Seen' = Seen
    BY <2>1, <2>2, <2>3 DEF Seen
  <2>5. Later' = Later
    BY <2>2, <2>3 DEF Later
  <2> QED
    BY <2>4, <2>5
<1>2. ASSUME NEW x \in AnyName, name_tree_insert_refused(x) PROVE Seen' = Seen /\ Later' = Later
  BY <1>1, <1>2 DEF name_tree_insert_refused
<1>3. ASSUME NEW x \in AnyName, name_tree_insert_found(x)
      PROVE  x \in Name /\ Sees(Seen, Later, x, Seen', Later')
  BY <1>3, FoundSees
<1>4. ASSUME NEW x \in AnyName, name_tree_insert_new(x)
      PROVE  (x \in Name /\ Sees(Seen, Later, x, Seen', Later')) \/ (Seen' = Seen /\ Later' = Later)
  BY <1>4, NewSees
<1>5. ASSUME NEW size \in Expect, view_stats_set_memsize(size) PROVE Seen' = Seen /\ Later' = Later
  BY <1>1, <1>5 DEF view_stats_set_memsize
<1>6. ASSUME view_stats_set_memsize_return PROVE Seen' = Seen /\ Later' = Later
  BY <1>1, <1>6 DEF view_stats_set_memsize_return
<1>7. ASSUME UNCHANGED vars PROVE Seen' = Seen /\ Later' = Later
  BY <1>1, <1>7 DEF vars
<1> QED
  BY <1>2, <1>3, <1>4, <1>5, <1>6, <1>7 DEF Next

\* A seen name is known afterwards, and nothing else is forgotten.
LEMMA SeesKeeps ==
  ASSUME NEW sn, NEW lt, NEW ns, NEW tl,
         (\E x \in Name : Sees(sn, lt, x, ns, tl)) \/ (ns = sn /\ tl = lt)
  PROVE  ~ Forgets(sn, lt, ns, tl)
<1>1. DOMAIN sn \subseteq DOMAIN ns
  <2>1. CASE \E x \in Name : Sees(sn, lt, x, ns, tl)
    <3>1. PICK x \in Name : Sees(sn, lt, x, ns, tl)
      BY <2>1
    <3>2. DOMAIN ns = DOMAIN sn \cup {x}
      BY <3>1 DEF Sees
    <3> QED
      BY <3>2
  <2>2. CASE ns = sn
    BY <2>2
  <2> QED
    BY <2>1, <2>2
<1>2. ASSUME Forgets(sn, lt, ns, tl) PROVE FALSE
  <2>1. PICK x \in DOMAIN sn : ns = [y \in DOMAIN sn \ {x} |-> sn[y]]
    BY <1>2 DEF Forgets
  <2>2. DOMAIN ns = DOMAIN sn \ {x}
    BY <2>1
  <2> QED
    BY <1>1, <2>1, <2>2
<1> QED
  BY <1>2

\* The actions of the abstract tree, under the mapping.
LEMMA AbstractActions ==
  /\ \A x : Abstract!See(x) <=> Sees(Seen, Later, x, Seen', Later')
  /\ Abstract!Forget <=> Forgets(Seen, Later, Seen', Later')
<1>1. ASSUME NEW x PROVE Abstract!See(x) <=> Sees(Seen, Later, x, Seen', Later')
  BY DEF Abstract!See, Abstract!Known, Sees
<1>2. Abstract!Forget <=> Forgets(Seen, Later, Seen', Later')
  BY DEF Abstract!Forget, Abstract!Known, Forgets
<1> QED
  BY <1>1, <1>2

\* Tree, pool and list together implement the abstract tree, for any names, any number of
\* insertions and any sizes to recycle to: they count every name that fits, forget only by
\* recycling, and forget names in the order they were last seen, although slots are reused
\* and some names overrun theirs.
THEOREM NameTheorem == Spec => ImplementsNameSpec
<1>1. Init => Abstract!Init
  <2> SUFFICES ASSUME Init PROVE Abstract!Init
    OBVIOUS
  <2>1. lru = <<>> /\ DOMAIN lru = {}
    BY DEF Init
  <2>2. Listed = {}
    BY <2>1 DEF Listed
  <2> QED
    BY <2>2 DEF Abstract!Init, Seen, Later
<1>2. TreeInv => TreeShows
  BY ListShows
<1>3. TreeInv /\ TreeInv' /\ TreeShows /\ TreeShows' /\ [Next]_vars
        => [Abstract!Next]_(Abstract!vars) /\ [CallsMatch]_vars
  <2> SUFFICES ASSUME TreeInv, TreeShows, TreeShows', [Next]_vars
               PROVE  [Abstract!Next]_(Abstract!vars) /\ CallsMatch
    OBVIOUS
  <2>1. ASSUME ~ view_stats_set_memsize_step
        PROVE  /\ (\E x \in Name : Abstract!See(x)) \/ (Seen' = Seen /\ Later' = Later)
               /\ ~ Abstract!Forget
    BY <2>1, OthersSee, SeesKeeps, AbstractActions
  <2>2. ASSUME view_stats_set_memsize_step
        PROVE  Abstract!Forget \/ (Seen' = Seen /\ Later' = Later)
    BY <2>2, StepForgets, AbstractActions
  <2>3. ASSUME NEW x \in Name, name_tree_insert_found(x) \/ name_tree_insert_new(x)
        PROVE  Abstract!See(x)
    <3>1. x \in AnyName
      BY DEF AnyName
    <3>2. Sees(Seen, Later, x, Seen', Later')
      BY <2>3, <3>1, FoundSees, NewSees
    <3> QED
      BY <3>2, AbstractActions
  <2>4. CallsMatch
    BY <2>1, <2>3 DEF CallsMatch
  <2>5. [Abstract!Next]_(Abstract!vars)
    BY <2>1, <2>2 DEF Abstract!Next, Abstract!vars
  <2> QED
    BY <2>4, <2>5
<1> QED
  BY <1>1, <1>2, <1>3, TreeAlways, PTL DEF Spec, ImplementsNameSpec, Abstract!Spec
=============================================================================
