------------------------- MODULE HouseKeeperProofs -------------------------
(***************************************************************************)
(* Proofs about HouseKeeper for any number of clients, views and lines.    *)
(***************************************************************************)
EXTENDS HouseKeeper, Functions, FunctionTheorems, SequenceTheorems, FiniteSetTheorems,
        WellFoundedInduction, TLAPS

-----------------------------------------------------------------------------
(* Sums over sets.  Facts that hold by induction are proved by least       *)
(* counterexample: the natural numbers are well-founded, so a set of       *)
(* numbers has a least member and a set of finite sets a smallest one.     *)
(* The recursive function behind SumFunctionOnSet exists on the subsets of *)
(* every finite set, and its value does not depend on the order in which   *)
(* CHOOSE takes the elements out.                                          *)

\* A set of numbers has a least one.
LEMMA LeastIs ==
  ASSUME NEW S \in SUBSET Nat, S # {}
  PROVE  \E m \in S : \A n \in S : m <= n
<1>1. PICK m \in S : \A n \in S : ~ (<<n, m>> \in OpToRel(<, Nat))
  BY NatLessThanWellFounded, WFMin
<1>2. \A n \in S : ~ (n < m)
  BY <1>1 DEF OpToRel
<1> QED
  BY <1>2

\* A set of finite sets has a smallest one.
LEMMA SmallestSet ==
  ASSUME NEW S, IsFiniteSet(S), NEW B \in SUBSET SUBSET S, B # {}
  PROVE  \E T \in B : \A U \in B : Cardinality(T) <= Cardinality(U)
<1> DEFINE N == {Cardinality(T) : T \in B}
<1>1. \A T \in B : IsFiniteSet(T) /\ Cardinality(T) \in Nat
  BY FS_Subset, FS_CardinalityType
<1>2. N \subseteq Nat /\ N # {}
  BY <1>1
<1> HIDE DEF N
<1>3. PICK n \in N : \A k \in N : n <= k
  BY <1>2, LeastIs
<1> USE DEF N
<1>5. PICK T \in B : n = Cardinality(T)
  BY <1>3
<1>6. \A U \in B : Cardinality(T) <= Cardinality(U)
  BY <1>3, <1>5
<1> QED
  BY <1>6

\* The element the fold takes out of a set first, and the step of the fold.
FirstOf(s) == CHOOSE x \in s : TRUE
FoldStep(f, g, s) == IF s = {} THEN 0 ELSE f[FirstOf(s)] + g[s \ {FirstOf(s)}]
IsFold(f, S, g) == g = [s \in SUBSET S |-> FoldStep(f, g, s)]

\* A set without one of its elements has one element less.
LEMMA Smaller ==
  ASSUME NEW s, IsFiniteSet(s), NEW x \in s
  PROVE  /\ IsFiniteSet(s \ {x}) /\ Cardinality(s) \in Nat /\ Cardinality(s \ {x}) \in Nat
         /\ Cardinality(s \ {x}) = Cardinality(s) - 1
BY FS_RemoveElement, FS_CardinalityType

\* A set that is not empty has a first element.
LEMMA FirstIn == ASSUME NEW s, s # {} PROVE FirstOf(s) \in s
BY DEF FirstOf

\* The recursion of the fold has a solution on the subsets of a finite set.
LEMMA FoldExists ==
  ASSUME NEW S, IsFiniteSet(S), NEW f PROVE \E g : IsFold(f, S, g)
<1> DEFINE D(n) == {s \in SUBSET S : Cardinality(s) <= n}
           Solves(g, n) == g = [s \in D(n) |-> FoldStep(f, g, s)]
           Bad == {n \in Nat : ~ \E g : Solves(g, n)}
<1>1. \A s \in SUBSET S : IsFiniteSet(s) /\ Cardinality(s) \in Nat
  BY FS_Subset, FS_CardinalityType
<1>2. Bad = {}
  <2> SUFFICES ASSUME Bad # {} PROVE FALSE
    OBVIOUS
  <2> HIDE DEF Solves
  <2>1. PICK m \in Bad : \A k \in Bad : m <= k
    BY LeastIs
  <2>2. m \in Nat
    OBVIOUS
  <2> USE DEF Solves
  <2>3. m # 0
    <3> DEFINE g == [s \in D(0) |-> 0]
    <3>1. \A s \in D(0) : s = {}
      BY <1>1, FS_EmptySet
    <3>2. Solves(g, 0)
      BY <3>1 DEF FoldStep
    <3> QED
      BY <2>1, <3>2
  <2>4. m - 1 \in Nat /\ m - 1 \notin Bad
    <3> HIDE DEF Bad
    <3> QED
      BY <2>1, <2>2, <2>3
  <2>5. PICK g : Solves(g, m - 1)
    BY <2>4
  <2> DEFINE h == [s \in D(m) |-> FoldStep(f, g, s)]
  <2>6. ASSUME NEW s \in D(m) PROVE FoldStep(f, g, s) = FoldStep(f, h, s)
    <3>1. CASE s = {}
      BY <3>1 DEF FoldStep
    <3>2. CASE s # {}
      <4> DEFINE r == s \ {FirstOf(s)}
      <4>1. r \in D(m - 1) /\ r \in D(m)
        BY <1>1, <2>2, <3>2, FirstIn, Smaller
      <4>2. g[r] = FoldStep(f, g, r)
        BY <2>5, <4>1
      <4>3. h[r] = FoldStep(f, g, r)
        BY <4>1
      <4> QED
        BY <3>2, <4>2, <4>3 DEF FoldStep
    <3> QED
      BY <3>1, <3>2
  <2>7. Solves(h, m)
    BY <2>6
  <2> QED
    BY <2>1, <2>7
<1>3. PICK g : Solves(g, Cardinality(S))
  BY <1>1, <1>2
<1>4. D(Cardinality(S)) = SUBSET S
  BY FS_Subset
<1> QED
  BY <1>3, <1>4 DEF IsFold

\* The sum is the value of a solution, and solutions agree.
LEMMA SumIsFold ==
  ASSUME NEW S, IsFiniteSet(S), NEW f
  PROVE  \E g : IsFold(f, S, g) /\ SumFunctionOnSet(f, S) = g[S]
<1> DEFINE g == CHOOSE g : g = [s \in SUBSET S |->
                  IF s = {} THEN 0 ELSE f[CHOOSE x \in s : TRUE] + g[s \ {CHOOSE x \in s : TRUE}]]
<1>1. SumFunctionOnSet(f, S) = g[S]
  BY Zenon DEF SumFunctionOnSet, FoldFunctionOnSet, MapThenFoldSet
<1>2. \E h : IsFold(f, S, h)
  BY FoldExists
<1>3. IsFold(f, S, g)
  BY <1>2, Zenon DEF IsFold, FoldStep, FirstOf
<1> QED
  BY <1>1, <1>3

\* Two solutions agree on the subsets they have in common.
LEMMA FoldsAgree ==
  ASSUME NEW S, IsFiniteSet(S), NEW T \in SUBSET S, NEW f, NEW g, NEW h,
         IsFold(f, S, g), IsFold(f, T, h)
  PROVE  \A s \in SUBSET T : g[s] = h[s]
<1> DEFINE Bad == {s \in SUBSET T : g[s] # h[s]}
<1> SUFFICES ASSUME Bad # {} PROVE FALSE
  OBVIOUS
<1>1. IsFiniteSet(T)
  BY FS_Subset
<1>2. PICK s \in Bad : \A r \in Bad : Cardinality(s) <= Cardinality(r)
  BY <1>1, SmallestSet
<1>3. IsFiniteSet(s)
  BY <1>1, FS_Subset
<1>4. g[s] = FoldStep(f, g, s) /\ h[s] = FoldStep(f, h, s)
  BY <1>2 DEF IsFold
<1>5. CASE s = {}
  BY <1>2, <1>4, <1>5 DEF FoldStep
<1>6. CASE s # {}
  <2>1. s \ {FirstOf(s)} \notin Bad
    <3>1. FirstOf(s) \in s
      BY <1>6, FirstIn
    <3>2. /\ Cardinality(s) \in Nat /\ Cardinality(s \ {FirstOf(s)}) \in Nat
          /\ Cardinality(s \ {FirstOf(s)}) = Cardinality(s) - 1
      BY <1>3, <3>1, Smaller
    <3>3. ~ (Cardinality(s) <= Cardinality(s \ {FirstOf(s)}))
      BY <3>2
    <3> QED
      BY <1>2, <3>3
  <2>2. g[s \ {FirstOf(s)}] = h[s \ {FirstOf(s)}]
    BY <1>2, <2>1
  <2> QED
    BY <1>2, <1>4, <1>6, <2>2 DEF FoldStep
<1> QED
  BY <1>5, <1>6

\* The sum over a set is that of its first element and the sum over the rest.
LEMMA SumFirst ==
  ASSUME NEW S, IsFiniteSet(S), NEW f
  PROVE  SumFunctionOnSet(f, S) =
           IF S = {} THEN 0 ELSE f[FirstOf(S)] + SumFunctionOnSet(f, S \ {FirstOf(S)})
<1>1. PICK g : IsFold(f, S, g) /\ SumFunctionOnSet(f, S) = g[S]
  BY SumIsFold
<1>2. g[S] = FoldStep(f, g, S)
  BY <1>1 DEF IsFold
<1>3. CASE S = {}
  BY <1>1, <1>2, <1>3 DEF FoldStep
<1>4. CASE S # {}
  <2> DEFINE R == S \ {FirstOf(S)}
  <2>1. IsFiniteSet(R) /\ R \in SUBSET S
    BY FS_Subset
  <2>2. PICK h : IsFold(f, R, h) /\ SumFunctionOnSet(f, R) = h[R]
    BY <2>1, SumIsFold
  <2>3. g[R] = h[R]
    BY <1>1, <2>1, <2>2, FoldsAgree
  <2> QED
    BY <1>1, <1>2, <1>4, <2>2, <2>3 DEF FoldStep
<1> QED
  BY <1>3, <1>4

\* A sum of integers is one.
LEMMA SumType ==
  ASSUME NEW S, IsFiniteSet(S), NEW f, \A x \in S : f[x] \in Int
  PROVE  SumFunctionOnSet(f, S) \in Int
<1> DEFINE Bad == {s \in SUBSET S : SumFunctionOnSet(f, s) \notin Int}
<1> SUFFICES ASSUME Bad # {} PROVE FALSE
  OBVIOUS
<1>1. PICK s \in Bad : \A r \in Bad : Cardinality(s) <= Cardinality(r)
  BY SmallestSet
<1>2. IsFiniteSet(s) /\ s \in SUBSET S
  BY <1>1, FS_Subset
<1>3. s # {}
  <2>1. s = {} => SumFunctionOnSet(f, s) = 0
    BY <1>2, SumFirst
  <2> QED
    BY <1>1, <2>1
<1>4. FirstOf(s) \in s /\ s \ {FirstOf(s)} \in SUBSET S
  BY <1>2, <1>3, FirstIn
<1>5. s \ {FirstOf(s)} \notin Bad
  <2>1. /\ Cardinality(s) \in Nat /\ Cardinality(s \ {FirstOf(s)}) \in Nat
        /\ Cardinality(s \ {FirstOf(s)}) = Cardinality(s) - 1
    BY <1>2, <1>4, Smaller
  <2>2. ~ (Cardinality(s) <= Cardinality(s \ {FirstOf(s)}))
    BY <2>1
  <2> QED
    BY <1>1, <2>2
<1>6. SumFunctionOnSet(f, s \ {FirstOf(s)}) \in Int /\ f[FirstOf(s)] \in Int
  BY <1>2, <1>4, <1>5
<1>7. SumFunctionOnSet(f, s) = f[FirstOf(s)] + SumFunctionOnSet(f, s \ {FirstOf(s)})
  BY <1>2, <1>3, SumFirst
<1>8. SumFunctionOnSet(f, s) \in Int
  BY <1>6, <1>7
<1> QED
  BY <1>1, <1>8

\* Any element can be taken out of a sum.
LEMMA SumSplit ==
  ASSUME NEW S, IsFiniteSet(S), NEW f, \A x \in S : f[x] \in Int, NEW y \in S
  PROVE  SumFunctionOnSet(f, S) = f[y] + SumFunctionOnSet(f, S \ {y})
<1> DEFINE Splits(s) == \A x \in s : SumFunctionOnSet(f, s) = f[x] + SumFunctionOnSet(f, s \ {x})
           Bad == {s \in SUBSET S : ~ Splits(s)}
<1>1. Bad = {}
  <2> SUFFICES ASSUME Bad # {} PROVE FALSE
    OBVIOUS
  <2>1. PICK s \in Bad : \A r \in Bad : Cardinality(s) <= Cardinality(r)
    BY SmallestSet
  <2>2. IsFiniteSet(s) /\ s \in SUBSET S
    BY <2>1, FS_Subset
  <2>3. PICK x \in s : SumFunctionOnSet(f, s) # f[x] + SumFunctionOnSet(f, s \ {x})
    BY <2>1
  <2> DEFINE c == FirstOf(s)
  <2>4. c \in s
    BY <2>3, FirstIn
  <2>5. SumFunctionOnSet(f, s) = f[c] + SumFunctionOnSet(f, s \ {c})
    BY <2>2, <2>3, SumFirst
  <2> HIDE DEF c
  <2>6. c # x
    BY <2>3, <2>5
  <2>7. ASSUME NEW z \in s PROVE Splits(s \ {z})
    <3>1. /\ Cardinality(s) \in Nat /\ Cardinality(s \ {z}) \in Nat
          /\ Cardinality(s \ {z}) = Cardinality(s) - 1
      BY <2>2, Smaller
    <3>2. ~ (Cardinality(s) <= Cardinality(s \ {z}))
      BY <3>1
    <3>3. s \ {z} \notin Bad /\ s \ {z} \in SUBSET S
      BY <2>1, <2>2, <3>2
    <3> QED
      BY <3>3
  <2>8. Splits(s \ {c}) /\ Splits(s \ {x})
    BY <2>3, <2>4, <2>7
  <2> DEFINE r == (s \ {c}) \ {x}
  <2>9. r = (s \ {x}) \ {c} /\ x \in s \ {c} /\ c \in s \ {x}
    BY <2>3, <2>4, <2>6
  <2> HIDE DEF r
  <2>10. SumFunctionOnSet(f, s \ {c}) = f[x] + SumFunctionOnSet(f, r)
    BY <2>8, <2>9 DEF r
  <2>11. SumFunctionOnSet(f, s \ {x}) = f[c] + SumFunctionOnSet(f, r)
    BY <2>8, <2>9 DEF r
  <2>12. IsFiniteSet(r) /\ r \in SUBSET S
    BY <2>2, FS_Subset DEF r
  <2>13. SumFunctionOnSet(f, r) \in Int /\ f[x] \in Int /\ f[c] \in Int
    BY <2>2, <2>3, <2>4, <2>12, SumType
  <2>14. SumFunctionOnSet(f, s) = f[x] + SumFunctionOnSet(f, s \ {x})
    BY <2>5, <2>10, <2>11, <2>13
  <2> QED
    BY <2>3, <2>14
<1>2. Splits(S)
  BY <1>1
<1> QED
  BY <1>2

\* Sums of functions that agree on the set are equal.
LEMMA SumSame ==
  ASSUME NEW S, IsFiniteSet(S), NEW f, NEW g, \A x \in S : f[x] = g[x]
  PROVE  SumFunctionOnSet(f, S) = SumFunctionOnSet(g, S)
<1> DEFINE Bad == {s \in SUBSET S : SumFunctionOnSet(f, s) # SumFunctionOnSet(g, s)}
<1> SUFFICES ASSUME Bad # {} PROVE FALSE
  OBVIOUS
<1>1. PICK s \in Bad : \A r \in Bad : Cardinality(s) <= Cardinality(r)
  BY SmallestSet
<1>2. IsFiniteSet(s) /\ s \in SUBSET S
  BY <1>1, FS_Subset
<1>3. s # {}
  BY <1>1, <1>2, SumFirst
<1>4. FirstOf(s) \in s /\ s \ {FirstOf(s)} \in SUBSET S
  BY <1>2, <1>3, FirstIn
<1>5. s \ {FirstOf(s)} \notin Bad
  <2>1. /\ Cardinality(s) \in Nat /\ Cardinality(s \ {FirstOf(s)}) \in Nat
        /\ Cardinality(s \ {FirstOf(s)}) = Cardinality(s) - 1
    BY <1>2, <1>4, Smaller
  <2>2. ~ (Cardinality(s) <= Cardinality(s \ {FirstOf(s)}))
    BY <2>1
  <2> QED
    BY <1>1, <2>2
<1>6. SumFunctionOnSet(f, s) = SumFunctionOnSet(g, s)
  BY <1>2, <1>3, <1>4, <1>5, SumFirst
<1> QED
  BY <1>1, <1>6

\* Two functions that differ at one element of the set: so do their sums.
LEMMA SumChange ==
  ASSUME NEW S, IsFiniteSet(S), NEW f, NEW g, NEW y \in S,
         \A x \in S : f[x] \in Int /\ g[x] \in Int,
         \A x \in S \ {y} : f[x] = g[x]
  PROVE  SumFunctionOnSet(g, S) = SumFunctionOnSet(f, S) + (g[y] - f[y])
<1>1. IsFiniteSet(S \ {y})
  BY FS_Subset
<1>2. SumFunctionOnSet(f, S \ {y}) = SumFunctionOnSet(g, S \ {y})
  BY <1>1, SumSame
<1>3. SumFunctionOnSet(f, S \ {y}) \in Int
  BY <1>1, SumType
<1>4. /\ SumFunctionOnSet(f, S) = f[y] + SumFunctionOnSet(f, S \ {y})
      /\ SumFunctionOnSet(g, S) = g[y] + SumFunctionOnSet(g, S \ {y})
  BY SumSplit
<1> QED
  BY <1>2, <1>3, <1>4

-----------------------------------------------------------------------------
(* The mutex.  Section can hold one thread more than the mutex word says,  *)
(* and only after the initialisation race.                                 *)

Bit(b) == IF b THEN 1 ELSE 0

Starting == pc[main] \in {"start_command_handler", "start_qps_thread", "mutex_init"}

PcInv == pc \in [Thread -> PCs]

LockInv == /\ PcInv
           /\ mlock \in BOOLEAN /\ raced \in BOOLEAN
           /\ Starting => ~raced
           /\ Cardinality(Section) <= Bit(raced) + Bit(mlock)

\* Everything but which threads are stranded, which only the threads that ask
\* for the mutex see.
others == <<pc, mlock, keeper, mainLocal, clientLocal, ghosts>>

Step == \/ house_keeper_create
        \/ \E t \in Thread : mutex_lock(t)
        \/ \E l \in Line : handle_string_log(l)
        \/ log_handle
        \/ qps_thread
        \/ \E c \in Client : (\E r \in Request : socket_thread_read(c, r)) \/ socket_thread(c)
        \/ UNCHANGED others

\* Waking a stranded thread changes nothing else.
LEMMA Steps == [Next]_vars => Step
<1>1. ASSUME NEW t \in Thread, futex_wake(t)
      PROVE  UNCHANGED others
  BY <1>1 DEF futex_wake, others
<1>2. vars' = vars => UNCHANGED others
  BY DEF vars, others, mutex
<1> QED
  BY <1>1, <1>2 DEF Next, Step

\* The set of threads in the critical section is finite.
LEMMA SectionFinite ==
  /\ IsFiniteSet(Section)
  /\ Cardinality(Section) \in Nat
<1>1. IsFiniteSet(Client \cup {main})
  BY ThreadAssumption, FS_AddElement
<1>2. IsFiniteSet(Client \cup {main} \cup {qps})
  BY <1>1, FS_AddElement
<1>3. Thread = Client \cup {main} \cup {qps}
  BY DEF Thread
<1>4. Section \in SUBSET Thread
  BY DEF Section
<1>5. IsFiniteSet(Section)
  BY <1>2, <1>3, <1>4, FS_Subset
<1> QED
  BY <1>5, FS_CardinalityType

\* A step of thread t inside or outside the section, without the mutex.
LEMMA InnerStep ==
  ASSUME LockInv, NEW t \in Thread, NEW l \in PCs, Go(t, l),
         mlock' = mlock, raced' = raced,
         pc[t] \notin {"start_command_handler", "start_qps_thread", "mutex_init"},
         l \notin {"start_command_handler", "start_qps_thread", "mutex_init"},
         InSection(t) <=> l \in {"find", "recycle", "count", "exec", "walk", "unlock"}
  PROVE  LockInv'
<1>1. Section' = Section
  BY DEF Section, InSection, Go, LockInv, PcInv
<1>2. PcInv' /\ (Starting' => Starting)
  BY DEF PcInv, Starting, Go, LockInv
<1> QED
  BY <1>1, <1>2 DEF LockInv

\* Thread t takes the mutex.
LEMMA LockStep ==
  ASSUME LockInv, NEW t \in Thread, mutex_lock(t) PROVE LockInv'
<1>1. ~mlock /\ mlock' /\ raced' = raced
  BY DEF mutex_lock, ghosts, mutex
<1>2. Section' = Section \cup {t} /\ t \notin Section
  BY DEF Section, InSection, Go, LockInv, PcInv, mutex_lock, AfterLock
<1>3. Cardinality(Section') = Cardinality(Section) + 1
  BY <1>2, SectionFinite, FS_AddElement
<1>4. PcInv' /\ (Starting' => Starting)
  BY DEF PcInv, Starting, Go, LockInv, mutex_lock, AfterLock, PCs
<1>5. Cardinality(Section) \in Nat
  BY SectionFinite
<1> QED
  BY <1>1, <1>3, <1>4, <1>5 DEF LockInv, Bit

\* Thread t gives the mutex back.
LEMMA UnlockStep ==
  ASSUME LockInv, NEW t \in Thread, pc[t] = "unlock",
         NEW l \in {"lock", "idle", "sleep"}, Go(t, l),
         mlock' = FALSE, raced' = raced
  PROVE  LockInv'
<1>1. Section' = Section \ {t} /\ t \in Section
  BY DEF Section, InSection, Go, LockInv, PcInv
<1>2. Cardinality(Section') = Cardinality(Section) - 1
  BY <1>1, SectionFinite, FS_RemoveElement
<1>3. PcInv' /\ (Starting' => Starting)
  BY DEF PcInv, Starting, Go, LockInv, PCs
<1>4. Cardinality(Section) \in Nat
  BY SectionFinite
<1>5. Bit(raced') = Bit(raced) /\ Bit(mlock') = 0 /\ Bit(mlock) <= 1
  BY DEF Bit
<1>6. Bit(raced) \in Nat /\ Bit(mlock) \in Nat
  BY DEF Bit
<1>7. Cardinality(Section') <= Bit(raced') + Bit(mlock')
  BY <1>2, <1>4, <1>5, <1>6 DEF LockInv
<1>8. mlock' \in BOOLEAN /\ raced' \in BOOLEAN /\ (Starting' => ~raced')
  BY <1>3 DEF LockInv
<1> QED
  BY <1>3, <1>7, <1>8 DEF LockInv

\* house_keeper_create: the threads start outside the section, and
\* initialising the mutex under a holder is what raced records.
LEMMA CreateStep == ASSUME LockInv, house_keeper_create PROVE LockInv'
<1>1. CASE start_command_handler \/ start_qps_thread
  <2>1. Section' \in SUBSET Section
    BY <1>1 DEF start_command_handler, start_qps_thread, Section, InSection,
                LockInv, PcInv, Thread
  <2>2. Cardinality(Section') <= Cardinality(Section) /\ Cardinality(Section') \in Nat
    BY <2>1, SectionFinite, FS_Subset, FS_CardinalityType
  <2>3. PcInv'
    BY <1>1 DEF start_command_handler, start_qps_thread, LockInv, PcInv, PCs
  <2>4. mlock' = mlock /\ raced' = raced /\ ~raced
    BY <1>1 DEF start_command_handler, start_qps_thread, ghosts, mutex, LockInv, Starting
  <2> QED
    BY <2>2, <2>3, <2>4, SectionFinite DEF LockInv, Bit
<1>2. CASE mutex_init
  <2>1. Section' = Section
    BY <1>2, ThreadAssumption DEF mutex_init, Go, Section, InSection, LockInv, PcInv, Thread
  <2>2. PcInv' /\ ~Starting'
    BY <1>2 DEF mutex_init, Go, LockInv, PcInv, PCs, Starting, Thread
  <2>3. mlock' = FALSE /\ raced' = (Section # {}) /\ ~raced
    BY <1>2 DEF mutex_init, LockInv, Starting
  <2>4. Cardinality(Section) <= 1 /\ Cardinality(Section) \in Nat
    BY <2>3, SectionFinite DEF LockInv, Bit
  <2>5. Section = {} => Cardinality(Section) = 0
    BY FS_EmptySet
  <2>6. Cardinality(Section') <= Bit(raced') + Bit(mlock')
    <3>1. CASE Section = {}
      <4>1. Cardinality(Section') = 0
        BY <2>1, <2>5, <3>1
      <4>2. Bit(raced') \in Nat /\ Bit(mlock') \in Nat
        BY DEF Bit
      <4> QED
        BY <4>1, <4>2
    <3>2. CASE Section # {}
      <4>1. raced' = TRUE
        BY <2>3, <3>2
      <4>2. Bit(raced') = 1 /\ Bit(mlock') \in Nat
        BY <4>1 DEF Bit
      <4> QED
        BY <2>1, <2>4, <4>2
    <3> QED
      BY <3>1, <3>2
  <2>7. mlock' \in BOOLEAN /\ raced' \in BOOLEAN
    BY <2>3
  <2> QED
    BY <2>2, <2>6, <2>7 DEF LockInv
<1> QED
  BY <1>1, <1>2 DEF house_keeper_create

\* Before the threads start nobody holds the mutex.
LEMMA LockInit == Init => LockInv
<1> SUFFICES ASSUME Init PROVE LockInv
  OBVIOUS
<1>1. Section = {}
  BY DEF Init, Section, InSection
<1>2. Cardinality(Section) = 0
  BY <1>1, FS_EmptySet
<1>3. PcInv
  BY DEF Init, PcInv, PCs
<1>4. mlock = FALSE /\ raced = FALSE
  BY DEF Init
<1>5. Bit(raced) = 0 /\ Bit(mlock) = 0
  BY <1>4 DEF Bit
<1>6. mlock \in BOOLEAN /\ raced \in BOOLEAN /\ ~raced
  BY <1>4
<1>7. Cardinality(Section) <= Bit(raced) + Bit(mlock)
  BY <1>2, <1>5
<1> QED
  BY <1>3, <1>6, <1>7 DEF LockInv

\* Every step keeps the bound.
LEMMA LockNext == ASSUME LockInv, [Next]_vars PROVE LockInv'
<1> USE DEF PCs
<1>0. main \in Thread /\ qps \in Thread /\ Client \subseteq Thread
  BY DEF Thread
<1>1. CASE house_keeper_create
  BY <1>1, CreateStep
<1>2. CASE \E t \in Thread : mutex_lock(t)
  BY <1>2, LockStep
<1>3. CASE \E l \in Line : handle_string_log(l)
  BY <1>0, <1>3, InnerStep DEF handle_string_log, ghosts, mutex, InSection
<1>4. CASE log_handle
  <2>1. CASE log_handle_found \/ log_handle_create \/ log_handle_refused
    BY <1>0, <2>1, InnerStep
       DEF log_handle_found, log_handle_create, log_handle_refused, ghosts, mutex, InSection
  <2>2. CASE log_handle_fits \/ \E m \in 0 .. Len(lru) : view_tree_set_memsize(m)
    BY <1>0, <2>2, InnerStep
       DEF log_handle_fits, view_tree_set_memsize, ghosts, mutex, InSection
  <2>3. CASE log_handle_count
    BY <1>0, <2>3, InnerStep DEF log_handle_count, ghosts, mutex, InSection
  <2>4. CASE log_handle_unlock
    BY <1>0, <2>4, UnlockStep DEF log_handle_unlock, ghosts, mutex
  <2> QED
    BY <1>4, <2>1, <2>2, <2>3, <2>4 DEF log_handle
<1>5. CASE qps_thread
  <2>1. CASE qps_thread_walk \/ qps_thread_wake
    BY <1>0, <2>1, InnerStep DEF qps_thread_walk, qps_thread_wake, ghosts, mutex, InSection
  <2>2. CASE qps_thread_unlock
    BY <1>0, <2>2, UnlockStep DEF qps_thread_unlock, ghosts, mutex
  <2> QED
    BY <1>5, <2>1, <2>2 DEF qps_thread
<1>6. ASSUME NEW c \in Client,
             (\E r \in Request : socket_thread_read(c, r)) \/ socket_thread(c)
      PROVE  LockInv'
  <2>1. CASE \E r \in Request : socket_thread_read(c, r)
    BY <1>0, <2>1, InnerStep DEF socket_thread_read, ghosts, mutex, InSection
  <2>2. CASE socket_thread_find(c)
    BY <1>0, <2>2, InnerStep DEF socket_thread_find, ghosts, mutex, InSection
  <2>3. CASE socket_thread_query(c)
    BY <1>0, <2>3, InnerStep DEF socket_thread_query, ghosts, mutex, InSection
  <2>4. CASE socket_thread_flush(c)
    BY <1>0, <2>4, InnerStep DEF socket_thread_flush, ghosts, mutex, InSection
  <2>5. CASE socket_thread_unlock(c)
    BY <1>0, <2>5, UnlockStep DEF socket_thread_unlock, ghosts, mutex
  <2> QED
    BY <1>6, <2>1, <2>2, <2>3, <2>4, <2>5 DEF socket_thread
<1>7. CASE UNCHANGED others
  BY <1>7 DEF others, ghosts, LockInv, PcInv, Starting, Section, InSection
<1> QED
  BY <1>1, <1>2, <1>3, <1>4, <1>5, <1>6, <1>7, Steps DEF Step

\* At most one thread is inside the critical section, two if the mutex was
\* initialised while held (LockDiscipline), for any number of clients.
THEOREM LockTheorem == Spec => []LockDiscipline
<1>1. Init => LockInv
  BY LockInit
<1>2. LockInv /\ [Next]_vars => LockInv'
  BY LockNext
<1>3. LockInv => LockDiscipline
  <2> SUFFICES ASSUME LockInv PROVE LockDiscipline
    OBVIOUS
  <2>1. Bit(mlock) \in 0 .. 1 /\ Bit(raced) = IF raced THEN 1 ELSE 0
    BY DEF Bit
  <2>2. Cardinality(Section) \in Nat
    BY SectionFinite
  <2> QED
    BY <2>1, <2>2 DEF LockInv, LockDiscipline
<1> QED
  BY <1>1, <1>2, <1>3, PTL DEF Spec

-----------------------------------------------------------------------------
(* Sequences as LRU lists.                                                 *)

\* A function on 1 .. n is a sequence of length n.
LEMMA FunctionIsSeq ==
  ASSUME NEW S, NEW n \in Nat, NEW f \in [1 .. n -> S]
  PROVE  f \in Seq(S) /\ Len(f) = n
OBVIOUS

\* lru_list_move_to_first permutes the entries and puts x in front.
LEMMA MoveToFirstProps ==
  ASSUME NEW S, NEW s \in Seq(S), NEW x, x \in ToSet(s)
  PROVE  /\ MoveToFirst(s, x) \in Seq(S)
         /\ Len(MoveToFirst(s, x)) = Len(s)
         /\ Len(s) \in Nat /\ Len(s) > 0
         /\ MoveToFirst(s, x)[1] = x
         /\ ToSet(MoveToFirst(s, x)) = ToSet(s)
         /\ IsInjective(s) => IsInjective(MoveToFirst(s, x))
<1> DEFINE k == CHOOSE i \in DOMAIN s : s[i] = x
           m == MoveToFirst(s, x)
<1>1. k \in DOMAIN s /\ s[k] = x
  BY DEF ToSet
<1>2. Len(s) \in Nat /\ DOMAIN s = 1 .. Len(s) /\ \A i \in 1 .. Len(s) : s[i] \in S
  OBVIOUS
<1>3. m = [j \in 1 .. Len(s) |-> IF j = 1 THEN x ELSE IF j <= k THEN s[j - 1] ELSE s[j]]
  BY <1>2 DEF MoveToFirst
<1> HIDE DEF k, m
<1>4. m \in [1 .. Len(s) -> S]
  BY <1>1, <1>2, <1>3
<1>5. m \in Seq(S) /\ Len(m) = Len(s) /\ DOMAIN m = 1 .. Len(s)
  BY <1>2, <1>4, FunctionIsSeq
<1>6. Len(s) > 0 /\ m[1] = x
  BY <1>1, <1>2, <1>3
<1>7. ToSet(m) = ToSet(s)
  <2>1. ASSUME NEW i \in DOMAIN m PROVE \E j \in DOMAIN s : m[i] = s[j]
    BY <1>1, <1>2, <1>3, <1>5
  <2>2. ASSUME NEW i \in DOMAIN s PROVE \E j \in DOMAIN m : m[j] = s[i]
    <3>1. CASE i < k
      <4>1. i + 1 \in DOMAIN m /\ m[i + 1] = s[i]
        BY <1>1, <1>2, <1>3, <1>5, <3>1
      <4> QED
        BY <4>1
    <3>2. CASE i = k
      BY <1>1, <1>2, <1>5, <1>6, <3>2
    <3>3. CASE i > k
      BY <1>1, <1>2, <1>3, <1>5, <3>3
    <3> QED
      BY <1>1, <1>2, <3>1, <3>2, <3>3
  <2> QED
    BY <2>1, <2>2 DEF ToSet
<1>8. ASSUME IsInjective(s) PROVE IsInjective(m)
  <2>1. \A i, j \in DOMAIN s : s[i] = s[j] => i = j
    BY <1>8 DEF IsInjective
  <2>2. \A i, j \in DOMAIN m : m[i] = m[j] => i = j
    BY <1>1, <1>2, <1>3, <1>5, <2>1
  <2> QED
    BY <2>2 DEF IsInjective
<1> QED
  BY <1>2, <1>5, <1>6, <1>7, <1>8 DEF m

\* lru_list_insert of an entry x.
LEMMA PrependProps ==
  ASSUME NEW S, NEW s \in Seq(S), NEW x \in S
  PROVE  /\ <<x>> \o s \in Seq(S)
         /\ Len(<<x>> \o s) = Len(s) + 1
         /\ (<<x>> \o s)[1] = x
         /\ ToSet(<<x>> \o s) = ToSet(s) \cup {x}
         /\ IsInjective(s) /\ x \notin ToSet(s) => IsInjective(<<x>> \o s)
<1> DEFINE p == <<x>> \o s
<1>1. Len(s) \in Nat /\ DOMAIN s = 1 .. Len(s)
  OBVIOUS
<1>2. <<x>> \in Seq(S) /\ Len(<<x>>) = 1 /\ <<x>>[1] = x
  OBVIOUS
<1>3. /\ p \in Seq(S) /\ Len(p) = Len(s) + 1
      /\ \A i \in 1 .. Len(s) + 1 : p[i] = IF i = 1 THEN x ELSE s[i - 1]
  BY <1>1, <1>2, ConcatProperties
<1> HIDE DEF p
<1>4. DOMAIN p = 1 .. Len(s) + 1
  BY <1>1, <1>3
<1>5. ToSet(p) = ToSet(s) \cup {x}
  <2>1. ASSUME NEW i \in DOMAIN p PROVE p[i] = x \/ \E j \in DOMAIN s : p[i] = s[j]
    BY <1>1, <1>3, <1>4
  <2>2. ASSUME NEW i \in DOMAIN s PROVE \E j \in DOMAIN p : p[j] = s[i]
    <3>1. i + 1 \in DOMAIN p /\ p[i + 1] = s[i]
      BY <1>1, <1>3, <1>4
    <3> QED
      BY <3>1
  <2>3. 1 \in DOMAIN p /\ p[1] = x
    BY <1>1, <1>3, <1>4
  <2> QED
    BY <2>1, <2>2, <2>3 DEF ToSet
<1>6. ASSUME IsInjective(s), x \notin ToSet(s) PROVE IsInjective(p)
  <2> SUFFICES ASSUME NEW i \in DOMAIN p, NEW j \in DOMAIN p, p[i] = p[j]
               PROVE  i = j
    BY DEF IsInjective
  <2>1. /\ i # 1 => i - 1 \in DOMAIN s /\ p[i] = s[i - 1]
        /\ j # 1 => j - 1 \in DOMAIN s /\ p[j] = s[j - 1]
        /\ p[1] = x
        /\ i \in Int /\ j \in Int
    BY <1>1, <1>3, <1>4
  <2>2. i # 1 /\ j # 1 => i - 1 = j - 1
    BY <1>6, <2>1 DEF IsInjective
  <2>3. i = 1 <=> j = 1
    BY <1>6, <2>1 DEF ToSet
  <2> QED
    BY <2>1, <2>2, <2>3
<1>7. p[1] = x
  BY <1>1, <1>3
<1> QED
  BY <1>3, <1>5, <1>6, <1>7 DEF p

\* The first n entries of a list.
LEMMA PrefixProps ==
  ASSUME NEW S, NEW s \in Seq(S), NEW n \in 0 .. Len(s)
  PROVE  /\ SubSeq(s, 1, n) \in Seq(S)
         /\ Len(SubSeq(s, 1, n)) = n
         /\ DOMAIN SubSeq(s, 1, n) = 1 .. n
         /\ \A i \in 1 .. n : SubSeq(s, 1, n)[i] = s[i]
<1>1. Len(s) \in Nat /\ n \in Int /\ \A i \in 1 .. n : s[i] \in S
  OBVIOUS
<1> QED
  BY <1>1, SubSeqProperties

\* Dropping the entries after the first n of a list without duplicates.
LEMMA DropProps ==
  ASSUME NEW S, NEW s \in Seq(S), NEW n \in 0 .. Len(s), IsInjective(s)
  PROVE  /\ IsInjective(SubSeq(s, 1, n))
         /\ ToSet(SubSeq(s, 1, n)) = ToSet(s) \ {s[i] : i \in n + 1 .. Len(s)}
<1> DEFINE p == SubSeq(s, 1, n)
<1>1. DOMAIN p = 1 .. n /\ \A i \in 1 .. n : p[i] = s[i]
  BY PrefixProps
<1>2. Len(s) \in Nat /\ DOMAIN s = 1 .. Len(s) /\ n \in Int
  OBVIOUS
<1>3. \A i, j \in 1 .. Len(s) : s[i] = s[j] => i = j
  BY <1>2 DEF IsInjective
<1> HIDE DEF p
<1>4. IsInjective(p)
  BY <1>1, <1>2, <1>3 DEF IsInjective
<1>5. ToSet(p) = ToSet(s) \ {s[i] : i \in n + 1 .. Len(s)}
  <2>1. ASSUME NEW i \in DOMAIN p
        PROVE  p[i] \in ToSet(s) /\ p[i] \notin {s[j] : j \in n + 1 .. Len(s)}
    BY <1>1, <1>2, <1>3 DEF ToSet
  <2>2. ASSUME NEW i \in DOMAIN s, s[i] \notin {s[j] : j \in n + 1 .. Len(s)}
        PROVE  i \in DOMAIN p /\ p[i] = s[i]
    BY <1>1, <1>2, <2>2
  <2> QED
    BY <2>1, <2>2 DEF ToSet
<1> QED
  BY <1>4, <1>5 DEF p

\* name_tree_insert keeps a list of names a list of names.
LEMMA InsertedType ==
  ASSUME NEW S, NEW s \in Seq(S), NEW x \in S PROVE Inserted(s, x) \in Seq(S)
<1>1. (\E i \in DOMAIN s : s[i] = x) <=> x \in ToSet(s)
  BY DEF ToSet
<1>2. CASE x \in ToSet(s) /\ x \notin Overrun
  BY <1>1, <1>2, MoveToFirstProps DEF Inserted
<1>3. CASE ~ (x \in ToSet(s) /\ x \notin Overrun)
  BY <1>1, <1>3, PrependProps DEF Inserted
<1> QED
  BY <1>2, <1>3

-----------------------------------------------------------------------------
(* Typing, and the structure of the view tree.                             *)

Busy == pc[main] \in {"lock", "find", "recycle", "count", "unlock"} => line \in Line

TypeInv == TypeOK /\ Busy

\* The tree, its LRU list, the statistics and the count, whatever the mutex
\* did: every action leaves them consistent.
TreeInv == /\ ToSet(lru) = Views
           /\ IsInjective(lru)
           /\ heap = {tree[k] : k \in Views}
           /\ \A j, k \in Views : tree[j] = tree[k] => j = k
           /\ cnt = Len(lru) + residue
StatRec == [names : Seq(Name), ips : Seq(Name), lost : Nat, hits : Nat]

\* The initial state.
LEMMA TreeInit == Init => TypeInv /\ TreeInv
<1> SUFFICES ASSUME Init PROVE TypeInv /\ TreeInv
  OBVIOUS
<1>1. pc \in [Thread -> PCs]
  BY DEF Init, PCs
<1>2. stranded \in SUBSET Thread /\ mlock \in BOOLEAN /\ raced \in BOOLEAN /\ evicted \in BOOLEAN
  BY DEF Init
<1>3. tree \in [Key -> Stat \cup {NULL}] /\ Views = {}
  BY DEF Init, Views
<1>4. lru \in Seq(Key) /\ Len(lru) = 0 /\ DOMAIN lru = {}
  BY DEF Init
<1>5. heap = {} /\ stat \in [heap -> StatRec]
  BY DEF Init, heap
<1>6. cnt \in Int /\ residue \in Int /\ cnt = 0 /\ residue = 0
  BY DEF Init
<1>7. line = NULL /\ phase \in {1, 2} /\ vs \in Stat \cup {NULL} /\ nread \in Nat /\ nreq \in Nat
  BY DEF Init
<1>8. /\ req \in [Client -> Request \cup {NULL}]
      /\ vtnode \in [Client -> Key \cup {NULL}]
  BY DEF Init
<1>9. TypeOK
  BY <1>1, <1>2, <1>3, <1>4, <1>5, <1>6, <1>7, <1>8 DEF TypeOK, StatRec
<1>10. Busy
  BY ThreadAssumption DEF Init, Busy, Thread
<1>11. TreeInv
  BY <1>3, <1>4, <1>5, <1>6 DEF TreeInv, ToSet, IsInjective
<1> QED
  BY <1>9, <1>10, <1>11 DEF TypeInv

\* Steps that leave the view tree and the main thread's line alone.
LEMMA QuietStep ==
  ASSUME TypeInv, TreeInv,
         \/ house_keeper_create
         \/ \E t \in Thread : mutex_lock(t) \/ futex_wake(t)
         \/ log_handle_refused \/ log_handle_fits
         \/ qps_thread
         \/ \E c \in Client : \/ \E r \in Request : socket_thread_read(c, r)
                              \/ socket_thread_find(c) \/ socket_thread_query(c)
                              \/ socket_thread_unlock(c)
         \/ UNCHANGED vars
  PROVE  TypeInv' /\ TreeInv'
<1> USE DEF keeper, mainLocal, clientLocal, ghosts, mutex
<1>0. TypeOK /\ Busy
  BY DEF TypeInv
<1>1. /\ UNCHANGED <<tree, lru, cnt, stat, line, phase, vs, residue, evicted>>
      /\ nread' = nread
  BY DEF house_keeper_create, start_command_handler, start_qps_thread, mutex_init,
         mutex_lock, futex_wake, log_handle_refused, log_handle_fits, qps_thread,
         qps_thread_walk, qps_thread_unlock, qps_thread_wake, socket_thread_read,
         socket_thread_find, socket_thread_query, socket_thread_unlock, vars
<1>2. TreeInv'
  BY <1>1 DEF TreeInv, Views, heap
<1>3. pc' \in [Thread -> PCs]
  <2> USE DEF TypeOK, PCs, Go, AfterLock, Thread
  <2>1. CASE house_keeper_create
    BY <1>0, <2>1 DEF house_keeper_create, start_command_handler,
                   start_qps_thread, mutex_init
  <2>2. ASSUME NEW t \in Thread, mutex_lock(t) PROVE pc' \in [Thread -> PCs]
    BY <1>0, <2>2 DEF mutex_lock
  <2>3. CASE log_handle_refused \/ log_handle_fits \/ \E t \in Thread : futex_wake(t)
    BY <1>0, <2>3 DEF log_handle_refused, log_handle_fits, futex_wake
  <2>4. CASE qps_thread
    BY <1>0, <2>4 DEF qps_thread, qps_thread_walk, qps_thread_unlock, qps_thread_wake
  <2>5. ASSUME NEW c \in Client, NEW r \in Request, socket_thread_read(c, r)
        PROVE  pc' \in [Thread -> PCs]
    BY <1>0, <2>5 DEF socket_thread_read
  <2>6. ASSUME NEW c \in Client,
               \/ socket_thread_find(c) \/ socket_thread_query(c)
               \/ socket_thread_unlock(c)
        PROVE  pc' \in [Thread -> PCs]
    <3>1. CASE socket_thread_find(c)
      BY <1>0, <3>1 DEF socket_thread_find
    <3>2. CASE socket_thread_query(c)
      BY <1>0, <3>2 DEF socket_thread_query
    <3>3. CASE socket_thread_unlock(c)
      BY <1>0, <3>3 DEF socket_thread_unlock
    <3> QED
      BY <2>6, <3>1, <3>2, <3>3
  <2>7. CASE UNCHANGED vars
    BY <1>0, <2>7 DEF vars
  <2> QED
    BY <2>1, <2>2, <2>3, <2>4, <2>5, <2>6, <2>7
<1>4. stranded' \in SUBSET Thread /\ mlock' \in BOOLEAN /\ raced' \in BOOLEAN
  BY <1>0 DEF TypeOK,
         house_keeper_create, start_command_handler, start_qps_thread, mutex_init,
         mutex_lock, futex_wake, log_handle_refused, log_handle_fits, qps_thread,
         qps_thread_walk, qps_thread_unlock, qps_thread_wake, socket_thread_read,
         socket_thread_find, socket_thread_query, socket_thread_unlock, vars
<1>5. /\ req' \in [Client -> Request \cup {NULL}]
      /\ vtnode' \in [Client -> Key \cup {NULL}]
      /\ nreq' \in Nat
  <2> DEFINE G == /\ req' \in [Client -> Request \cup {NULL}]
                  /\ vtnode' \in [Client -> Key \cup {NULL}]
                  /\ nreq' \in Nat
  <2> USE DEF TypeOK, Views
  <2>1. CASE house_keeper_create
    BY <1>0, <2>1 DEF house_keeper_create, start_command_handler,
                   start_qps_thread, mutex_init
  <2>2. ASSUME NEW t \in Thread, mutex_lock(t) PROVE G
    BY <1>0, <2>2 DEF mutex_lock
  <2>3. CASE log_handle_refused \/ log_handle_fits \/ \E t \in Thread : futex_wake(t)
    BY <1>0, <2>3 DEF log_handle_refused, log_handle_fits, futex_wake
  <2>4. CASE qps_thread
    BY <1>0, <2>4 DEF qps_thread, qps_thread_walk, qps_thread_unlock, qps_thread_wake
  <2>5. ASSUME NEW c \in Client, NEW r \in Request, socket_thread_read(c, r)
        PROVE  G
    BY <1>0, <2>5 DEF socket_thread_read
  <2>6. ASSUME NEW c \in Client,
               \/ socket_thread_find(c) \/ socket_thread_query(c)
               \/ socket_thread_unlock(c)
        PROVE  G
    BY <1>0, <2>6 DEF socket_thread_find, socket_thread_query, socket_thread_unlock
  <2>7. CASE UNCHANGED vars
    BY <1>0, <2>7 DEF vars
  <2> QED
    BY <2>1, <2>2, <2>3, <2>4, <2>5, <2>6, <2>7
<1>6. Busy'
  BY <1>0, <1>1, ThreadAssumption DEF Busy, TypeOK, Go, AfterLock, Thread,
         house_keeper_create, start_command_handler, start_qps_thread, mutex_init,
         mutex_lock, futex_wake, log_handle_refused, log_handle_fits, qps_thread,
         qps_thread_walk, qps_thread_unlock, qps_thread_wake, socket_thread_read,
         socket_thread_find, socket_thread_query, socket_thread_unlock, vars
<1>7. heap' = heap
  BY <1>1 DEF heap
<1>8. TypeOK'
  BY <1>0, <1>1, <1>3, <1>4, <1>5, <1>7 DEF TypeOK
<1> QED
  BY <1>2, <1>6, <1>8 DEF TypeInv

\* What is the same in every step of log_handle between lock and unlock.
LEMMA MainStep ==
  ASSUME TypeInv, NEW l \in {"recycle", "count", "unlock"}, Go(main, l),
         pc[main] \in {"find", "recycle", "count"},
         UNCHANGED <<mlock, stranded, line, phase, nread, clientLocal, raced, residue>>,
         evicted' \in BOOLEAN,
         tree' \in [Key -> Stat \cup {NULL}], lru' \in Seq(Key), cnt' \in Int,
         heap' \subseteq Stat, stat' \in [heap' -> StatRec],
         vs' \in Stat \cup {NULL}
  PROVE  TypeInv'
<1>1. pc' \in [Thread -> PCs] /\ Busy'
  BY DEF TypeInv, TypeOK, Busy, Go, PCs, Thread
<1>2. TypeOK'
  BY <1>1 DEF TypeInv, TypeOK, clientLocal, StatRec
<1> QED
  BY <1>1, <1>2 DEF TypeInv

\* The key log_handle works on.
LEMMA ThisKeyType ==
  ASSUME TypeInv, pc[main] \in {"find", "recycle", "count"}
  PROVE  ThisKey \in Key /\ line \in Line
BY KeyAssumption DEF TypeInv, Busy, ThisKey

\* log_handle on a view that is there.
LEMMA FoundKeeps ==
  ASSUME TypeInv, TreeInv, log_handle_found PROVE TypeInv' /\ TreeInv'
<1>0. /\ ThisKey \in Views /\ lru \in Seq(Key)
      /\ ToSet(lru) = Views /\ IsInjective(lru)
      /\ cnt = Len(lru) + residue
  BY ThisKeyType DEF log_handle_found, Views, TypeInv, TypeOK, TreeInv
<1>2. /\ lru' = MoveToFirst(lru, ThisKey)
      /\ UNCHANGED <<tree, cnt, stat, mlock, stranded, line, phase, nread, clientLocal,
                     raced, residue, evicted>>
      /\ vs' = tree[ThisKey] /\ Go(main, "recycle") /\ pc[main] = "find"
  BY DEF log_handle_found, ghosts, mutex
<1>3. /\ lru' \in Seq(Key) /\ Len(lru') = Len(lru)
      /\ ToSet(lru') = Views /\ IsInjective(lru')
  BY <1>0, <1>2, MoveToFirstProps
<1>4. heap' = heap /\ Views' = Views
  BY <1>2 DEF heap, Views
<1>5. TreeInv'
  BY <1>0, <1>2, <1>3, <1>4 DEF TreeInv
<1>6. TypeInv'
  BY <1>0, <1>2, <1>3, <1>4, MainStep DEF TypeInv, TypeOK, Views, StatRec
<1> QED
  BY <1>5, <1>6

\* log_handle on a view that is not there.
LEMMA CreateKeeps ==
  ASSUME TypeInv, TreeInv, log_handle_create PROVE TypeInv' /\ TreeInv'
<1>1. PICK o \in Stat \ heap :
        /\ stat' = [x \in heap \cup {o} |-> IF x = o THEN EmptyStat ELSE stat[x]]
        /\ tree' = [tree EXCEPT ![ThisKey] = o]
        /\ vs' = o
  BY DEF log_handle_create
<1>2. /\ lru' = <<ThisKey>> \o lru /\ cnt' = cnt + 1
      /\ Go(main, "recycle") /\ pc[main] = "find" /\ tree[ThisKey] = NULL
      /\ UNCHANGED <<mlock, stranded, line, phase, nread, clientLocal, raced, residue, evicted>>
  BY DEF log_handle_create, ghosts, mutex
<1>3. /\ ThisKey \in Key /\ ThisKey \notin Views
      /\ tree \in [Key -> Stat \cup {NULL}] /\ lru \in Seq(Key) /\ Len(lru) \in Nat
      /\ heap \subseteq Stat /\ stat \in [heap -> StatRec]
      /\ cnt \in Int /\ residue \in Int /\ evicted \in BOOLEAN
  BY <1>2, ThisKeyType DEF TypeInv, TypeOK, Views, StatRec
<1>4. /\ lru' \in Seq(Key) /\ Len(lru') = Len(lru) + 1
      /\ ToSet(lru') = Views \cup {ThisKey} /\ IsInjective(lru')
  BY <1>2, <1>3, PrependProps DEF TreeInv
<1>5. heap' = heap \cup {o}
  BY <1>1 DEF heap
<1>6. Views' = Views \cup {ThisKey}
  BY <1>1, <1>3, NullAssumption DEF Views
<1>7. \A k \in Views : tree'[k] = tree[k] /\ tree[k] \in heap
  BY <1>1, <1>3 DEF TreeInv, Views
<1>8. tree'[ThisKey] = o
  BY <1>1, <1>3
<1>9. TreeInv'
  <2>1. heap' = {tree'[k] : k \in Views'}
    BY <1>5, <1>6, <1>7, <1>8 DEF TreeInv
  <2>2. \A j, k \in Views' : tree'[j] = tree'[k] => j = k
    BY <1>1, <1>6, <1>7, <1>8 DEF TreeInv
  <2>3. cnt' = Len(lru') + residue'
    BY <1>2, <1>3, <1>4 DEF TreeInv
  <2> QED
    BY <1>4, <1>6, <2>1, <2>2, <2>3 DEF TreeInv
<1>10. EmptyStat \in StatRec
  BY DEF EmptyStat, StatRec
<1>11. stat' \in [heap' -> StatRec] /\ heap' \subseteq Stat
  BY <1>1, <1>3, <1>5, <1>10
<1>12. tree' \in [Key -> Stat \cup {NULL}]
  BY <1>1, <1>3
<1>13. TypeInv'
  BY <1>1, <1>2, <1>3, <1>4, <1>11, <1>12, MainStep
<1> QED
  BY <1>9, <1>13

\* How many entries that overran are dropped is a number.
LEMMA OverranType ==
  ASSUME NEW q \in Seq(Name), NEW n \in 0 .. Len(q) PROVE Overran(q, n) \in Nat
<1> DEFINE S == Len(q) - n + 1 .. Len(q)
           T == {i \in S : q[i] \in Overrun}
<1>1. Len(q) \in Int /\ Len(q) - n + 1 \in Int
  OBVIOUS
<1>2. IsFiniteSet(S)
  BY <1>1, FS_Interval
<1>3. T \in SUBSET S
  OBVIOUS
<1>4. Overran(q, n) = Cardinality(T)
  BY DEF Overran
<1> HIDE DEF S, T
<1> QED
  BY <1>2, <1>3, <1>4, FS_Subset, FS_CardinalityType

\* What view_stats_set_memsize may leave of the statistics s.
Trimmings(s) == {Trimmed(s, i, j) : i \in 0 .. Len(s.names), j \in 0 .. Len(s.ips)}

\* It is a record of statistics with so many names and addresses less.
LEMMA TrimType ==
  ASSUME NEW s \in StatRec, NEW i \in 0 .. Len(s.names), NEW j \in 0 .. Len(s.ips)
  PROVE  /\ Trimmed(s, i, j) \in StatRec
         /\ Len(Trimmed(s, i, j).names) = Len(s.names) - i
         /\ Len(Trimmed(s, i, j).ips) = Len(s.ips) - j
<1>1. s.names \in Seq(Name) /\ s.ips \in Seq(Name) /\ s.lost \in Nat /\ s.hits \in Nat
  BY DEF StatRec
<1> DEFINE n == Len(s.names) - i
           m == Len(s.ips) - j
<1>2. n \in 0 .. Len(s.names) /\ m \in 0 .. Len(s.ips)
  BY <1>1
<1> HIDE DEF n, m
<1>3. /\ SubSeq(s.names, 1, n) \in Seq(Name) /\ Len(SubSeq(s.names, 1, n)) = n
      /\ SubSeq(s.ips, 1, m) \in Seq(Name) /\ Len(SubSeq(s.ips, 1, m)) = m
  BY <1>1, <1>2, PrefixProps
<1>4. s.lost + Overran(s.names, i) + Overran(s.ips, j) \in Nat
  <2>1. Overran(s.names, i) \in Nat /\ Overran(s.ips, j) \in Nat
    BY <1>1, OverranType
  <2> QED
    BY <1>1, <2>1
<1> QED
  BY <1>1, <1>3, <1>4 DEF Trimmed, StatRec, n, m

\* Recycling frees the statistics of the views it drops, and may trim others.
LEMMA TrimsStat ==
  ASSUME NEW m \in 0 .. Len(lru), view_tree_set_memsize(m),
         NEW kept, kept = heap \ {tree[k] : k \in LastOnes(m)}
  PROVE  /\ DOMAIN stat' = kept
         /\ \A o \in kept : stat'[o] \in {stat[o]} \cup Trimmings(stat[o])
         /\ stat' = [o \in kept |-> stat'[o]]
<1>1. CASE stat' = [o \in kept |-> stat[o]]
  BY <1>1
<1>2. ASSUME NEW k \in Key, NEW i \in 0 .. Len(stat[tree[k]].names),
             NEW j \in 0 .. Len(stat[tree[k]].ips),
             stat' = [o \in kept |-> IF o = tree[k] THEN Trimmed(stat[tree[k]], i, j)
                                      ELSE stat[o]]
      PROVE  /\ DOMAIN stat' = kept
             /\ \A o \in kept : stat'[o] \in {stat[o]} \cup Trimmings(stat[o])
             /\ stat' = [o \in kept |-> stat'[o]]
  <2>1. Trimmed(stat[tree[k]], i, j) \in Trimmings(stat[tree[k]])
    BY DEF Trimmings
  <2> QED
    BY <1>2, <2>1
<1>3. \/ stat' = [o \in kept |-> stat[o]]
      \/ \E k \in Key : \E i \in 0 .. Len(stat[tree[k]].names), j \in 0 .. Len(stat[tree[k]].ips) :
            stat' = [o \in kept |-> IF o = tree[k] THEN Trimmed(stat[tree[k]], i, j)
                                     ELSE stat[o]]
  BY DEF view_tree_set_memsize, Views
<1> QED
  BY <1>1, <1>2, <1>3

\* Recycling drops the same views everywhere.
LEMMA SetMemsizeKeeps ==
  ASSUME TypeInv, TreeInv, NEW m \in 0 .. Len(lru), view_tree_set_memsize(m)
  PROVE  TypeInv' /\ TreeInv'
<1> DEFINE gone == LastOnes(m)
           kept == heap \ {tree[k] : k \in gone}
<1>1. /\ tree' = [k \in Key |-> IF k \in gone THEN NULL ELSE tree[k]]
      /\ lru' = SubSeq(lru, 1, Len(lru) - m)
      /\ cnt' = cnt - m
      /\ evicted' = (evicted \/ gone # {})
      /\ Go(main, "count") /\ pc[main] = "recycle"
      /\ UNCHANGED <<mlock, stranded, line, phase, vs, nread, clientLocal, raced, residue>>
  BY DEF view_tree_set_memsize, mainLocal, mutex
<1>2. /\ tree \in [Key -> Stat \cup {NULL}] /\ lru \in Seq(Key) /\ Len(lru) \in Nat
      /\ heap \subseteq Stat /\ stat \in [heap -> StatRec]
      /\ cnt \in Int /\ residue \in Int /\ evicted \in BOOLEAN
      /\ vs \in Stat \cup {NULL}
  BY DEF TypeInv, TypeOK, StatRec
<1>3. /\ DOMAIN stat' = kept
      /\ \A o \in kept : stat'[o] \in {stat[o]} \cup Trimmings(stat[o])
      /\ stat' = [o \in kept |-> stat'[o]]
  BY TrimsStat
<1>4. Len(lru) - m \in 0 .. Len(lru) /\ m \in Int
  BY <1>2
<1>5. gone = {lru[i] : i \in (Len(lru) - m) + 1 .. Len(lru)}
  BY DEF LastOnes
<1> HIDE DEF gone
<1>6. /\ lru' \in Seq(Key) /\ Len(lru') = Len(lru) - m
      /\ ToSet(lru') = Views \ gone /\ IsInjective(lru')
  <2> DEFINE n == Len(lru) - m
  <2>1. n \in 0 .. Len(lru) /\ lru' = SubSeq(lru, 1, n)
    BY <1>1, <1>4
  <2>2. gone = {lru[i] : i \in n + 1 .. Len(lru)}
    BY <1>5
  <2> HIDE DEF n
  <2>3. ToSet(lru) = Views /\ IsInjective(lru)
    BY DEF TreeInv
  <2>4. lru' \in Seq(Key) /\ Len(lru') = n
    BY <1>2, <2>1, PrefixProps
  <2>5. IsInjective(lru') /\ ToSet(lru') = ToSet(lru) \ gone
    BY <1>2, <2>1, <2>2, <2>3, DropProps
  <2> QED
    BY <2>3, <2>4, <2>5 DEF n
<1>7. Views' = Views \ gone
  BY <1>1, <1>2 DEF Views
<1>8. gone \subseteq Views
  <2>1. \A i \in (Len(lru) - m) + 1 .. Len(lru) : i \in DOMAIN lru
    BY <1>2, <1>4
  <2> QED
    BY <1>5, <2>1 DEF TreeInv, ToSet
<1>9. \A k \in Views' : tree'[k] = tree[k]
  BY <1>1, <1>2, <1>7 DEF Views
<1>10. heap' = kept
  BY <1>3 DEF heap
<1>11. kept = {tree[k] : k \in Views \ gone}
  BY <1>8 DEF TreeInv
<1>12. TreeInv'
  <2>1. heap' = {tree'[k] : k \in Views'}
    BY <1>7, <1>9, <1>10, <1>11
  <2>2. \A j, k \in Views' : tree'[j] = tree'[k] => j = k
    BY <1>7, <1>9 DEF TreeInv
  <2>3. cnt' = Len(lru') + residue'
    BY <1>1, <1>2, <1>4, <1>6 DEF TreeInv
  <2> QED
    BY <1>6, <1>7, <2>1, <2>2, <2>3 DEF TreeInv
<1>13. stat' \in [heap' -> StatRec] /\ heap' \subseteq Stat
  <2>1. ASSUME NEW o \in kept PROVE stat'[o] \in StatRec
    BY <1>2, <1>3, TrimType DEF Trimmings
  <2> QED
    BY <1>2, <1>3, <1>10, <2>1
<1>14. tree' \in [Key -> Stat \cup {NULL}] /\ cnt' \in Int /\ evicted' \in BOOLEAN
  BY <1>1, <1>2, <1>4
<1>15. TypeInv'
  BY <1>1, <1>2, <1>6, <1>13, <1>14, MainStep
<1> QED
  BY <1>12, <1>15

\* Counting a line changes what is in the statistics only.
LEMMA CountKeeps ==
  ASSUME TypeInv, TreeInv, log_handle_count PROVE TypeInv' /\ TreeInv'
<1>1. /\ stat' = [o \in heap |->
                IF o = vs
                THEN [names |-> Inserted(stat[o].names, line.name),
                      ips |-> Inserted(stat[o].ips, line.ip),
                      lost |-> stat[o].lost,
                      hits |-> stat[o].hits + 1]
                ELSE stat[o]]
      /\ Go(main, "unlock") /\ pc[main] = "count"
      /\ UNCHANGED <<mlock, stranded, tree, lru, cnt, line, phase, vs, nread, clientLocal,
                     raced, residue, evicted>>
  BY DEF log_handle_count, mainLocal, ghosts, mutex
<1>2. /\ tree \in [Key -> Stat \cup {NULL}] /\ lru \in Seq(Key)
      /\ heap \subseteq Stat /\ stat \in [heap -> StatRec]
      /\ cnt \in Int /\ evicted \in BOOLEAN /\ vs \in Stat \cup {NULL}
  BY DEF TypeInv, TypeOK, StatRec
<1>3. line.name \in Name /\ line.ip \in Name
  BY <1>1, ThisKeyType, KeyAssumption
<1>4. ASSUME NEW o \in heap
      PROVE  [names |-> Inserted(stat[o].names, line.name),
              ips |-> Inserted(stat[o].ips, line.ip),
              lost |-> stat[o].lost,
              hits |-> stat[o].hits + 1] \in StatRec
  <2>1. /\ stat[o].names \in Seq(Name) /\ stat[o].ips \in Seq(Name)
        /\ stat[o].lost \in Nat /\ stat[o].hits \in Nat
    BY <1>2 DEF StatRec
  <2>2. /\ Inserted(stat[o].names, line.name) \in Seq(Name)
        /\ Inserted(stat[o].ips, line.ip) \in Seq(Name)
    BY <1>3, <2>1, InsertedType
  <2> QED
    BY <2>1, <2>2 DEF StatRec
<1>5. heap' = heap /\ Views' = Views
  BY <1>1 DEF heap, Views
<1>6. stat' \in [heap' -> StatRec]
  BY <1>1, <1>2, <1>4, <1>5
<1>7. TypeInv'
  BY <1>1, <1>2, <1>5, <1>6, MainStep
<1>8. TreeInv'
  BY <1>1, <1>5 DEF TreeInv
<1> QED
  BY <1>7, <1>8

\* The main thread takes the next line, or is done with a call of log_handle.
LEMMA LineKeeps ==
  ASSUME TypeInv, TreeInv,
         (\E l \in Line : handle_string_log(l)) \/ log_handle_unlock
  PROVE  TypeInv' /\ TreeInv'
<1>0. TypeOK /\ Busy
  BY DEF TypeInv
<1>1. UNCHANGED <<tree, lru, cnt, stat, req, vtnode, nreq, raced, residue, evicted>>
  BY DEF handle_string_log, log_handle_unlock, keeper, clientLocal, ghosts, mutex
<1>2. TreeInv' /\ heap' = heap
  BY <1>1 DEF TreeInv, Views, heap
<1>3. pc' \in [Thread -> PCs]
  BY <1>0 DEF TypeOK, PCs, Go, handle_string_log, log_handle_unlock
<1>4. /\ line' \in Line \cup {NULL} /\ phase' \in {1, 2}
      /\ vs' \in Stat \cup {NULL} /\ nread' \in Nat /\ mlock' \in BOOLEAN
      /\ stranded' = stranded
  <2>1. CASE \E l \in Line : handle_string_log(l)
    BY <1>0, <2>1 DEF TypeOK, handle_string_log, mutex
  <2>2. CASE log_handle_unlock
    <3>1. phase' \in {1, 2}
      BY <1>0, <2>2 DEF TypeOK, log_handle_unlock
    <3> QED
      BY <1>0, <2>2, <3>1 DEF TypeOK, log_handle_unlock
  <2> QED
    BY <2>1, <2>2
<1>5. Busy'
  BY <1>0 DEF Busy, TypeOK, Go, Thread, handle_string_log, log_handle_unlock
<1>6. TypeOK'
  BY <1>0, <1>1, <1>2, <1>3, <1>4 DEF TypeOK
<1> QED
  BY <1>2, <1>5, <1>6 DEF TypeInv

\* Flushing empties all of it, and keeps the count it finds.
LEMMA FlushKeeps ==
  ASSUME TypeInv, TreeInv, NEW c \in Client, socket_thread_flush(c)
  PROVE  TypeInv' /\ TreeInv'
<1>0. TypeOK /\ Busy
  BY DEF TypeInv
<1>1. /\ tree' = [k \in Key |-> NULL]
      /\ lru' = <<>>
      /\ stat' = [o \in heap \ {tree[k] : k \in Views} |-> stat[o]]
      /\ cnt' \in CountFound /\ residue' = cnt'
      /\ evicted' = FALSE /\ Go(c, "unlock")
      /\ UNCHANGED <<mlock, stranded, line, phase, vs, nread, req, vtnode, nreq, raced>>
  BY DEF socket_thread_flush, mainLocal, clientLocal, mutex
<1>2. Views' = {} /\ tree' \in [Key -> Stat \cup {NULL}]
  BY <1>1 DEF Views
<1>3. heap' = {}
  BY <1>1 DEF heap, TreeInv
<1>4. lru' \in Seq(Key) /\ Len(lru') = 0 /\ DOMAIN lru' = {}
  BY <1>1
<1>5. cnt' \in Int /\ residue' \in Int
  BY <1>0, <1>1, CostAssumption DEF TypeOK, CountFound
<1>6. TreeInv'
  <2>1. ToSet(lru') = {} /\ IsInjective(lru')
    BY <1>4 DEF ToSet, IsInjective
  <2>2. cnt' = Len(lru') + residue'
    <3>1. cnt' = residue'
      BY <1>1
    <3>2. \A i \in Int : i = 0 + i
      OBVIOUS
    <3>3. residue' = 0 + residue'
      BY <1>5, <3>2, Zenon
    <3> QED
      BY <1>4, <3>1, <3>3, Zenon
  <2> QED
    BY <1>2, <1>3, <2>1, <2>2 DEF TreeInv
<1>7. stat' \in [heap' -> StatRec]
  BY <1>1, <1>3 DEF heap
<1>8. pc' \in [Thread -> PCs] /\ Busy'
  BY <1>0, <1>1, ThreadAssumption DEF TypeOK, Go, Thread, PCs, Busy
<1>9. TypeOK'
  BY <1>0, <1>1, <1>2, <1>3, <1>4, <1>5, <1>7, <1>8 DEF TypeOK, StatRec
<1> QED
  BY <1>6, <1>8, <1>9 DEF TypeInv

\* Every step keeps the types and the structure of the view tree.
LEMMA TreeNext == ASSUME TypeInv, TreeInv, [Next]_vars PROVE TypeInv' /\ TreeInv'
<1>1. CASE log_handle
  BY <1>1, QuietStep, FoundKeeps, CreateKeeps, SetMemsizeKeeps, CountKeeps, LineKeeps
     DEF log_handle
<1>2. CASE \E l \in Line : handle_string_log(l)
  BY <1>2, LineKeeps
<1>3. CASE \E c \in Client : (\E r \in Request : socket_thread_read(c, r)) \/ socket_thread(c)
  BY <1>3, QuietStep, FlushKeeps DEF socket_thread
<1>4. CASE house_keeper_create \/ (\E t \in Thread : mutex_lock(t) \/ futex_wake(t)) \/ qps_thread
           \/ UNCHANGED vars
  BY <1>4, QuietStep
<1> QED
  BY <1>1, <1>2, <1>3, <1>4 DEF Next

\* Every variable keeps its type (TypeOK).
THEOREM TypeCorrect == Spec => []TypeOK
<1>1. Init => TypeInv /\ TreeInv
  BY TreeInit
<1>2. TypeInv /\ TreeInv /\ [Next]_vars => TypeInv' /\ TreeInv'
  BY TreeNext
<1>3. TypeInv => TypeOK
  BY DEF TypeInv
<1> QED
  BY <1>1, <1>2, <1>3, PTL DEF Spec

\* The red-black tree, the LRU list and the allocated statistics hold the
\* same views, for any number of views, lines and clients (TreeMatchesLru).
THEOREM TreeTheorem == Spec => []TreeMatchesLru
<1>1. Init => TypeInv /\ TreeInv
  BY TreeInit
<1>2. TypeInv /\ TreeInv /\ [Next]_vars => TypeInv' /\ TreeInv'
  BY TreeNext
<1>3. TreeInv => TreeMatchesLru
  BY DEF TreeInv, TreeMatchesLru
<1> QED
  BY <1>1, <1>2, <1>3, PTL DEF Spec

-----------------------------------------------------------------------------
(* The count.                                                              *)

\* A list without duplicates has as many members as entries.
LEMMA InjectiveCardinality ==
  ASSUME NEW S, NEW s \in Seq(S), IsInjective(s)
  PROVE  IsFiniteSet(ToSet(s)) /\ Cardinality(ToSet(s)) = Len(s)
<1>1. Len(s) \in Nat /\ DOMAIN s = 1 .. Len(s)
  OBVIOUS
<1>2. s \in [1 .. Len(s) -> ToSet(s)]
  <2>1. s = [i \in 1 .. Len(s) |-> s[i]]
    BY <1>1
  <2>2. \A i \in 1 .. Len(s) : s[i] \in ToSet(s)
    BY <1>1 DEF ToSet
  <2> QED
    BY <2>1, <2>2
<1>3. \A a, b \in 1 .. Len(s) : s[a] = s[b] => a = b
  BY <1>1 DEF IsInjective
<1>4. \A t \in ToSet(s) : \E i \in 1 .. Len(s) : s[i] = t
  BY <1>1 DEF ToSet
<1>5. s \in Bijection(1 .. Len(s), ToSet(s))
  BY <1>2, <1>3, <1>4, Fun_IsBij
<1>6. ExistsBijection(1 .. Len(s), ToSet(s))
  BY <1>5, Fun_ExistsBij
<1> QED
  BY <1>1, <1>6, FS_CountingElements, FS_NatBijection

\* The count of the view tree is wrong by exactly what view_tree_create found
\* in the field, after any number of flushes (CountOffByResidue).
THEOREM CountTheorem == Spec => []CountOffByResidue
<1>1. Init => TypeInv /\ TreeInv
  BY TreeInit
<1>2. TypeInv /\ TreeInv /\ [Next]_vars => TypeInv' /\ TreeInv'
  BY TreeNext
<1>3. TypeInv /\ TreeInv => CountOffByResidue
  <2> SUFFICES ASSUME TypeInv, TreeInv PROVE cnt = Cardinality(Views) + residue
    BY DEF CountOffByResidue
  <2>1. lru \in Seq(Key) /\ IsInjective(lru) /\ ToSet(lru) = Views
        /\ cnt = Len(lru) + residue
    BY DEF TypeInv, TypeOK, TreeInv
  <2>2. Cardinality(Views) = Len(lru)
    BY <2>1, InjectiveCardinality
  <2> QED
    BY <2>1, <2>2
<1> QED
  BY <1>1, <1>2, <1>3, PTL DEF Spec

-----------------------------------------------------------------------------
(* Views in use.  Recycling starts with the view of the line at the head   *)
(* of the LRU list, and keeps at least the head when the count is not too  *)
(* large.                                                                  *)

MainUse ==
  /\ pc[main] = "recycle" =>
       ThisKey \in Views /\ vs = tree[ThisKey] /\ lru[1] = ThisKey
  /\ pc[main] = "count" /\ residue <= 0 => ThisKey \in Views /\ vs = tree[ThisKey]

ClientUse ==
  \A c \in Client : pc[c] = "exec" /\ vtnode[c] # NULL => vtnode[c] \in Views

UseInv == ~raced => MainUse /\ ClientUse

\* Without the race two threads in the section are one.
LEMMA OnlyOneInside ==
  ASSUME LockInv, ~raced, NEW t \in Thread, NEW u \in Thread,
         InSection(t), InSection(u)
  PROVE  t = u
<1> SUFFICES ASSUME t # u PROVE FALSE
  OBVIOUS
<1>1. {t, u} \in SUBSET Section
  BY DEF Section
<1>2. IsFiniteSet({t}) /\ Cardinality({t}) = 1
  BY FS_Singleton
<1>3. {t, u} = {t} \cup {u} /\ u \notin {t}
  OBVIOUS
<1>4. Cardinality({t, u}) = 2
  BY <1>2, <1>3, FS_AddElement
<1>5. Cardinality({t, u}) <= Cardinality(Section)
  BY <1>1, SectionFinite, FS_Subset
<1>6. Cardinality(Section) <= 1 /\ Cardinality(Section) \in Nat
  BY SectionFinite DEF LockInv, Bit
<1> QED
  BY <1>4, <1>5, <1>6

\* A step that leaves the tree alone, and the main thread out of its use.
LEMMA UseFrame ==
  ASSUME UseInv, ~raced' => ~raced, UNCHANGED tree,
         \/ pc'[main] \notin {"recycle", "count"}
         \/ pc'[main] = pc[main] /\ UNCHANGED <<lru, line, phase, vs, residue>>,
         \A c \in Client : pc'[c] = "exec" => pc[c] = "exec" /\ vtnode'[c] = vtnode[c]
  PROVE  UseInv'
<1>1. Views' = Views
  BY DEF Views
<1>2. ASSUME MainUse PROVE MainUse'
  BY <1>1, <1>2 DEF MainUse, ThisKey
<1>3. ASSUME ClientUse PROVE ClientUse'
  BY <1>1, <1>3 DEF ClientUse
<1> QED
  BY <1>2, <1>3 DEF UseInv

\* Steps before the threads run, and those of the mutex.
LEMMA UseSync ==
  ASSUME LockInv, UseInv,
         house_keeper_create \/ (\E t \in Thread : mutex_lock(t)) \/ qps_thread
         \/ UNCHANGED others
  PROVE  UseInv'
<1>0. main \in Thread /\ main # qps /\ main \notin Client /\ qps \notin Client
      /\ Client \subseteq Thread
  BY ThreadAssumption DEF Thread
<1>1. UNCHANGED <<tree, lru, line, phase, vs, residue, vtnode>>
  BY DEF house_keeper_create, start_command_handler, start_qps_thread, mutex_init,
         mutex_lock, qps_thread, qps_thread_walk, qps_thread_unlock,
         qps_thread_wake, keeper, mainLocal, clientLocal, ghosts, mutex, others
<1>2. ~raced' => ~raced
  BY DEF LockInv, Starting, house_keeper_create, start_command_handler,
         start_qps_thread, mutex_init, mutex_lock, qps_thread, qps_thread_walk,
         qps_thread_unlock, qps_thread_wake, ghosts, mutex, others
<1>3. \A t \in Thread : pc'[t] \in {"recycle", "count", "exec"} => pc'[t] = pc[t]
  <2> USE DEF LockInv, PcInv, Go
  <2>1. CASE house_keeper_create
    BY <1>0, <2>1 DEF house_keeper_create, start_command_handler,
                      start_qps_thread, mutex_init
  <2>2. ASSUME NEW t \in Thread, mutex_lock(t)
        PROVE  \A u \in Thread : pc'[u] \in {"recycle", "count", "exec"} => pc'[u] = pc[u]
    BY <2>2 DEF mutex_lock, AfterLock
  <2>3. CASE qps_thread
    BY <2>3 DEF qps_thread, qps_thread_walk, qps_thread_unlock, qps_thread_wake
  <2>4. CASE UNCHANGED others
    BY <2>4 DEF others
  <2> QED
    BY <2>1, <2>2, <2>3, <2>4
<1>4. \A c \in Client : pc'[c] = "exec" => pc[c] = "exec" /\ vtnode'[c] = vtnode[c]
  BY <1>0, <1>1, <1>3
<1>5. \/ pc'[main] \notin {"recycle", "count"}
      \/ pc'[main] = pc[main] /\ UNCHANGED <<lru, line, phase, vs, residue>>
  BY <1>0, <1>1, <1>3
<1> QED
  BY <1>1, <1>2, <1>4, <1>5, UseFrame

\* Recycling keeps the head of the list when the count is not too large.
LEMMA HeadSurvives ==
  ASSUME TypeInv, TreeInv, NEW m \in 0 .. Len(lru), LoopDrops(m),
         residue <= 0, Len(lru) > 0
  PROVE  lru[1] \notin LastOnes(m)
<1>1. /\ lru \in Seq(Key) /\ cnt \in Int /\ residue \in Int
      /\ cnt = Len(lru) + residue /\ IsInjective(lru)
  BY DEF TypeInv, TypeOK, TreeInv
<1>2. Len(lru) \in Nat /\ m \in Int /\ DOMAIN lru = 1 .. Len(lru)
  BY <1>1
<1>3. m < Len(lru)
  <2>1. CASE m = 0
    BY <1>2, <2>1
  <2>2. CASE m > 0
    <3>1. m - 1 \in 0 .. m - 1
      BY <1>2, <2>2
    <3>2. cnt - (m - 1) > 1
      BY <3>1 DEF LoopDrops, MoreToDrop
    <3> QED
      BY <1>1, <1>2, <3>2
  <2> QED
    BY <1>2, <2>1, <2>2
<1>4. \A i \in Len(lru) - m + 1 .. Len(lru) : i \in DOMAIN lru /\ i # 1
  BY <1>2, <1>3
<1>5. 1 \in DOMAIN lru
  BY <1>2
<1> QED
  BY <1>1, <1>4, <1>5 DEF LastOnes, IsInjective

\* log_handle works on the view it found or made, at the head of the list.
LEMMA UseMain ==
  ASSUME LockInv, TypeInv, TreeInv, UseInv,
         log_handle \/ \E l \in Line : handle_string_log(l)
  PROVE  UseInv'
<1>0. main \in Thread /\ main \notin Client /\ Client \subseteq Thread /\ pc \in [Thread -> PCs]
  BY ThreadAssumption DEF Thread, LockInv, PcInv
<1>1. raced' = raced /\ vtnode' = vtnode /\ \E l \in PCs : Go(main, l)
  BY DEF log_handle, log_handle_found, log_handle_create, log_handle_refused,
         log_handle_fits, view_tree_set_memsize, log_handle_count,
         log_handle_unlock, handle_string_log, clientLocal, ghosts, mutex, PCs
<1>2. \A c \in Client : pc'[c] = pc[c] /\ vtnode'[c] = vtnode[c]
  BY <1>0, <1>1 DEF Go
<1>3. CASE \/ log_handle_refused \/ log_handle_count \/ log_handle_unlock
           \/ \E l \in Line : handle_string_log(l)
  <2>1. pc'[main] \notin {"recycle", "count"} /\ UNCHANGED tree
    BY <1>0, <1>3 DEF log_handle_refused, log_handle_count, log_handle_unlock,
                      handle_string_log, keeper, Go
  <2> QED
    BY <1>1, <1>2, <2>1, UseFrame
<1>4. CASE log_handle_fits
  <2>1. /\ pc[main] = "recycle" /\ pc'[main] = "count"
        /\ UNCHANGED <<tree, line, phase, vs, residue>>
    BY <1>0, <1>4 DEF log_handle_fits, keeper, mainLocal, ghosts, mutex, Go
  <2>2. Views' = Views /\ ThisKey' = ThisKey
    BY <2>1 DEF Views, ThisKey
  <2>3. ASSUME MainUse PROVE MainUse'
    BY <2>1, <2>2, <2>3 DEF MainUse
  <2>4. ASSUME ClientUse PROVE ClientUse'
    BY <1>2, <2>2, <2>4 DEF ClientUse
  <2> QED
    BY <1>1, <2>3, <2>4 DEF UseInv
<1>5. CASE log_handle_found \/ log_handle_create
      \/ \E m \in 0 .. Len(lru) : view_tree_set_memsize(m)
  <2> SUFFICES ASSUME ~raced PROVE MainUse' /\ ClientUse'
    BY <1>1 DEF UseInv
  <2>1. InSection(main)
    BY <1>5 DEF InSection, log_handle_found, log_handle_create, view_tree_set_memsize
  <2>2. \A c \in Client : pc[c] # "exec"
    BY <1>0, <2>1, OnlyOneInside DEF InSection
  <2>3. ClientUse'
    BY <1>2, <2>2 DEF ClientUse
  <2>4. CASE log_handle_found
    <3>1. /\ pc[main] = "find" /\ pc'[main] = "recycle"
          /\ UNCHANGED <<tree, line, phase>>
          /\ vs' = tree[ThisKey] /\ lru' = MoveToFirst(lru, ThisKey)
          /\ tree[ThisKey] # NULL
      BY <1>0, <2>4 DEF log_handle_found, Go
    <3>2. Views' = Views /\ ThisKey' = ThisKey /\ ThisKey \in Views
      BY <3>1, ThisKeyType DEF Views, ThisKey
    <3>3. lru \in Seq(Key) /\ ToSet(lru) = Views
      BY DEF TypeInv, TypeOK, TreeInv
    <3>4. lru'[1] = ThisKey
      BY <3>1, <3>2, <3>3, MoveToFirstProps
    <3> QED
      BY <2>3, <3>1, <3>2, <3>4 DEF MainUse
  <2>5. CASE log_handle_create
    <3>1. PICK o \in Stat \ heap : tree' = [tree EXCEPT ![ThisKey] = o] /\ vs' = o
      BY <2>5 DEF log_handle_create
    <3>2. /\ pc[main] = "find" /\ pc'[main] = "recycle" /\ UNCHANGED <<line, phase>>
          /\ lru' = <<ThisKey>> \o lru
      BY <1>0, <2>5 DEF log_handle_create, Go
    <3>3. ThisKey' = ThisKey /\ ThisKey \in Key
      BY <3>2, ThisKeyType DEF ThisKey
    <3>4. tree'[ThisKey] = o /\ ThisKey \in Views'
      BY <3>1, <3>3, NullAssumption DEF Views, TypeInv, TypeOK
    <3>5. lru \in Seq(Key)
      BY DEF TypeInv, TypeOK
    <3>6. lru'[1] = ThisKey
      BY <3>2, <3>3, <3>5, PrependProps
    <3> QED
      BY <2>3, <3>1, <3>2, <3>3, <3>4, <3>6 DEF MainUse
  <2>6. ASSUME NEW m \in 0 .. Len(lru), view_tree_set_memsize(m)
        PROVE  MainUse' /\ ClientUse'
    <3>1. /\ pc[main] = "recycle" /\ pc'[main] = "count" /\ LoopDrops(m)
          /\ tree' = [k \in Key |-> IF k \in LastOnes(m) THEN NULL ELSE tree[k]]
          /\ UNCHANGED <<line, phase, vs, residue>>
      BY <1>0, <2>6 DEF view_tree_set_memsize, mainLocal, Go
    <3>2. ThisKey \in Views /\ vs = tree[ThisKey] /\ lru[1] = ThisKey
      BY <3>1 DEF UseInv, MainUse
    <3>3. ThisKey' = ThisKey
      BY <3>1 DEF ThisKey
    <3>4. lru \in Seq(Key) /\ ThisKey \in ToSet(lru)
      BY <3>2 DEF TypeInv, TypeOK, TreeInv
    <3>5. Len(lru) > 0
      BY <3>4, MoveToFirstProps
    <3>6. ASSUME residue <= 0 PROVE ThisKey \in Views' /\ tree'[ThisKey] = tree[ThisKey]
      <4>1. ThisKey \notin LastOnes(m)
        BY <3>1, <3>2, <3>5, <3>6, HeadSurvives
      <4> QED
        BY <3>1, <3>2, <4>1 DEF Views
    <3>7. MainUse'
      BY <3>1, <3>2, <3>3, <3>6 DEF MainUse
    <3> QED
      BY <2>3, <3>7
  <2> QED
    BY <1>5, <2>4, <2>5, <2>6
<1> QED
  BY <1>3, <1>4, <1>5 DEF log_handle

\* A client looks at the tree, and empties it only when nobody uses it.
LEMMA UseClient ==
  ASSUME LockInv, TypeInv, UseInv, NEW c \in Client,
         (\E r \in Request : socket_thread_read(c, r)) \/ socket_thread(c)
  PROVE  UseInv'
<1>0. /\ main \in Thread /\ main \notin Client /\ Client \subseteq Thread
      /\ c \in Thread /\ c # main
      /\ pc \in [Thread -> PCs] /\ vtnode \in [Client -> Key \cup {NULL}]
  BY ThreadAssumption DEF Thread, LockInv, PcInv, TypeInv, TypeOK
<1>1. raced' = raced /\ pc'[main] = pc[main] /\ UNCHANGED <<line, phase, vs>>
  BY <1>0 DEF socket_thread, socket_thread_read, socket_thread_find,
         socket_thread_query, socket_thread_flush, socket_thread_unlock,
         ghosts, mutex, mainLocal, Go
<1>2. \A d \in Client : d # c => pc'[d] = pc[d] /\ vtnode'[d] = vtnode[d]
  BY <1>0 DEF socket_thread, socket_thread_read, socket_thread_find,
         socket_thread_query, socket_thread_flush, socket_thread_unlock,
         clientLocal, Go
<1>3. CASE (\E r \in Request : socket_thread_read(c, r)) \/ socket_thread_query(c)
           \/ socket_thread_unlock(c)
  <2>1. pc'[c] # "exec" /\ UNCHANGED <<tree, lru, residue>>
    BY <1>0, <1>3 DEF socket_thread_read, socket_thread_query,
                      socket_thread_unlock, keeper, ghosts, mutex, Go
  <2> QED
    BY <1>1, <1>2, <2>1, UseFrame
<1>4. CASE socket_thread_find(c)
  <2>1. UNCHANGED <<tree, lru, residue>>
        /\ vtnode'[c] = IF req[c].view \in Views THEN req[c].view ELSE NULL
    BY <1>0, <1>4 DEF socket_thread_find, keeper, ghosts, mutex
  <2>2. Views' = Views /\ ThisKey' = ThisKey
    BY <1>1, <2>1 DEF Views, ThisKey
  <2>3. ASSUME MainUse PROVE MainUse'
    BY <1>1, <2>1, <2>2, <2>3 DEF MainUse
  <2>4. ASSUME ClientUse PROVE ClientUse'
    BY <1>2, <2>1, <2>2, <2>4 DEF ClientUse
  <2> QED
    BY <1>1, <2>3, <2>4 DEF UseInv
<1>5. CASE socket_thread_flush(c)
  <2> SUFFICES ASSUME ~raced PROVE MainUse' /\ ClientUse'
    BY <1>1 DEF UseInv
  <2>1. InSection(c) /\ pc'[c] = "unlock"
    BY <1>0, <1>5 DEF InSection, socket_thread_flush, Go
  <2>2. pc[main] \notin {"recycle", "count"}
    BY <1>0, <2>1, OnlyOneInside DEF InSection
  <2>3. \A d \in Client : d # c => pc[d] # "exec"
    BY <1>0, <2>1, OnlyOneInside DEF InSection
  <2> QED
    BY <1>1, <1>2, <2>1, <2>2, <2>3 DEF MainUse, ClientUse
<1> QED
  BY <1>3, <1>4, <1>5 DEF socket_thread

\* No view is freed while log_handle or socket_thread uses it, as long as the
\* count is not too large (InUseNotFreed).
THEOREM UseTheorem == Spec => []InUseNotFreed
<1> DEFINE Inv == LockInv /\ TypeInv /\ TreeInv /\ UseInv
<1>1. Init => Inv
  <2>1. Init => UseInv
    BY ThreadAssumption DEF Init, UseInv, MainUse, ClientUse, Thread
  <2> QED
    BY <2>1, LockInit, TreeInit
<1>2. Inv /\ [Next]_vars => Inv'
  <2> SUFFICES ASSUME Inv, [Next]_vars PROVE Inv'
    OBVIOUS
  <2>1. LockInv' /\ TypeInv' /\ TreeInv'
    BY LockNext, TreeNext
  <2>2. UseInv'
    BY Steps, UseSync, UseMain, UseClient DEF Step
  <2> QED
    BY <2>1, <2>2
<1>3. Inv => InUseNotFreed
  BY DEF UseInv, MainUse, ClientUse, TreeInv, InUseNotFreed
<1> QED
  BY <1>1, <1>2, <1>3, PTL DEF Spec

-----------------------------------------------------------------------------
(* The memory bound.                                                       *)

\* What the last view may take: what recycling leaves it, and the parts that
\* it does not count.
Bound == Limit + BaseCost + NodeCost

\* One view is left, with no more than n names and n addresses on its lists.
Bare(n) ==
  \E k \in Views : Views = {k} /\ Len(stat[tree[k]].names) <= n /\ Len(stat[tree[k]].ips) <= n

\* MemoryBound needs no mutual exclusion.  Inductive is that the tree is within
\* Bound or has nothing to drop before a line is counted, and has what the line
\* brings besides after it.
BoundInv ==
  residue = 0 /\ pc[main] # "recycle" =>
    \/ view_tree_get_size <= Bound + IF pc[main] = "count" THEN 0 ELSE 4
    \/ Bare(IF pc[main] = "count" THEN 0 ELSE 1)

\* The size of a view is a number of units.
LEMMA SizeType ==
  ASSUME NEW s \in StatRec
  PROVE  view_stats_get_size(s) \in Nat
<1>1. s.names \in Seq(Name) /\ s.ips \in Seq(Name) /\ s.lost \in Nat
  BY DEF StatRec
<1>2. Len(s.names) \in Nat /\ Len(s.ips) \in Nat
  BY <1>1
<1>3. \A a, b, c \in Nat : StatCost + 2 * (a + b) + c \in Nat
  BY CostAssumption
<1> QED
  BY <1>1, <1>2, <1>3, Zenon DEF view_stats_get_size

\* The views are finitely many, and each takes a number of units.
SizeFacts ==
  /\ IsFiniteSet(Views)
  /\ \A k \in Key : Weight[k] \in Nat
  /\ \A k \in Views : tree[k] \in heap /\ stat[tree[k]] \in StatRec
  /\ \A k \in Views : Weight[k] = NodeCost + view_stats_get_size(stat[tree[k]])

\* The tree being what it is, that is so.
LEMMA SizesAre == TypeInv /\ TreeInv => SizeFacts
<1> SUFFICES ASSUME TypeInv, TreeInv PROVE SizeFacts
  OBVIOUS
<1>1. /\ lru \in Seq(Key) /\ tree \in [Key -> Stat \cup {NULL}]
      /\ stat \in [heap -> StatRec]
  BY DEF TypeInv, TypeOK, StatRec
<1>2. IsFiniteSet(Views)
  BY <1>1, InjectiveCardinality DEF TreeInv
<1>3. \A k \in Views : tree[k] \in heap /\ stat[tree[k]] \in StatRec
  BY <1>1 DEF TreeInv
<1>4. \A k \in Key : tree[k] # NULL <=> k \in Views
  BY DEF Views
<1>5. \A k \in Views : Weight[k] = NodeCost + view_stats_get_size(stat[tree[k]])
  BY <1>4 DEF Weight, Views
<1>6. \A k \in Views : view_stats_get_size(stat[tree[k]]) \in Nat
  BY <1>1, <1>3, SizeType
<1>7. \A k \in Key : Weight[k] \in Nat
  BY <1>4, <1>5, <1>6, CostAssumption DEF Weight
<1> QED
  BY <1>2, <1>3, <1>5, <1>7 DEF SizeFacts

\* The same after a step.
LEMMA SizesNext == TypeInv' /\ TreeInv' => SizeFacts'
BY SizesAre, PTL

\* view_stats_set_memsize makes a view as large as mem_uplimit allows or
\* smaller, unless its lists end before.
LEMMA TrimFits ==
  ASSUME NEW s \in StatRec, NEW i \in 0 .. Len(s.names), NEW j \in 0 .. Len(s.ips),
         view_stats_set_memsize(s, i, j)
  PROVE  \/ view_stats_get_size(Trimmed(s, i, j)) <= Limit
         \/ i = Len(s.names) /\ j = Len(s.ips)
<1>1. view_stats_get_size(Trimmed(s, i, j)) \in Nat /\ Limit \in Nat
  BY TrimType, SizeType, CostAssumption
<1>2. CASE ~ TooLarge(s, i, j)
  BY <1>1, <1>2 DEF TooLarge
<1>3. CASE TooLarge(s, i, j)
  <2>1. j = Len(s.ips)
    BY <1>3 DEF view_stats_set_memsize
  <2>2. ASSUME ~ TooLarge(s, i, 0) PROVE FALSE
    <3>1. j # 0
      BY <1>3, <2>2
    <3>2. 0 \in 0 .. j - 1
      BY <3>1
    <3> QED
      BY <2>2, <3>2 DEF view_stats_set_memsize
  <2> QED
    BY <2>1, <2>2 DEF view_stats_set_memsize
<1> QED
  BY <1>2, <1>3

\* A tree without views has the size of view_tree_t.
LEMMA EmptySize == Views = {} => view_tree_get_size = BaseCost
<1>1. SumFunctionOnSet(Weight, {}) = 0
  BY SumFirst, FS_EmptySet
<1> QED
  BY <1>1, CostAssumption DEF view_tree_get_size, SizeOf

\* The size follows from the tree and the statistics of its views.
LEMMA SameSize ==
  ASSUME UNCHANGED <<tree, stat>> PROVE view_tree_get_size' = view_tree_get_size
<1>1. Weight' = Weight /\ Views' = Views
  BY DEF Weight, view_stats_get_size, Views
<1> QED
  BY <1>1 DEF view_tree_get_size, SizeOf

\* Counting a line adds a name and an address to one view at most.
LEMMA InsertedLen ==
  ASSUME NEW S, NEW s \in Seq(S), NEW x \in S
  PROVE  Len(Inserted(s, x)) \in Nat /\ Len(Inserted(s, x)) <= Len(s) + 1
<1>1. (\E i \in DOMAIN s : s[i] = x) <=> x \in ToSet(s)
  BY DEF ToSet
<1>2. Len(s) \in Nat
  OBVIOUS
<1>3. CASE x \in ToSet(s) /\ x \notin Overrun
  <2>1. Inserted(s, x) = MoveToFirst(s, x)
    BY <1>1, <1>3 DEF Inserted
  <2>2. Len(MoveToFirst(s, x)) = Len(s)
    BY <1>3, MoveToFirstProps
  <2> QED
    BY <1>2, <2>1, <2>2
<1>4. CASE ~ (x \in ToSet(s) /\ x \notin Overrun)
  <2>1. Inserted(s, x) = <<x>> \o s
    BY <1>1, <1>4 DEF Inserted
  <2>2. Len(<<x>> \o s) = Len(s) + 1
    BY PrependProps
  <2> QED
    BY <1>2, <2>1, <2>2
<1> QED
  BY <1>3, <1>4

\* It adds four units to the tree at most, and a name and an address.
LEMMA CountBound ==
  ASSUME TypeInv, TreeInv, BoundInv, log_handle_count PROVE BoundInv'
<1> SUFFICES ASSUME residue' = 0 PROVE view_tree_get_size' <= Bound + 4 \/ Bare(1)'
  <2>1. pc'[main] # "count"
    BY DEF log_handle_count, Go, TypeInv, TypeOK, Thread
  <2> QED
    BY <2>1 DEF BoundInv
<1>1. /\ stat' = [o \in heap |->
                IF o = vs
                THEN [names |-> Inserted(stat[o].names, line.name),
                      ips |-> Inserted(stat[o].ips, line.ip),
                      lost |-> stat[o].lost,
                      hits |-> stat[o].hits + 1]
                ELSE stat[o]]
      /\ pc[main] = "count" /\ UNCHANGED <<tree, residue>>
  BY DEF log_handle_count, ghosts, mutex
<1>2. view_tree_get_size <= Bound \/ Bare(0)
  BY <1>1, CostAssumption DEF BoundInv, Bound
<1>3. Views' = Views /\ heap' = heap
  BY <1>1 DEF Views, heap
<1>4. TypeInv' /\ TreeInv'
  BY CountKeeps
<1>5. SizeFacts /\ SizeFacts'
  BY <1>4, SizesAre, SizesNext
<1>6. line.name \in Name /\ line.ip \in Name
  BY <1>1, ThisKeyType, KeyAssumption
<1>7. ASSUME NEW k \in Views, tree[k] # vs PROVE Weight'[k] = Weight[k]
  <2>1. stat'[tree[k]] = stat[tree[k]]
    BY <1>1, <1>5, <1>7 DEF SizeFacts
  <2>2. /\ Weight[k] = NodeCost + view_stats_get_size(stat[tree[k]])
        /\ Weight'[k] = NodeCost + view_stats_get_size(stat'[tree[k]])
    BY <1>1, <1>3, <1>5 DEF SizeFacts
  <2> QED
    BY <1>1, <2>1, <2>2 DEF view_stats_get_size
<1> DEFINE n == Len(stat[vs].names)
           p == Len(stat[vs].ips)
           m == Len(Inserted(stat[vs].names, line.name))
           q == Len(Inserted(stat[vs].ips, line.ip))
           c == stat[vs].lost
<1>8. ASSUME NEW k \in Views, tree[k] = vs
      PROVE  /\ n \in Nat /\ p \in Nat /\ m \in Nat /\ q \in Nat /\ c \in Nat
             /\ m <= n + 1 /\ q <= p + 1
             /\ stat'[vs].names = Inserted(stat[vs].names, line.name)
             /\ stat'[vs].ips = Inserted(stat[vs].ips, line.ip)
             /\ stat'[vs].lost = c
  <2>1. vs \in heap /\ stat[vs] \in StatRec
    BY <1>5, <1>8 DEF SizeFacts
  <2>2. stat[vs].names \in Seq(Name) /\ stat[vs].ips \in Seq(Name) /\ stat[vs].lost \in Nat
    BY <2>1 DEF StatRec
  <2>3. n \in Nat /\ p \in Nat /\ m \in Nat /\ q \in Nat /\ m <= n + 1 /\ q <= p + 1
    BY <1>6, <2>2, InsertedLen
  <2> QED
    BY <1>1, <2>1, <2>2, <2>3
<1>9. ASSUME NEW k \in Views, tree[k] = vs PROVE Weight'[k] <= Weight[k] + 4
  <2>1. Weight[k] = NodeCost + (StatCost + 2 * (n + p) + c)
    BY <1>5, <1>9 DEF SizeFacts, view_stats_get_size
  <2>2. Weight'[k] = NodeCost + view_stats_get_size(stat'[vs])
    BY <1>1, <1>3, <1>5, <1>9 DEF SizeFacts
  <2>3. Weight'[k] = NodeCost + (StatCost + 2 * (m + q) + c)
    BY <1>8, <1>9, <2>2 DEF view_stats_get_size
  <2>4. n \in Nat /\ p \in Nat /\ m \in Nat /\ q \in Nat /\ c \in Nat /\ m <= n + 1 /\ q <= p + 1
    BY <1>8, <1>9
  <2> HIDE DEF n, p, m, q, c
  <2> QED
    BY <2>1, <2>3, <2>4, CostAssumption
<1>10. ASSUME Bare(0) PROVE Bare(1)'
  <2>1. PICK k \in Views : Views = {k} /\ Len(stat[tree[k]].names) <= 0 /\ Len(stat[tree[k]].ips) <= 0
    BY <1>10 DEF Bare
  <2>2. tree' = tree /\ Views' = {k} /\ tree[k] \in heap /\ stat[tree[k]] \in StatRec
    BY <1>1, <1>3, <1>5, <2>1 DEF SizeFacts
  <2>3. Len(stat'[tree[k]].names) <= 1 /\ Len(stat'[tree[k]].ips) <= 1
    <3>1. CASE tree[k] = vs
      <4>1. /\ Len(stat'[tree[k]].names) = m /\ Len(stat'[tree[k]].ips) = q
            /\ n <= 0 /\ p <= 0 /\ m <= n + 1 /\ q <= p + 1
            /\ n \in Nat /\ p \in Nat /\ m \in Nat /\ q \in Nat
        BY <1>8, <2>1, <3>1
      <4> HIDE DEF n, p, m, q, c
      <4> QED
        BY <4>1
    <3>2. CASE tree[k] # vs
      <4>1. stat'[tree[k]] = stat[tree[k]]
        BY <1>1, <2>2, <3>2
      <4>2. Len(stat[tree[k]].names) \in Nat /\ Len(stat[tree[k]].ips) \in Nat
        BY <2>2 DEF StatRec
      <4> QED
        BY <2>1, <4>1, <4>2
    <3> QED
      BY <3>1, <3>2
  <2> QED
    BY <2>2, <2>3 DEF Bare
<1> HIDE DEF n, p, m, q, c
<1>11. /\ view_tree_get_size = BaseCost + SumFunctionOnSet(Weight, Views)
      /\ view_tree_get_size' = BaseCost + SumFunctionOnSet(Weight', Views)
  BY <1>3 DEF view_tree_get_size, SizeOf
<1>12. /\ IsFiniteSet(Views)
       /\ \A k \in Views : Weight[k] \in Int /\ Weight'[k] \in Int
  BY <1>5 DEF SizeFacts, Views
<1>13. SumFunctionOnSet(Weight', Views) <= SumFunctionOnSet(Weight, Views) + 4
  <2>1. SumFunctionOnSet(Weight, Views) \in Int
    BY <1>12, SumType
  <2>2. CASE \A k \in Views : tree[k] # vs
    <3>1. SumFunctionOnSet(Weight, Views) = SumFunctionOnSet(Weight', Views)
      BY <1>7, <1>12, <2>2, SumSame
    <3> QED
      BY <2>1, <3>1
  <2>3. ASSUME NEW k \in Views, tree[k] = vs
        PROVE  SumFunctionOnSet(Weight', Views) <= SumFunctionOnSet(Weight, Views) + 4
    <3>1. \A j \in Views \ {k} : Weight[j] = Weight'[j]
      BY <1>7, <2>3 DEF TreeInv
    <3>2. SumFunctionOnSet(Weight', Views)
            = SumFunctionOnSet(Weight, Views) + (Weight'[k] - Weight[k])
      BY <1>12, <3>1, SumChange
    <3> QED
      BY <1>9, <1>12, <2>1, <2>3, <3>2
  <2> QED
    BY <2>2, <2>3
<1>14. /\ SumFunctionOnSet(Weight, Views) \in Int
       /\ SumFunctionOnSet(Weight', Views) \in Int
  BY <1>12, SumType
<1> QED
  BY <1>2, <1>11, <1>13, <1>14, <1>10, CostAssumption DEF Bound

\* Recycling with a right count ends with several views that fit, or with one
\* that was trimmed, if need be until nothing was left on its lists.
LEMMA SetMemsizeBound ==
  ASSUME TypeInv, TreeInv, NEW m \in 0 .. Len(lru), view_tree_set_memsize(m), residue = 0
  PROVE  view_tree_get_size' <= Bound \/ Bare(0)'
<1> DEFINE left == Views \ LastOnes(m)
           kept == heap \ {tree[k] : k \in LastOnes(m)}
<1>1. /\ LoopDrops(m) /\ view_tree_get_size > Limit
      /\ tree' = [k \in Key |-> IF k \in LastOnes(m) THEN NULL ELSE tree[k]]
      /\ cnt' = cnt - m /\ lru' = SubSeq(lru, 1, Len(lru) - m)
      /\ UNCHANGED residue
  BY DEF view_tree_set_memsize
<1>2. TypeInv' /\ TreeInv' /\ SizeFacts /\ SizeFacts'
  BY SetMemsizeKeeps, SizesAre, SizesNext
<1>3. /\ lru \in Seq(Key) /\ Len(lru) \in Nat /\ cnt = Len(lru) /\ cnt' = Len(lru')
      /\ lru' \in Seq(Key) /\ Len(lru') \in Nat
      /\ stat \in [heap -> StatRec] /\ tree \in [Key -> Stat \cup {NULL}]
  BY <1>1, <1>2 DEF TypeInv, TypeOK, TreeInv, StatRec
<1>4. Views # {}
  <2>1. Limit \in Nat /\ BaseCost \in Nat /\ BaseCost <= Limit
    BY CostAssumption
  <2> QED
    BY <1>1, <2>1, EmptySize
<1>5. Len(lru) > 0
  <2>1. ToSet(lru) # {}
    BY <1>4 DEF TreeInv
  <2>2. DOMAIN lru # {}
    BY <2>1 DEF ToSet
  <2> QED
    BY <1>3, <2>2
<1>6. Views' = left /\ \A k \in left : tree'[k] = tree[k] /\ k \in Key
  BY <1>1 DEF Views
<1>7. lru[1] \in left /\ lru[1] \in Views
  <2>1. lru[1] \in ToSet(lru)
    BY <1>3, <1>5 DEF ToSet
  <2> QED
    BY <1>5, <1>1, <2>1, HeadSurvives DEF TreeInv
<1>8. cnt - m >= 1
  <2>1. ToSet(lru') # {}
    BY <1>2, <1>6, <1>7 DEF TreeInv
  <2>2. DOMAIN lru' # {}
    BY <2>1 DEF ToSet
  <2> QED
    BY <1>1, <1>3, <2>2
<1>9. view_tree_get_size' = BaseCost + SumFunctionOnSet(Weight', left)
  BY <1>6 DEF view_tree_get_size, SizeOf
<1>10. CASE cnt - m = 1
  <2>1. PICK k \in left :
          \E i \in 0 .. Len(stat[tree[k]].names), j \in 0 .. Len(stat[tree[k]].ips) :
            /\ view_stats_set_memsize(stat[tree[k]], i, j)
            /\ stat' = [o \in kept |-> IF o = tree[k] THEN Trimmed(stat[tree[k]], i, j)
                                       ELSE stat[o]]
    BY <1>7, <1>10 DEF view_tree_set_memsize
  <2>2. left = {k}
    <3>1. left = ToSet(lru') /\ Len(lru') = 1
      BY <1>1, <1>2, <1>3, <1>6, <1>10 DEF TreeInv
    <3>2. left = {lru'[1]}
      BY <1>3, <3>1 DEF ToSet
    <3> QED
      BY <3>2
  <2>3. tree[k] \in heap /\ tree'[k] = tree[k] /\ k \in Views' /\ tree[k] \in DOMAIN stat'
    BY <1>2, <1>6, <2>1 DEF SizeFacts, heap
  <2>4. stat[tree[k]] \in StatRec /\ stat'[tree[k]] \in StatRec
    BY <1>2, <1>6, <2>3 DEF SizeFacts
  <2>5. /\ Weight'[k] = NodeCost + view_stats_get_size(stat'[tree[k]])
        /\ view_stats_get_size(stat'[tree[k]]) \in Nat
    BY <1>2, <2>3, <2>4, SizeType DEF SizeFacts
  <2>6. \/ view_stats_get_size(stat'[tree[k]]) <= Limit
        \/ Len(stat'[tree[k]].names) = 0 /\ Len(stat'[tree[k]].ips) = 0
    <3> DEFINE s == stat[tree[k]]
    <3>1. PICK i \in 0 .. Len(s.names), j \in 0 .. Len(s.ips) :
            /\ view_stats_set_memsize(s, i, j)
            /\ stat' = [o \in kept |-> IF o = tree[k] THEN Trimmed(s, i, j) ELSE stat[o]]
      BY <2>1
    <3>2. stat'[tree[k]] = Trimmed(s, i, j)
      BY <2>3, <3>1
    <3>3. s \in StatRec /\ Len(s.names) \in Nat /\ Len(s.ips) \in Nat
      BY <2>4 DEF StatRec
    <3> HIDE DEF s
    <3>4. \/ view_stats_get_size(Trimmed(s, i, j)) <= Limit
          \/ i = Len(s.names) /\ j = Len(s.ips)
      BY <3>1, <3>3, TrimFits
    <3>5. /\ Len(Trimmed(s, i, j).names) = Len(s.names) - i
          /\ Len(Trimmed(s, i, j).ips) = Len(s.ips) - j
      BY <3>1, <3>3, TrimType
    <3> QED
      BY <3>2, <3>3, <3>4, <3>5
  <2>7. Weight'[k] \in Int /\ k \in Key
    BY <1>2, <1>6 DEF SizeFacts
  <2>8. SumFunctionOnSet(Weight', left) = Weight'[k]
    <3>1. IsFiniteSet({k}) /\ IsFiniteSet({})
      BY FS_Singleton, FS_EmptySet
    <3>2. SumFunctionOnSet(Weight', {}) = 0
      BY <3>1, SumFirst
    <3>3. {k} \ {k} = {} /\ \A x \in {k} : Weight'[x] \in Int
      BY <2>7
    <3>4. SumFunctionOnSet(Weight', {k}) = Weight'[k] + SumFunctionOnSet(Weight', {k} \ {k})
      BY <3>1, <3>3, SumSplit
    <3>5. SumFunctionOnSet(Weight', {k}) = Weight'[k] + 0
      BY <3>2, <3>3, <3>4
    <3>6. SumFunctionOnSet(Weight', {k}) = Weight'[k]
      BY <2>7, <3>5
    <3> QED
      BY <2>2, <3>6
  <2>9. CASE view_stats_get_size(stat'[tree[k]]) <= Limit
    <3> DEFINE z == view_stats_get_size(stat'[tree[k]])
    <3>1. z \in Nat /\ z <= Limit /\ view_tree_get_size' = BaseCost + (NodeCost + z)
      BY <1>9, <2>5, <2>8, <2>9
    <3> HIDE DEF z
    <3> QED
      BY <3>1, CostAssumption DEF Bound
  <2>10. CASE Len(stat'[tree[k]].names) = 0 /\ Len(stat'[tree[k]].ips) = 0
    BY <1>6, <2>2, <2>3, <2>10 DEF Bare
  <2> QED
    BY <2>6, <2>9, <2>10
<1>11. CASE cnt - m # 1
  <2>1. stat' = [o \in kept |-> stat[o]]
    BY <1>11 DEF view_tree_set_memsize
  <2>2. \A k \in left : Weight'[k] = Weight[k]
    <3> SUFFICES ASSUME NEW k \in left PROVE Weight'[k] = Weight[k]
      OBVIOUS
    <3>1. tree[k] \in DOMAIN stat' /\ tree'[k] = tree[k]
      BY <1>2, <1>6 DEF SizeFacts, heap
    <3>2. stat'[tree[k]] = stat[tree[k]]
      BY <2>1, <3>1
    <3>3. /\ Weight[k] = NodeCost + view_stats_get_size(stat[tree[k]])
          /\ Weight'[k] = NodeCost + view_stats_get_size(stat'[tree[k]])
      BY <1>2, <1>6 DEF SizeFacts
    <3> QED
      BY <3>1, <3>2, <3>3 DEF view_stats_get_size
  <2>3. IsFiniteSet(left)
    BY <1>2, FS_Subset DEF SizeFacts
  <2>4. view_tree_get_size' = SizeOf(left)
    BY <1>9, <2>2, <2>3, SumSame DEF SizeOf
  <2>5. ~ MoreToDrop(m)
    BY <1>1 DEF LoopDrops
  <2>6. ~ (SizeOf(left) > Limit)
    BY <1>3, <1>8, <1>11, <2>5 DEF MoreToDrop
  <2>7. SizeOf(left) \in Int
    <3>1. SumFunctionOnSet(Weight, left) \in Int
      BY <1>2, <1>6, <2>3, SumType DEF SizeFacts
    <3> QED
      BY <3>1, CostAssumption DEF SizeOf
  <2> QED
    BY <2>4, <2>6, <2>7, CostAssumption DEF Bound
<1> QED
  BY <1>10, <1>11

\* Every other step leaves the views as they are, or is followed by recycling,
\* or leaves no view.
LEMMA BoundNext ==
  ASSUME LockInv, TypeInv, TreeInv, BoundInv, [Next]_vars PROVE BoundInv'
<1> USE DEF keeper, mainLocal, clientLocal, ghosts, mutex
<1>0. /\ main \in Thread /\ main # qps /\ main \notin Client /\ qps \notin Client
      /\ Client \subseteq Thread /\ pc \in [Thread -> PCs]
  BY ThreadAssumption DEF Thread, LockInv, PcInv
<1>1. Bound \in Int /\ Bound + 0 = Bound
  BY CostAssumption DEF Bound
<1>2. UNCHANGED <<tree, stat, residue>>
      /\ (pc'[main] = pc[main] \/ (pc[main] \notin {"recycle", "count"} /\ pc'[main] # "count"))
      => BoundInv'
  BY SameSize DEF BoundInv, Bare, Views
<1>3. CASE log_handle_found \/ log_handle_create
  BY <1>0, <1>3 DEF log_handle_found, log_handle_create, Go, BoundInv
<1>4. CASE log_handle_fits
  <2>1. view_tree_get_size' = view_tree_get_size /\ view_tree_get_size <= Limit
    BY <1>4, SameSize DEF log_handle_fits
  <2>2. pc'[main] = "count"
    BY <1>0, <1>4 DEF log_handle_fits, Go
  <2>3. view_tree_get_size \in Int
    <3>1. SizeFacts
      BY SizesAre
    <3>2. SumFunctionOnSet(Weight, Views) \in Int
      BY <3>1, SumType DEF SizeFacts, Views
    <3> QED
      BY <3>2, CostAssumption DEF view_tree_get_size, SizeOf
  <2>4. view_tree_get_size' <= Bound
    BY <2>1, <2>3, CostAssumption DEF Bound
  <2> QED
    BY <1>1, <2>2, <2>4 DEF BoundInv
<1>5. ASSUME NEW m \in 0 .. Len(lru), view_tree_set_memsize(m) PROVE BoundInv'
  <2>1. residue' = residue /\ pc'[main] = "count"
    BY <1>0, <1>5 DEF view_tree_set_memsize, Go
  <2>2. residue = 0 => view_tree_get_size' <= Bound \/ Bare(0)'
    BY <1>5, SetMemsizeBound
  <2> QED
    BY <1>1, <2>1, <2>2 DEF BoundInv
<1>6. CASE log_handle_count
  BY <1>6, CountBound
<1>7. ASSUME NEW c \in Client, socket_thread_flush(c) PROVE BoundInv'
  <2>1. TypeInv' /\ TreeInv'
    BY <1>7, FlushKeeps
  <2>2. Views' = {}
    BY <1>7 DEF socket_thread_flush, Views
  <2>3. (Views = {})' => (view_tree_get_size = BaseCost)'
    BY EmptySize, PTL
  <2>4. view_tree_get_size' = BaseCost
    BY <2>2, <2>3
  <2> QED
    BY <2>4, CostAssumption DEF BoundInv, Bound
<1>8. CASE house_keeper_create
  BY <1>0, <1>2, <1>8 DEF house_keeper_create, start_command_handler,
       start_qps_thread, mutex_init, Go
<1>9. ASSUME NEW t \in Thread, mutex_lock(t) PROVE BoundInv'
  <2>1. UNCHANGED <<tree, stat, residue>>
    BY <1>9 DEF mutex_lock
  <2>2. CASE t = main
    <3>1. pc[main] = "lock" /\ pc'[main] = "find"
      BY <1>0, <1>9, <2>2 DEF mutex_lock, Go, AfterLock
    <3> QED
      BY <1>2, <2>1, <3>1
  <2>3. CASE t # main
    <3>1. pc'[main] = pc[main]
      BY <1>0, <1>9, <2>3 DEF mutex_lock, Go
    <3> QED
      BY <1>2, <2>1, <3>1
  <2> QED
    BY <2>2, <2>3
<1>10. CASE log_handle_refused \/ log_handle_unlock \/ \E l \in Line : handle_string_log(l)
  BY <1>0, <1>2, <1>10 DEF log_handle_refused, log_handle_unlock, handle_string_log, Go
<1>11. CASE qps_thread
  <2>1. UNCHANGED <<tree, stat, residue>>
    BY <1>11 DEF qps_thread, qps_thread_walk, qps_thread_unlock, qps_thread_wake
  <2>2. pc'[main] = pc[main]
    BY <1>0, <1>11 DEF qps_thread, qps_thread_walk, qps_thread_unlock, qps_thread_wake, Go
  <2> QED
    BY <1>2, <2>1, <2>2
<1>12. ASSUME NEW c \in Client,
              (\E r \in Request : socket_thread_read(c, r)) \/ socket_thread_find(c)
              \/ socket_thread_query(c) \/ socket_thread_unlock(c)
       PROVE  BoundInv'
  <2>1. UNCHANGED <<tree, stat, residue>>
    BY <1>12 DEF socket_thread_read, socket_thread_find, socket_thread_query,
         socket_thread_unlock
  <2>2. pc'[main] = pc[main]
    BY <1>0, <1>12 DEF socket_thread_read, socket_thread_find, socket_thread_query,
         socket_thread_unlock, Go
  <2> QED
    BY <1>2, <2>1, <2>2
<1>13. CASE UNCHANGED others
  <2>1. UNCHANGED <<tree, stat, residue>> /\ pc' = pc
    BY <1>13 DEF others
  <2> QED
    BY <1>2, <2>1
<1> QED
  BY <1>3, <1>4, <1>5, <1>6, <1>7, <1>8, <1>9, <1>10, <1>11, <1>12, <1>13, Steps
     DEF Step, log_handle, socket_thread

\* With a right count the accounted size stays within mem_uplimit and the parts
\* that trimming does not count, or one view is left that only has entries
\* trimming cannot reach (MemoryBound), whatever the costs, the limit and the
\* names that overrun.
THEOREM MemoryTheorem == Spec => []MemoryBound
<1> DEFINE Inv == LockInv /\ TypeInv /\ TreeInv /\ BoundInv
<1>1. Init => Inv
  <2> SUFFICES ASSUME Init PROVE BoundInv
    BY LockInit, TreeInit
  <2>1. TypeInv /\ TreeInv
    BY TreeInit
  <2>2. Views = {}
    BY DEF Init, Views
  <2>3. view_tree_get_size = BaseCost
    BY <2>1, <2>2, EmptySize
  <2> QED
    BY <2>3, CostAssumption DEF BoundInv, Bound
<1>2. Inv /\ [Next]_vars => Inv'
  BY LockNext, TreeNext, BoundNext
<1>3. Inv => MemoryBound
  <2> SUFFICES ASSUME Inv, residue = 0, pc[main] # "recycle"
               PROVE  view_tree_get_size <= Bound + 4 \/ Bare(1)
    BY CostAssumption DEF MemoryBound, NothingToDrop, Bare, Bound
  <2>1. SizeFacts
    BY SizesAre
  <2>2. SumFunctionOnSet(Weight, Views) \in Int
    BY <2>1, SumType DEF SizeFacts, Views
  <2>3. view_tree_get_size \in Int
    BY <2>2, CostAssumption DEF view_tree_get_size, SizeOf
  <2>4. Bound \in Int
    BY CostAssumption DEF Bound
  <2>5. Bare(0) => Bare(1)
    <3>1. \A k \in Views : /\ Len(stat[tree[k]].names) \in Int
                           /\ Len(stat[tree[k]].ips) \in Int
      BY <2>1 DEF SizeFacts, StatRec
    <3> QED
      BY <3>1 DEF Bare
  <2>6. CASE pc[main] = "count"
    BY <2>3, <2>4, <2>5, <2>6 DEF BoundInv
  <2>7. CASE pc[main] # "count"
    BY <2>7 DEF BoundInv
  <2> QED
    BY <2>6, <2>7
<1> QED
  BY <1>1, <1>2, <1>3, PTL DEF Spec

-----------------------------------------------------------------------------
(* The totals.  What a line adds to its view it adds to its total in the   *)
(* same two calls of log_handle, unless the total's name is refused: then  *)
(* the names of its views are too long as well.                            *)

\* No view has a name that view_stats_create refuses.
NoLong == Views \cap LongKey = {}

CountUse == pc[main] = "count" => ThisKey \in Views /\ vs = tree[ThisKey]

Counted(t) == SumFunctionOnSet(Hits, ViewsOf(t) \cap Views)
Pending(t) == IF HalfCounted(t) THEN 1 ELSE 0
Covered(t) == Counted(t) <= Hits[t] + Pending(t)

CoverInv == /\ NoLong
            /\ ~raced /\ ~evicted => CountUse /\ \A t \in Totals : Covered(t)

\* A key of a total is no key of a view.
LEMMA TotalsAreKeys ==
  /\ Totals \subseteq Key
  /\ \A t \in Totals : ViewsOf(t) \subseteq Key
  /\ \A t, u \in Totals : u \notin ViewsOf(t)
BY KeyAssumption, ZoneAssumption DEF Totals, ViewsOf

\* What Hits is, and what is added up.
HitsFacts ==
  /\ \A k \in Key : Hits[k] \in Nat
  /\ \A k \in Views : Hits[k] = stat[tree[k]].hits /\ tree[k] \in heap
  /\ \A k \in Key \ Views : Hits[k] = 0
  /\ \A t \in Totals : IsFiniteSet(ViewsOf(t) \cap Views) /\ Counted(t) \in Int

\* The tree being what it is, that is so.
LEMMA HitsAre == TypeInv /\ TreeInv => HitsFacts
<1> SUFFICES ASSUME TypeInv, TreeInv PROVE HitsFacts
  OBVIOUS
<1>1. SizeFacts
  BY SizesAre
<1>2. \A k \in Views : k \in Key /\ tree[k] # NULL
  BY DEF Views
<1>3. \A k \in Views : Hits[k] = stat[tree[k]].hits /\ tree[k] \in heap
  BY <1>1, <1>2 DEF SizeFacts, Hits
<1>4. \A k \in Key \ Views : Hits[k] = 0
  BY DEF Hits, Views
<1>5. \A k \in Views : Hits[k] \in Nat
  BY <1>1, <1>3 DEF SizeFacts, StatRec
<1>6. \A k \in Key : Hits[k] \in Nat
  BY <1>4, <1>5
<1>7. ASSUME NEW t \in Totals
      PROVE  IsFiniteSet(ViewsOf(t) \cap Views) /\ Counted(t) \in Int
  <2>1. IsFiniteSet(ViewsOf(t) \cap Views)
    BY <1>1, FS_Subset DEF SizeFacts
  <2>2. \A k \in ViewsOf(t) \cap Views : Hits[k] \in Int
    BY <1>5
  <2> QED
    BY <2>1, <2>2, SumType DEF Counted
<1> QED
  BY <1>3, <1>4, <1>6, <1>7 DEF HitsFacts

\* The same after a step.
LEMMA HitsNext == TypeInv' /\ TreeInv' => HitsFacts'
BY HitsAre, PTL

\* A step that keeps the counters and the views, and completes no line.
LEMMA CoverSame ==
  ASSUME CoverInv, ~raced' => ~raced, ~evicted' => ~evicted,
         ~raced' /\ ~evicted' => Hits' = Hits /\ CountUse',
         Views' \subseteq Views, ~evicted' => Views' = Views,
         \A t \in Totals : HalfCounted(t) => HalfCounted(t)',
         HitsFacts
  PROVE  CoverInv'
<1>1. NoLong'
  BY DEF CoverInv, NoLong
<1>2. ASSUME ~raced', ~evicted', NEW t \in Totals PROVE Covered(t)'
  <2>1. Covered(t)
    BY <1>2 DEF CoverInv
  <2>2. Counted(t)' = Counted(t) /\ Hits' = Hits
    BY <1>2 DEF Counted
  <2>3. Pending(t) \in 0 .. 1 /\ Pending(t)' \in 0 .. 1 /\ Pending(t) <= Pending(t)'
    BY DEF Pending
  <2>4. Counted(t) \in Int
    BY DEF HitsFacts
  <2>5. t \in Key
    BY TotalsAreKeys
  <2>6. Hits[t] \in Int
    BY <2>5 DEF HitsFacts
  <2> QED
    BY <2>1, <2>2, <2>3, <2>4, <2>6 DEF Covered
<1>3. Totals' = Totals
  BY DEF Totals
<1> QED
  BY <1>1, <1>2, <1>3 DEF CoverInv

\* Steps that neither count nor change the tree.
LEMMA CoverSync ==
  ASSUME LockInv, TypeInv, TreeInv, CoverInv,
         \/ house_keeper_create \/ (\E t \in Thread : mutex_lock(t)) \/ qps_thread
         \/ UNCHANGED others
         \/ \E c \in Client : \/ \E r \in Request : socket_thread_read(c, r)
                              \/ socket_thread_find(c) \/ socket_thread_query(c)
                              \/ socket_thread_unlock(c)
  PROVE  CoverInv'
<1>0. /\ main \in Thread /\ main # qps /\ main \notin Client /\ qps \notin Client
      /\ Client \subseteq Thread /\ pc \in [Thread -> PCs]
  BY ThreadAssumption DEF Thread, LockInv, PcInv
<1>1. UNCHANGED <<tree, stat, line, phase, vs, evicted>>
  BY DEF house_keeper_create, start_command_handler, start_qps_thread, mutex_init,
         mutex_lock, qps_thread, qps_thread_walk, qps_thread_unlock,
         qps_thread_wake, socket_thread_read, socket_thread_find,
         socket_thread_query, socket_thread_unlock, keeper, mainLocal, ghosts, mutex, others
<1>2. ~raced' => ~raced
  BY DEF LockInv, Starting, house_keeper_create, start_command_handler,
         start_qps_thread, mutex_init, mutex_lock, qps_thread, qps_thread_walk,
         qps_thread_unlock, qps_thread_wake, socket_thread_read, socket_thread_find,
         socket_thread_query, socket_thread_unlock, ghosts, mutex, others
<1>3. \/ pc'[main] = pc[main]
      \/ pc[main] = "lock" /\ pc'[main] = "find"
      \/ pc[main] \notin {"lock", "find", "recycle", "count", "unlock"} /\ pc'[main] # "count"
  <2>1. CASE house_keeper_create
    BY <1>0, <2>1 DEF house_keeper_create, start_command_handler,
                      start_qps_thread, mutex_init, Go
  <2>2. ASSUME NEW t \in Thread, mutex_lock(t)
        PROVE  pc'[main] = pc[main] \/ (pc[main] = "lock" /\ pc'[main] = "find")
    BY <1>0, <2>2 DEF mutex_lock, AfterLock, Go
  <2>3. CASE qps_thread
    BY <1>0, <2>3 DEF qps_thread, qps_thread_walk, qps_thread_unlock, qps_thread_wake, Go
  <2>4. CASE UNCHANGED others
    BY <2>4 DEF others
  <2>5. ASSUME NEW c \in Client,
               \/ \E r \in Request : socket_thread_read(c, r)
               \/ socket_thread_find(c) \/ socket_thread_query(c)
               \/ socket_thread_unlock(c)
        PROVE  pc'[main] = pc[main]
    BY <1>0, <2>5 DEF socket_thread_read, socket_thread_find, socket_thread_query,
         socket_thread_unlock, Go
  <2> QED
    BY <2>1, <2>2, <2>3, <2>4, <2>5
<1>4. Hits' = Hits /\ Views' = Views /\ ThisKey' = ThisKey
  BY <1>1 DEF Hits, Views, ThisKey
<1>5. CountUse => CountUse'
  BY <1>1, <1>3, <1>4 DEF CountUse
<1>6. \A t \in Totals : HalfCounted(t) => HalfCounted(t)'
  BY <1>1, <1>3 DEF HalfCounted
<1>7. HitsFacts
  BY HitsAre
<1>8. ~raced' /\ ~evicted' => CountUse'
  BY <1>1, <1>2, <1>5 DEF CoverInv
<1> QED
  BY <1>1, <1>2, <1>4, <1>6, <1>7, <1>8, CoverSame

\* A flush leaves nothing to cover, and comes between the calls of log_handle.
LEMMA CoverFlush ==
  ASSUME LockInv, TypeInv, TreeInv, NEW c \in Client, socket_thread_flush(c)
  PROVE  CoverInv'
<1>0. /\ main \in Thread /\ main \notin Client /\ c \in Thread /\ c # main
      /\ pc \in [Thread -> PCs]
  BY ThreadAssumption DEF Thread, LockInv, PcInv
<1>1. /\ tree' = [k \in Key |-> NULL] /\ raced' = raced /\ Go(c, "unlock")
      /\ pc[c] = "exec"
  BY DEF socket_thread_flush
<1>2. TypeInv' /\ TreeInv' /\ HitsFacts'
  BY FlushKeeps, HitsNext
<1>3. Views' = {}
  BY <1>1 DEF Views
<1>4. ASSUME ~raced' PROVE CountUse'
  <2>1. pc[main] # "count"
    BY <1>0, <1>1, <1>4, OnlyOneInside DEF InSection
  <2>2. pc'[main] = pc[main]
    BY <1>0, <1>1 DEF Go
  <2> QED
    BY <2>1, <2>2 DEF CountUse
<1>5. ASSUME NEW t \in Totals PROVE Covered(t)'
  <2>1. Counted(t)' = 0
    <3>1. ViewsOf(t) \cap Views' = {}
      BY <1>3
    <3>2. Counted(t)' = SumFunctionOnSet(Hits', ViewsOf(t) \cap Views')
      BY DEF Counted, ViewsOf
    <3> QED
      BY <3>1, <3>2, SumFirst, FS_EmptySet
  <2>2. Hits'[t] \in Nat /\ Pending(t)' \in 0 .. 1
    BY <1>2, TotalsAreKeys DEF HitsFacts, Pending
  <2> QED
    BY <2>1, <2>2 DEF Covered
<1>6. Totals' = Totals
  BY DEF Totals
<1> QED
  BY <1>3, <1>4, <1>5, <1>6 DEF CoverInv, NoLong

\* The view of a total is found by its lines, and by no line of another total.
LEMMA LineOf ==
  ASSUME NEW l \in Line, NEW t \in Totals
  PROVE  /\ l.total \in Totals /\ l.view \in ViewsOf(l.total)
         /\ l.view \in ViewsOf(t) => t = l.total
BY ZoneAssumption DEF Totals, ViewsOf

\* log_handle before it counts.
LEMMA CoverHandle ==
  ASSUME LockInv, TypeInv, TreeInv, UseInv, CoverInv,
         log_handle_found \/ log_handle_refused \/ log_handle_fits
         \/ log_handle_unlock \/ (\E l \in Line : handle_string_log(l))
  PROVE  CoverInv'
<1>0. main \in Thread /\ pc \in [Thread -> PCs] /\ HitsFacts
  BY HitsAre DEF Thread, LockInv, PcInv
<1>1. UNCHANGED <<tree, stat, raced, evicted>>
  BY DEF log_handle_found, log_handle_refused, log_handle_fits, log_handle_unlock,
         handle_string_log, keeper, ghosts, mutex
<1>2. Hits' = Hits /\ Views' = Views
  BY <1>1 DEF Hits, Views
<1>3. CASE log_handle_found
  <2>1. pc[main] = "find" /\ pc'[main] = "recycle" /\ UNCHANGED <<line, phase>>
    BY <1>0, <1>3 DEF log_handle_found, Go
  <2>2. CountUse' /\ \A t \in Totals : HalfCounted(t) => HalfCounted(t)'
    BY <2>1 DEF CountUse, HalfCounted
  <2> QED
    BY <1>0, <1>1, <1>2, <2>2, CoverSame
<1>4. CASE log_handle_fits
  <2>1. /\ pc[main] = "recycle" /\ pc'[main] = "count"
        /\ UNCHANGED <<line, phase, vs>>
    BY <1>0, <1>4 DEF log_handle_fits, mainLocal, Go
  <2>2. ASSUME ~raced PROVE CountUse'
    BY <1>1, <1>2, <2>1, <2>2 DEF CountUse, UseInv, MainUse, ThisKey
  <2>3. \A t \in Totals : HalfCounted(t) => HalfCounted(t)'
    BY <2>1 DEF HalfCounted
  <2> QED
    BY <1>0, <1>1, <1>2, <2>2, <2>3, CoverSame
<1>5. CASE log_handle_unlock
  <2>1. /\ pc[main] = "unlock" /\ pc'[main] # "count" /\ phase' = 3 - phase
        /\ phase = 1 => line' = line /\ pc'[main] = "lock"
    BY <1>0, <1>5 DEF log_handle_unlock, Go
  <2>2. CountUse' /\ \A t \in Totals : HalfCounted(t) => HalfCounted(t)'
    BY <2>1 DEF CountUse, HalfCounted
  <2> QED
    BY <1>0, <1>1, <1>2, <2>2, CoverSame
<1>6. ASSUME NEW l \in Line, handle_string_log(l) PROVE CoverInv'
  <2>1. pc[main] = "idle" /\ pc'[main] = "lock"
    BY <1>0, <1>6 DEF handle_string_log, Go
  <2>2. CountUse' /\ \A t \in Totals : HalfCounted(t) => HalfCounted(t)'
    BY <2>1 DEF CountUse, HalfCounted
  <2> QED
    BY <1>0, <1>1, <1>2, <2>2, CoverSame
<1>7. CASE log_handle_refused
  <2>1. /\ pc[main] = "find" /\ pc'[main] = "unlock" /\ UNCHANGED <<line, phase>>
        /\ ThisKey \in LongKey
    BY <1>0, <1>7 DEF log_handle_refused, mainLocal, Go
  <2>2. CASE phase = 1
    <3>1. CountUse' /\ \A t \in Totals : HalfCounted(t) => HalfCounted(t)'
      BY <2>1, <2>2 DEF CountUse, HalfCounted
    <3> QED
      BY <1>0, <1>1, <1>2, <3>1, CoverSame
  <2>3. CASE phase # 1
    <3>1. line.total \in LongKey /\ line \in Line
      BY <2>1, <2>3, ThisKeyType DEF ThisKey
    <3>2. ViewsOf(line.total) \subseteq LongKey
      BY <3>1, KeyAssumption DEF ViewsOf
    <3>3. ViewsOf(line.total) \cap Views = {}
      BY <3>2 DEF CoverInv, NoLong
    <3>4. ASSUME ~raced, ~evicted, NEW t \in Totals PROVE Covered(t)'
      <4>1. Hits[t] \in Nat /\ Covered(t) /\ Counted(t)' = Counted(t)
        BY <1>0, <1>2, <3>4, TotalsAreKeys DEF HitsFacts, CoverInv, Counted
      <4>2. Pending(t)' \in 0 .. 1
        BY DEF Pending
      <4>3. CASE t = line.total
        <5>1. Counted(t) = 0
          BY <3>3, <4>3, SumFirst, FS_EmptySet DEF Counted
        <5> QED
          BY <1>2, <4>1, <4>2, <5>1 DEF Covered
      <4>4. CASE t # line.total
        <5>1. Pending(t) = 0
          BY <4>4 DEF Pending, HalfCounted
        <5>2. Counted(t) \in Int
          BY <1>0 DEF HitsFacts
        <5> QED
          BY <1>2, <4>1, <4>2, <5>1, <5>2 DEF Covered
      <4> QED
        BY <4>3, <4>4
    <3>5. CountUse' /\ NoLong' /\ Totals' = Totals
      BY <1>2, <2>1 DEF CountUse, CoverInv, NoLong, Totals
    <3> QED
      BY <1>1, <3>4, <3>5 DEF CoverInv
  <2> QED
    BY <2>2, <2>3
<1> QED
  BY <1>3, <1>4, <1>5, <1>6, <1>7

\* A view that is made has no hits.
LEMMA CoverCreate ==
  ASSUME LockInv, TypeInv, TreeInv, CoverInv, log_handle_create PROVE CoverInv'
<1>1. PICK o \in Stat \ heap :
        /\ stat' = [x \in heap \cup {o} |-> IF x = o THEN EmptyStat ELSE stat[x]]
        /\ tree' = [tree EXCEPT ![ThisKey] = o]
  BY DEF log_handle_create
<1>2. /\ Go(main, "recycle") /\ pc[main] = "find" /\ tree[ThisKey] = NULL
      /\ ThisKey \notin LongKey /\ UNCHANGED <<line, phase, raced, evicted>>
  BY DEF log_handle_create, ghosts, mutex
<1>3. /\ main \in Thread /\ pc \in [Thread -> PCs] /\ HitsFacts /\ HitsFacts'
      /\ ThisKey \in Key /\ tree \in [Key -> Stat \cup {NULL}]
  BY <1>2, CreateKeeps, HitsAre, HitsNext, ThisKeyType
     DEF Thread, LockInv, PcInv, TypeInv, TypeOK
<1>4. pc'[main] = "recycle"
  BY <1>2, <1>3 DEF Go
<1>5. Views' = Views \cup {ThisKey} /\ ThisKey \notin Views
  BY <1>1, <1>2, <1>3, NullAssumption DEF Views
<1>6. ASSUME NEW k \in Key PROVE Hits'[k] = Hits[k]
  <2>1. CASE k \in Views
    <3>1. tree'[k] = tree[k] /\ tree[k] \in heap /\ k \in Views'
      BY <1>1, <1>3, <1>5, <2>1 DEF HitsFacts
    <3>2. stat'[tree[k]] = stat[tree[k]]
      BY <1>1, <3>1
    <3> QED
      BY <1>3, <2>1, <3>1, <3>2 DEF HitsFacts
  <2>2. CASE k = ThisKey
    <3>1. tree'[k] = o /\ stat'[o].hits = 0
      BY <1>1, <1>3, <2>2 DEF EmptyStat
    <3> QED
      BY <1>3, <1>5, <2>2, <3>1 DEF HitsFacts
  <2>3. CASE k \notin Views /\ k # ThisKey
    BY <1>3, <1>5, <2>3 DEF HitsFacts
  <2> QED
    BY <2>1, <2>2, <2>3
<1>7. ASSUME NEW t \in Totals PROVE Counted(t)' = Counted(t)
  <2> DEFINE S == ViewsOf(t) \cap Views
             T == ViewsOf(t) \cap Views'
  <2>1. IsFiniteSet(S) /\ IsFiniteSet(T) /\ Counted(t) \in Int
    BY <1>3 DEF HitsFacts, ViewsOf, Totals
  <2>2. Counted(t) = SumFunctionOnSet(Hits, S) /\ Counted(t)' = SumFunctionOnSet(Hits', T)
    BY DEF Counted, ViewsOf
  <2>3. S \subseteq Key /\ T \subseteq Key
    BY TotalsAreKeys
  <2>4. SumFunctionOnSet(Hits', T) = SumFunctionOnSet(Hits, T)
    BY <1>6, <2>1, <2>3, SumSame
  <2>5. CASE ThisKey \in T
    <3>1. S = T \ {ThisKey}
      BY <1>5
    <3>2. \A k \in T : Hits[k] \in Int
      BY <1>3, <2>3 DEF HitsFacts
    <3>3. SumFunctionOnSet(Hits, T) = Hits[ThisKey] + SumFunctionOnSet(Hits, T \ {ThisKey})
      BY <2>1, <2>5, <3>2, SumSplit
    <3>4. Hits[ThisKey] = 0
      BY <1>3, <1>5 DEF HitsFacts
    <3> HIDE DEF S, T
    <3> QED
      BY <2>1, <2>2, <2>4, <3>1, <3>3, <3>4
  <2>6. CASE ThisKey \notin T
    <3>1. S = T
      BY <1>5, <2>6
    <3> QED
      BY <2>2, <2>4, <3>1
  <2> QED
    BY <2>5, <2>6
<1>8. \A t \in Totals : Covered(t) => Covered(t)'
  <2> SUFFICES ASSUME NEW t \in Totals, Covered(t) PROVE Covered(t)'
    OBVIOUS
  <2>1. Pending(t)' = Pending(t)
    BY <1>2, <1>4 DEF Pending, HalfCounted
  <2>2. Hits'[t] = Hits[t]
    BY <1>6, TotalsAreKeys
  <2> QED
    BY <1>7, <2>1, <2>2 DEF Covered
<1>9. NoLong' /\ CountUse' /\ Totals' = Totals
  BY <1>2, <1>4, <1>5 DEF NoLong, CountUse, CoverInv, Totals
<1> QED
  BY <1>2, <1>8, <1>9 DEF CoverInv

\* Recycling that drops no view changes no counter.
LEMMA CoverRecycle ==
  ASSUME LockInv, TypeInv, TreeInv, UseInv, CoverInv,
         NEW m \in 0 .. Len(lru), view_tree_set_memsize(m)
  PROVE  CoverInv'
<1> DEFINE gone == LastOnes(m)
           kept == heap \ {tree[k] : k \in gone}
<1>1. /\ tree' = [k \in Key |-> IF k \in gone THEN NULL ELSE tree[k]]
      /\ evicted' = (evicted \/ gone # {})
      /\ Go(main, "count") /\ pc[main] = "recycle"
      /\ UNCHANGED <<line, phase, vs, raced>>
  BY DEF view_tree_set_memsize, mainLocal
<1>2. /\ main \in Thread /\ pc \in [Thread -> PCs] /\ HitsFacts /\ HitsFacts'
      /\ tree \in [Key -> Stat \cup {NULL}] /\ evicted \in BOOLEAN
  BY SetMemsizeKeeps, HitsAre, HitsNext DEF Thread, LockInv, PcInv, TypeInv, TypeOK
<1>3. \A o \in kept : stat'[o].hits = stat[o].hits
  <2>1. \A o \in kept : stat'[o] \in {stat[o]} \cup Trimmings(stat[o])
    BY TrimsStat
  <2>2. \A o : \A r \in Trimmings(stat[o]) : r.hits = stat[o].hits
    BY DEF Trimmings, Trimmed
  <2> QED
    BY <2>1, <2>2
<1>4. pc'[main] = "count"
  BY <1>1, <1>2 DEF Go
<1>5. Views' \subseteq Views
  BY <1>1 DEF Views
<1>6. ASSUME ~evicted' PROVE gone = {} /\ tree' = tree /\ Views' = Views
  <2>1. gone = {}
    BY <1>1, <1>6
  <2>2. tree' = tree
    BY <1>1, <1>2, <2>1
  <2> QED
    BY <2>1, <2>2 DEF Views
<1>7. ASSUME ~evicted' PROVE Hits' = Hits
  <2>1. \A k \in Key : Hits'[k] = Hits[k]
    <3> SUFFICES ASSUME NEW k \in Key PROVE Hits'[k] = Hits[k]
      OBVIOUS
    <3>1. CASE k \in Views
      <4>1. tree[k] \in kept
        BY <1>2, <1>6, <1>7, <3>1 DEF HitsFacts
      <4>2. stat'[tree[k]].hits = stat[tree[k]].hits
        BY <1>3, <4>1
      <4> QED
        BY <1>2, <1>6, <1>7, <3>1, <4>2 DEF HitsFacts
    <3>2. CASE k \notin Views
      BY <1>2, <1>6, <1>7, <3>2 DEF HitsFacts
    <3> QED
      BY <3>1, <3>2
  <2>2. Hits = [k \in Key |-> Hits[k]] /\ Hits' = [k \in Key |-> Hits'[k]]
    BY DEF Hits
  <2> QED
    BY <2>1, <2>2
<1>8. ASSUME ~evicted', ~raced' PROVE CountUse'
  <2>1. ThisKey \in Views /\ vs = tree[ThisKey]
    BY <1>1, <1>8 DEF UseInv, MainUse
  <2>2. ThisKey' = ThisKey /\ vs' = vs
    BY <1>1 DEF ThisKey
  <2> QED
    BY <1>6, <1>8, <2>1, <2>2 DEF CountUse
<1>9. \A t \in Totals : HalfCounted(t) => HalfCounted(t)'
  BY <1>1, <1>4 DEF HalfCounted
<1>10. ~evicted' => ~evicted
  BY <1>1, <1>2
<1> HIDE DEF gone, kept
<1> QED
  BY <1>1, <1>2, <1>5, <1>6, <1>7, <1>8, <1>9, <1>10, CoverSame

\* Counting a line for its view leaves it to be counted for its total, which
\* the second call does.
LEMMA CoverCount ==
  ASSUME LockInv, TypeInv, TreeInv, CoverInv, log_handle_count PROVE CoverInv'
<1>1. /\ stat' = [o \in heap |->
                IF o = vs
                THEN [names |-> Inserted(stat[o].names, line.name),
                      ips |-> Inserted(stat[o].ips, line.ip),
                      lost |-> stat[o].lost,
                      hits |-> stat[o].hits + 1]
                ELSE stat[o]]
      /\ Go(main, "unlock") /\ pc[main] = "count"
      /\ UNCHANGED <<tree, line, phase, raced, evicted>>
  BY DEF log_handle_count, mainLocal, ghosts, mutex
<1>2. /\ main \in Thread /\ pc \in [Thread -> PCs] /\ HitsFacts /\ HitsFacts'
      /\ line \in Line /\ phase \in {1, 2} /\ line # NULL
  BY <1>1, CountKeeps, HitsAre, HitsNext, ThisKeyType, NullAssumption
     DEF Thread, LockInv, PcInv, TypeInv, TypeOK
<1>3. pc'[main] = "unlock" /\ Views' = Views
  BY <1>1, <1>2 DEF Go, Views
<1>4. NoLong' /\ CountUse' /\ Totals' = Totals
  BY <1>3 DEF NoLong, CountUse, CoverInv, Totals
<1>5. ASSUME ~raced, ~evicted, NEW t \in Totals PROVE Covered(t)'
  <2>1. ThisKey \in Views /\ vs = tree[ThisKey] /\ Covered(t)
    BY <1>1, <1>5 DEF CoverInv, CountUse
  <2>2. ASSUME NEW k \in Key
        PROVE  Hits'[k] = IF k = ThisKey THEN Hits[k] + 1 ELSE Hits[k]
    <3>1. CASE k \in Views
      <4>1. tree[k] \in heap /\ (tree[k] = vs <=> k = ThisKey)
        BY <1>2, <2>1, <3>1 DEF HitsFacts, TreeInv
      <4>2. stat'[tree[k]].hits
              = IF tree[k] = vs THEN stat[tree[k]].hits + 1 ELSE stat[tree[k]].hits
        BY <1>1, <4>1
      <4>3. Hits[k] = stat[tree[k]].hits /\ Hits'[k] = stat'[tree[k]].hits
        BY <1>1, <1>2, <1>3, <3>1 DEF HitsFacts
      <4> QED
        BY <4>1, <4>2, <4>3
    <3>2. CASE k \notin Views
      BY <1>2, <1>3, <2>1, <3>2 DEF HitsFacts
    <3> QED
      BY <3>1, <3>2
  <2> DEFINE S == ViewsOf(t) \cap Views
  <2>3. /\ IsFiniteSet(S) /\ S \subseteq Key /\ t \in Key /\ t \notin S
        /\ Counted(t) = SumFunctionOnSet(Hits, S)
        /\ Counted(t)' = SumFunctionOnSet(Hits', S)
    BY <1>2, <1>3, TotalsAreKeys DEF HitsFacts, Counted, ViewsOf
  <2>4. \A k \in S : Hits[k] \in Int /\ Hits'[k] \in Int
    BY <1>2, <2>3 DEF HitsFacts
  <2>5. Counted(t) \in Int /\ Hits[t] \in Int /\ Hits'[t] \in Int
    BY <1>2, <2>3 DEF HitsFacts
  <2> HIDE DEF S
  <2>6. CASE phase = 1
    <3>1. ThisKey = line.view /\ ThisKey # t
      BY <1>2, <2>6, ZoneAssumption DEF ThisKey, Totals
    <3>2. Hits'[t] = Hits[t]
      BY <2>2, <2>3, <3>1
    <3>3. Pending(t) = 0 /\ Pending(t)' = IF t = line.total THEN 1 ELSE 0
      BY <1>1, <1>2, <1>3, <2>6 DEF Pending, HalfCounted
    <3>4. CASE ThisKey \in S
      <4>1. t = line.total
        BY <1>2, <3>1, <3>4, LineOf DEF S
      <4>2. SumFunctionOnSet(Hits', S)
              = SumFunctionOnSet(Hits, S) + (Hits'[ThisKey] - Hits[ThisKey])
        <5>1. \A k \in S \ {ThisKey} : Hits[k] = Hits'[k]
          BY <2>2, <2>3
        <5> QED
          BY <2>3, <2>4, <3>4, <5>1, SumChange
      <4>3. Hits'[ThisKey] = Hits[ThisKey] + 1 /\ Hits[ThisKey] \in Int
        BY <2>2, <2>3, <2>4, <3>4
      <4>4. Counted(t)' = Counted(t) + 1
        BY <2>3, <2>5, <4>2, <4>3
      <4> QED
        BY <2>1, <2>5, <3>2, <3>3, <4>1, <4>4 DEF Covered
    <3>5. CASE ThisKey \notin S
      <4>1. \A k \in S : Hits[k] = Hits'[k]
        BY <2>2, <2>3, <3>5
      <4>2. Counted(t)' = Counted(t)
        BY <2>3, <4>1, SumSame
      <4> QED
        BY <2>1, <2>5, <3>2, <3>3, <4>2 DEF Covered
    <3> QED
      BY <3>4, <3>5
  <2>7. CASE phase = 2
    <3>1. ThisKey = line.total
      BY <2>7 DEF ThisKey
    <3>2. ThisKey \notin S
      BY <1>2, <3>1, TotalsAreKeys, LineOf DEF S
    <3>3. \A k \in S : Hits[k] = Hits'[k]
      BY <2>2, <2>3, <3>2
    <3>4. Counted(t)' = Counted(t)
      BY <2>3, <3>3, SumSame
    <3>5. Pending(t) = (IF t = line.total THEN 1 ELSE 0) /\ Pending(t)' = 0
      BY <1>1, <1>2, <1>3, <2>7 DEF Pending, HalfCounted
    <3>6. Hits'[t] = IF t = line.total THEN Hits[t] + 1 ELSE Hits[t]
      BY <2>2, <2>3, <3>1
    <3> QED
      BY <2>1, <2>5, <3>4, <3>5, <3>6 DEF Covered
  <2> QED
    BY <1>2, <2>6, <2>7
<1> QED
  BY <1>1, <1>4, <1>5 DEF CoverInv

\* Until recycling drops a view, the total of every zone covers its views, with
\* any number of lines, views and flushes in between (TotalsCover).
THEOREM TotalsTheorem == Spec => []TotalsCover
<1> DEFINE Inv == LockInv /\ TypeInv /\ TreeInv /\ UseInv /\ CoverInv
<1>1. Init => Inv
  <2> SUFFICES ASSUME Init PROVE UseInv /\ CoverInv
    BY LockInit, TreeInit
  <2>1. pc[main] = "start_command_handler" /\ \A c \in Client : pc[c] = "off"
    BY ThreadAssumption DEF Init, Thread
  <2>2. UseInv
    BY <2>1 DEF UseInv, MainUse, ClientUse
  <2>3. Views = {} /\ HitsFacts
    BY TreeInit, HitsAre DEF Init, Views
  <2>4. ASSUME NEW t \in Totals PROVE Covered(t)
    <3>1. ViewsOf(t) \cap Views = {}
      BY <2>3
    <3>2. Counted(t) = 0
      BY <3>1, SumFirst, FS_EmptySet DEF Counted
    <3>3. Hits[t] \in Nat /\ Pending(t) \in 0 .. 1
      BY <2>3, TotalsAreKeys DEF HitsFacts, Pending
    <3> QED
      BY <3>2, <3>3 DEF Covered
  <2> QED
    BY <2>1, <2>2, <2>3, <2>4 DEF CoverInv, NoLong, CountUse
<1>2. Inv /\ [Next]_vars => Inv'
  <2> SUFFICES ASSUME Inv, [Next]_vars PROVE Inv'
    OBVIOUS
  <2>1. LockInv' /\ TypeInv' /\ TreeInv'
    BY LockNext, TreeNext
  <2>2. UseInv'
    BY Steps, UseSync, UseMain, UseClient DEF Step
  <2>3. CoverInv'
    BY Steps, CoverSync, CoverFlush, CoverHandle, CoverCreate, CoverRecycle, CoverCount
       DEF Step, log_handle, socket_thread
  <2> QED
    BY <2>1, <2>2, <2>3
<1>3. Inv => TotalsCover
  BY DEF CoverInv, Covered, Counted, Pending, TotalsCover
<1> QED
  BY <1>1, <1>2, <1>3, PTL DEF Spec
=============================================================================
