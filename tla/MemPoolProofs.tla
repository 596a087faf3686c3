--------------------------- MODULE MemPoolProofs ---------------------------
(***************************************************************************)
(* Proofs about dig_mem_pool.c for every set of threads, every size of the *)
(* pool and whatever its users write into their elements: no element is    *)
(* given out twice and none is lost.  The inductive invariant adds to the  *)
(* properties what list_lock protects: one thread at a time is inside, and *)
(* what it read of the free list is still so.                              *)
(***************************************************************************)
EXTENDS MemPool, WellFoundedInduction, TLAPS

Inside(t) == pc[t] \in {"grow", "read", "pop", "got", "link", "push", "freed"}

\* One thread at most is between lock and unlock, and then the mutex is taken.
Mutex == /\ \A t \in Thread : Inside(t) => list_lock
         /\ \A t, u \in Thread : Inside(t) /\ Inside(u) => t = u

\* What the local variables of a call are.
Locals ==
  \A t \in Thread :
    /\ pc[t] = "pop" => mem[t] = free_list
    /\ pc[t] \in {"free", "link", "push"} => mem[t] \in Elem
    /\ pc[t] = "push" => next[mem[t]] = free_list

\* A pool that does not exist has nothing and nobody uses it.
Dead == ~live => /\ raw_mem_list = <<>> /\ elem_count = 0 /\ free_list = NULL
                 /\ \A t \in Thread : pc[t] = "idle" /\ held[t] = {}

\* The blocks hold the elements counted.
Blocks == Owned = 1 .. elem_count /\ elem_count <= MaxElem

\* Why a call that finds nothing may return NULL.
Reason(t) == free_list = NULL /\ (~grows \/ nomem[t] \/ elem_count = 0)
Reasons ==
  \A t \in Thread : /\ pc[t] = "read" /\ free_list = NULL => Reason(t)
                    /\ pc[t] \in {"pop", "got"} /\ mem[t] = NULL => Reason(t)

IInv == /\ TypeOK /\ Mutex /\ Locals /\ Dead /\ Blocks
        /\ Exclusive /\ FreeListExact

-----------------------------------------------------------------------------
(* Facts about lists.                                                      *)

\* A set of natural numbers that is not empty has a least member.
LEMMA Least ==
  ASSUME NEW T, T \subseteq Nat, T # {}
  PROVE  \E x \in T : \A y \in T : x <= y
<1> DEFINE R == {p \in Nat \X Nat : p[1] < p[2]}
<1>1. IsWellFoundedOn(R, Nat)
  BY NatLessThanWellFounded DEF OpToRel
<1>2. \A x, y \in Nat : y < x => <<y, x>> \in R
  OBVIOUS
<1>3. PICK x \in T : \A y \in T : ~(<<y, x>> \in R)
  <2> HIDE DEF R
  <2> QED
    BY <1>1, WFMin
<1>4. ASSUME NEW y \in T PROVE x <= y
  <2>1. ~(y < x)
    BY <1>2, <1>3
  <2> QED
    BY <2>1
<1> QED
  BY <1>4

\* mp->free_list = e->next takes the first element off the list.
LEMMA PopThreads ==
  ASSUME NEW f, NEW nx, NEW L, NULL \notin L, f \in L, Threads(f, nx, L)
  PROVE  Threads(nx[f], nx, L \ {f})
<1> DEFINE M == L \ {f}
<1>1. nx[f] \in M \cup {NULL}
  BY DEF Threads
<1>2. ASSUME NEW x \in M
      PROVE nx[x] \in M \cup {NULL} /\ (nx[x] = nx[f] => nx[f] = NULL)
  BY DEF Threads
<1>3. \A x, y \in M : nx[x] = nx[y] /\ nx[x] # NULL => x = y
  BY DEF Threads
<1>4. ASSUME NEW S \in SUBSET M,
             nx[f] # NULL => nx[f] \in S,
             \A x \in S : nx[x] # NULL => nx[x] \in S
      PROVE S = M
  <2> DEFINE U == S \cup {f}
  <2>1. U \in SUBSET L
    OBVIOUS
  <2>2. f \in U /\ \A x \in U : nx[x] # NULL => nx[x] \in U
    BY <1>4
  <2>3. U = L
    <3> HIDE DEF U
    <3> QED
      BY <2>1, <2>2 DEF Threads
  <2> QED
    BY <2>3
<1> HIDE DEF M
<1> QED
  BY <1>1, <1>2, <1>3, <1>4 DEF Threads, M

\* e->next = mp->free_list and mp->free_list = e put e in front.
LEMMA PushThreads ==
  ASSUME NEW f, NEW nx, NEW L, NULL \notin L, Threads(f, nx, L),
         NEW e, e \notin L, e # NULL, nx[e] = f
  PROVE  Threads(e, nx, L \cup {e})
<1> DEFINE M == L \cup {e}
<1>1. e \in M
  OBVIOUS
<1>2. ASSUME NEW x \in M
      PROVE nx[x] \in M \cup {NULL} /\ nx[x] # e
  BY DEF Threads
<1>3. ASSUME NEW x \in M, NEW y \in M, nx[x] = nx[y], nx[x] # NULL
      PROVE x = y
  BY <1>3 DEF Threads
<1>4. ASSUME NEW S \in SUBSET M, e \in S,
             \A x \in S : nx[x] # NULL => nx[x] \in S
      PROVE S = M
  <2> DEFINE U == S \ {e}
  <2>1. U \in SUBSET L
    OBVIOUS
  <2>2. f # NULL => f \in U
    BY <1>4 DEF Threads
  <2>3. \A x \in U : nx[x] # NULL => nx[x] \in U
    BY <1>4, <1>2
  <2>4. U = L
    <3> HIDE DEF U
    <3> QED
      BY <2>1, <2>2, <2>3 DEF Threads
  <2> QED
    BY <2>4, <1>4
<1> HIDE DEF M
<1>5. \A x \in M : nx[x] \in M \cup {NULL} /\ (nx[x] = e => e = NULL)
  BY <1>2
<1>6. \A x, y \in M : nx[x] = nx[y] /\ nx[x] # NULL => x = y
  BY <1>3
<1>7. \A S \in SUBSET M : /\ e # NULL => e \in S
                          /\ \A x \in S : nx[x] # NULL => nx[x] \in S
                          => S = M
  BY <1>4
<1> QED
  BY <1>1, <1>5, <1>6, <1>7 DEF Threads, M

\* Writing to elements that are not on the list does not disturb it.
LEMMA SameThreads ==
  ASSUME NEW f, NEW nx, NEW ny, NEW L, \A x \in L : ny[x] = nx[x],
         Threads(f, nx, L)
  PROVE  Threads(f, ny, L)
<1>1. \A S \in SUBSET L : /\ f # NULL => f \in S
                          /\ \A x \in S : ny[x] # NULL => ny[x] \in S
                          => S = L
  <2> SUFFICES ASSUME NEW S \in SUBSET L, f # NULL => f \in S,
                      \A x \in S : ny[x] # NULL => ny[x] \in S
               PROVE S = L
    OBVIOUS
  <2>1. \A x \in S : nx[x] # NULL => nx[x] \in S
    OBVIOUS
  <2> QED
    BY <2>1 DEF Threads
<1> QED
  BY <1>1 DEF Threads

\* A list without a first element is empty.
LEMMA EmptyList ==
  ASSUME NEW nx, NEW L, Threads(NULL, nx, L) PROVE L = {}
<1>1. {} \in SUBSET L /\ \A x \in {} : nx[x] # NULL => nx[x] \in {}
  OBVIOUS
<1> QED
  BY <1>1 DEF Threads

\* fill_free_list makes a list of the elements of a new block.
LEMMA FillThreads ==
  ASSUME NEW a \in Nat, NEW n \in Nat, n > 0, NEW nx,
         NULL \notin a + 1 .. a + n,
         nx[a + 1] = NULL,
         \A e \in a + 2 .. a + n : nx[e] = e - 1
  PROVE  Threads(a + n, nx, a + 1 .. a + n)
<1> DEFINE L == a + 1 .. a + n
<1>1. a + n \in L /\ a + n # NULL
  OBVIOUS
<1>2. ASSUME NEW x \in L PROVE nx[x] \in L \cup {NULL} /\ nx[x] # a + n
  <2>1. CASE x = a + 1
    BY <2>1, <1>1
  <2>2. CASE x \in a + 2 .. a + n
    BY <2>2
  <2> QED
    BY <2>1, <2>2
<1>3. ASSUME NEW x \in L, NEW y \in L, nx[x] = nx[y], nx[x] # NULL PROVE x = y
  <2>1. x \in a + 2 .. a + n /\ y \in a + 2 .. a + n
    BY <1>3
  <2> QED
    BY <2>1, <1>3
<1>4. ASSUME NEW S \in SUBSET L, a + n \in S,
             \A x \in S : nx[x] # NULL => nx[x] \in S
      PROVE S = L
  <2> DEFINE T == {k \in Nat : k < n /\ a + n - k \notin S}
  <2>1. SUFFICES ASSUME T # {} PROVE FALSE
    <3>1. ASSUME NEW x \in L PROVE x \in S
      <4>1. a + n - x \in Nat /\ a + n - x < n /\ a + n - (a + n - x) = x
        OBVIOUS
      <4>2. a + n - x \notin T
        BY <2>1
      <4> QED
        BY <4>1, <4>2
    <3> QED
      BY <3>1
  <2>2. PICK k \in T : \A y \in T : k <= y
    <3>1. T \subseteq Nat
      OBVIOUS
    <3> HIDE DEF T
    <3> QED
      BY <3>1, <2>1, Least
  <2>3. k # 0
    BY <1>4
  <2>4. k - 1 \in Nat /\ k - 1 < n /\ k - 1 \notin T
    BY <2>2, <2>3
  <2>5. a + n - (k - 1) \in S
    BY <2>4
  <2>6. a + n - (k - 1) \in a + 2 .. a + n
    BY <2>2, <2>3
  <2>7. nx[a + n - (k - 1)] = a + n - k /\ a + n - k \in L
    BY <2>6, <2>2
  <2>8. a + n - k \in S
    BY <2>5, <2>7, <1>4
  <2> QED
    BY <2>8, <2>2
<1> HIDE DEF L
<1>5. \A x \in L : nx[x] \in L \cup {NULL} /\ (nx[x] = a + n => a + n = NULL)
  BY <1>2
<1>6. \A x, y \in L : nx[x] = nx[y] /\ nx[x] # NULL => x = y
  BY <1>3
<1>7. \A S \in SUBSET L : /\ a + n # NULL => a + n \in S
                          /\ \A x \in S : nx[x] # NULL => nx[x] \in S
                          => S = L
  BY <1>4, <1>1
<1> QED
  BY <1>1, <1>5, <1>6, <1>7 DEF Threads, L

-----------------------------------------------------------------------------
(* Typing.                                                                 *)

\* A block that is cut up leaves the pool well typed.
LEMMA GrowTypes ==
  ASSUME TypeOK, NEW n \in Nat, grow_new_mem(n)
  PROVE  /\ free_list' \in Ptr /\ next' \in [Elem -> Ptr]
         /\ raw_mem_list' \in Seq(SUBSET Elem) /\ elem_count' \in Nat
         /\ elem_count' <= MaxElem
<1> USE PoolAssumption DEF TypeOK, Elem, Ptr
<1>1. elem_count' \in Nat /\ elem_count' <= MaxElem /\ elem_count' = elem_count + n
  BY DEF grow_new_mem
<1>2. free_list' \in Ptr
  BY DEF grow_new_mem
<1>3. ASSUME NEW e \in Elem PROVE next'[e] \in Ptr
  <2>1. e \in elem_count + 2 .. elem_count + n => e - 1 \in Elem
    OBVIOUS
  <2> QED
    BY <2>1 DEF grow_new_mem
<1>4. next' = [e \in Elem |-> next'[e]]
  BY DEF grow_new_mem
<1>5. elem_count + 1 .. elem_count + n \in SUBSET Elem
  BY DEF grow_new_mem
<1>6. raw_mem_list' \in Seq(SUBSET Elem)
  BY <1>5 DEF grow_new_mem
<1> QED
  BY <1>1, <1>2, <1>3, <1>4, <1>6

\* Every action keeps the variables in their types.
LEMMA Typing == ASSUME TypeOK, [Next]_vars PROVE TypeOK'
<1> USE PoolAssumption DEF TypeOK, Ptr, Go, pool
<1>1. ASSUME NEW n \in Size, NEW auto \in BOOLEAN, mem_pool_create(n, auto)
      PROVE TypeOK'
  <2>1. (IF n = 0 THEN Default ELSE n) \in Nat
    OBVIOUS
  <2>2. CASE grow_new_mem(IF n = 0 THEN Default ELSE n)
    BY <1>1, <2>1, <2>2, GrowTypes DEF mem_pool_create
  <2>3. CASE grow_new_mem_fails
    BY <1>1, <2>3 DEF mem_pool_create, grow_new_mem_fails
  <2> QED
    BY <1>1, <2>2, <2>3 DEF mem_pool_create
<1>2. CASE mem_pool_delete
  <2>1. <<>> \in Seq(SUBSET Elem)
    OBVIOUS
  <2> QED
    BY <1>2, <2>1 DEF mem_pool_delete
<1>3. ASSUME NEW t \in Thread, call(t) PROVE TypeOK'
  <2>1. CASE mem_pool_alloc(t)
    <3>1. nomem' \in [Thread -> BOOLEAN]
      BY <2>1, Zenon DEF mem_pool_alloc
    <3>2. pc' \in [Thread -> {"idle", "alloc", "grow", "read", "pop", "got",
                              "free", "link", "push", "freed"}]
      BY <2>1 DEF mem_pool_alloc
    <3> QED
      BY <2>1, <3>1, <3>2 DEF mem_pool_alloc
  <2>2. ASSUME NEW e \in Elem, mem_pool_free(t, e) PROVE TypeOK'
    BY <2>2 DEF mem_pool_free
  <2> QED
    BY <1>3, <2>1, <2>2 DEF call
<1>4. ASSUME NEW t \in Thread, lock(t) PROVE TypeOK'
  BY <1>4 DEF lock, mem_pool_alloc_lock, mem_pool_free_lock
<1>5. ASSUME NEW t \in Thread, mem_pool_alloc_grow(t) PROVE TypeOK'
  <2>1. elem_count * 2 \in Nat
    OBVIOUS
  <2>2. CASE grow_new_mem(elem_count * 2) /\ UNCHANGED nomem
    BY <1>5, <2>1, <2>2, GrowTypes DEF mem_pool_alloc_grow
  <2>3. CASE grow_new_mem_fails /\ nomem' = [nomem EXCEPT ![t] = TRUE]
    BY <1>5, <2>3 DEF mem_pool_alloc_grow, grow_new_mem_fails
  <2>4. CASE grow_new_mem_fails /\ UNCHANGED nomem
    BY <1>5, <2>4 DEF mem_pool_alloc_grow, grow_new_mem_fails
  <2> QED
    BY <1>5, <2>2, <2>3, <2>4 DEF mem_pool_alloc_grow
<1>6. ASSUME NEW t \in Thread, mem_pool_alloc_read(t) PROVE TypeOK'
  BY <1>6 DEF mem_pool_alloc_read
<1>7. ASSUME NEW t \in Thread, mem_pool_alloc_pop(t) PROVE TypeOK'
  BY <1>7 DEF mem_pool_alloc_pop
<1>8. ASSUME NEW t \in Thread, mem_pool_alloc_return(t) PROVE TypeOK'
  BY <1>8 DEF mem_pool_alloc_return
<1>9. ASSUME NEW t \in Thread, mem_pool_free_link(t) PROVE TypeOK'
  BY <1>9 DEF mem_pool_free_link
<1>10. ASSUME NEW t \in Thread, mem_pool_free_push(t) PROVE TypeOK'
  BY <1>10 DEF mem_pool_free_push
<1>11. ASSUME NEW t \in Thread, mem_pool_free_return(t) PROVE TypeOK'
  BY <1>11 DEF mem_pool_free_return
<1>12. ASSUME NEW t \in Thread, NEW e \in Elem, NEW junk \in Junk, write(t, e, junk)
       PROVE TypeOK'
  BY <1>12 DEF write
<1>13. CASE UNCHANGED vars
  BY <1>13 DEF vars
<1> QED
  BY <1>1, <1>2, <1>3, <1>4, <1>5, <1>6, <1>7, <1>8, <1>9, <1>10, <1>11,
     <1>12, <1>13 DEF Next, step

-----------------------------------------------------------------------------
(* The invariant, action by action.                                        *)

Control == Mutex /\ Locals /\ Dead
Data == Blocks /\ Exclusive /\ FreeListExact

\* The elements of the pool are none of them NULL.
LEMMA OwnedIsElem == ASSUME TypeOK PROVE Owned \subseteq Elem /\ NULL \notin Owned
  BY PoolAssumption DEF TypeOK, Owned

\* The elements that are out, one by one, before and after a step.
LEMMA InOut ==
  \A x : x \in Out <=> \/ \E u \in Thread : x \in held[u]
                       \/ \E u \in Carrying : x = mem[u]
  BY DEF Out
LEMMA InOutNext ==
  \A x : x \in Out' <=> \/ \E u \in Thread : x \in held'[u]
                        \/ \E u \in Carrying' : x = mem'[u]
  BY DEF Out

\* Steps that move no element and change no link.
LEMMA QuietKeeps ==
  ASSUME Data, Carrying' = Carrying, \A t \in Carrying : mem'[t] = mem[t],
         UNCHANGED <<held, next, free_list, raw_mem_list, elem_count>>
  PROVE  Data'
<1>1. Owned' = Owned
  BY DEF Owned
<1>2. {mem'[t] : t \in Carrying'} = {mem[t] : t \in Carrying}
  OBVIOUS
<1>3. Out' = Out
  BY <1>2 DEF Out
<1>4. Listed' = Listed
  BY <1>1, <1>3 DEF Listed
<1>5. FreeListExact'
  BY <1>4 DEF Data, FreeListExact
<1>6. Exclusive'
  BY <1>1, <1>3 DEF Data, Exclusive
<1> QED
  BY <1>1, <1>5, <1>6 DEF Data, Blocks

\* Calls that start, take the lock, read free_list, or are done with a free.
LEMMA QuietSteps ==
  ASSUME IInv, TypeOK', NEW t \in Thread,
         \/ mem_pool_alloc(t) \/ lock(t) \/ mem_pool_alloc_read(t)
         \/ mem_pool_free_return(t)
  PROVE  Control' /\ Data'
<1> USE DEF IInv, TypeOK, Go, pool, Inside
<1>1. /\ \A u \in Thread : u # t => pc'[u] = pc[u] /\ mem'[u] = mem[u]
      /\ UNCHANGED <<held, next, free_list, raw_mem_list, elem_count, live>>
  BY DEF mem_pool_alloc, lock, mem_pool_alloc_lock, mem_pool_free_lock,
         mem_pool_alloc_read, mem_pool_free_return
<1>2. /\ t \in Carrying' <=> t \in Carrying
      /\ t \in Carrying => mem'[t] = mem[t]
  BY DEF mem_pool_alloc, lock, mem_pool_alloc_lock, mem_pool_free_lock,
         mem_pool_alloc_read, mem_pool_free_return, Carrying
<1>3. Carrying' = Carrying /\ \A u \in Carrying : mem'[u] = mem[u]
  BY <1>1, <1>2 DEF Carrying
<1>4. Data'
  BY <1>1, <1>3, QuietKeeps DEF Data
<1>5. Mutex'
  BY <1>1 DEF Mutex, mem_pool_alloc, lock, mem_pool_alloc_lock,
         mem_pool_free_lock, mem_pool_alloc_read, mem_pool_free_return
<1>6. Locals'
  BY <1>1 DEF Locals, mem_pool_alloc, lock, mem_pool_alloc_lock,
         mem_pool_free_lock, mem_pool_alloc_read, mem_pool_free_return
<1>7. Dead'
  BY <1>1 DEF Dead, mem_pool_alloc, lock, mem_pool_alloc_lock,
         mem_pool_free_lock, mem_pool_alloc_read, mem_pool_free_return
<1> QED
  BY <1>4, <1>5, <1>6, <1>7 DEF Control

\* The first element leaves the free list.
LEMMA PopKeeps ==
  ASSUME IInv, TypeOK', NEW t \in Thread, mem_pool_alloc_pop(t)
  PROVE  Control' /\ Data'
<1> USE DEF IInv, TypeOK, Go, pool, Inside
<1>1. /\ \A u \in Thread : u # t => pc'[u] = pc[u]
      /\ pc[t] = "pop" /\ pc'[t] = "got"
      /\ UNCHANGED <<mem, held, next, raw_mem_list, elem_count, live, list_lock>>
      /\ mem[t] = free_list
  BY DEF mem_pool_alloc_pop, Locals
<1>2. Mutex'
  BY <1>1 DEF Mutex
<1>3. Locals'
  BY <1>1 DEF Locals, Mutex
<1>4. Dead'
  BY <1>1 DEF Dead
<1>5. CASE mem[t] = NULL
  <2>1. free_list' = free_list
    BY <1>5 DEF mem_pool_alloc_pop
  <2>2. Carrying' = Carrying
    BY <1>1, <1>5 DEF Carrying
  <2> QED
    BY <1>1, <1>2, <1>3, <1>4, <2>1, <2>2, QuietKeeps DEF Data, Control
<1>6. CASE mem[t] # NULL
  <2> DEFINE f == free_list
  <2>1. f \in Listed /\ free_list' = next[f] /\ f = mem[t] /\ t \notin Carrying
    BY <1>1, <1>6 DEF mem_pool_alloc_pop, FreeListExact, Threads, Carrying
  <2>2. Carrying' = Carrying \cup {t}
    BY <1>1, <1>6 DEF Carrying
  <2>3. Out' = Out \cup {f}
    <3>1. \A x : x \in Out' <=> x \in Out \/ x = f
      BY <1>1, <2>1, <2>2, InOut, InOutNext
    <3> QED
      BY <3>1
  <2>4. Owned' = Owned
    BY <1>1 DEF Owned
  <2>5. Listed' = Listed \ {f}
    BY <2>3, <2>4 DEF Listed
  <2>6. NULL \notin Listed
    BY OwnedIsElem DEF Listed
  <2>7. FreeListExact'
    BY <1>1, <2>1, <2>5, <2>6, PopThreads DEF FreeListExact
  <2>8. f \in Owned /\ f \notin Out
    BY <2>1 DEF Listed
  <2>9. Exclusive'
    <3>1. Out' \subseteq Owned'
      BY <2>3, <2>4, <2>8 DEF Exclusive
    <3>2. \A u, v \in Thread : u # v => held'[u] \cap held'[v] = {}
      BY <1>1 DEF Exclusive
    <3>3. \A u \in Carrying', v \in Thread : mem'[u] \notin held'[v]
      BY <1>1, <2>1, <2>2, <2>8 DEF Exclusive, Out
    <3>4. ASSUME NEW u \in Carrying', NEW v \in Carrying', mem'[u] = mem'[v]
          PROVE u = v
      <4>1. \A w \in Carrying : mem[w] # mem[t]
        BY <2>1, <2>8, InOut
      <4> QED
        BY <1>1, <2>2, <3>4, <4>1 DEF Exclusive
    <3> QED
      BY <3>1, <3>2, <3>3, <3>4 DEF Exclusive
  <2> QED
    BY <1>1, <1>2, <1>3, <1>4, <2>4, <2>7, <2>9 DEF Data, Control, Blocks
<1> QED
  BY <1>5, <1>6

\* The element a thread carries becomes its own, or the other way round.
LEMMA HandOverKeeps ==
  ASSUME IInv, TypeOK', NEW t \in Thread,
         mem_pool_alloc_return(t) \/ \E e \in Elem : mem_pool_free(t, e)
  PROVE  Control' /\ Data'
<1> USE DEF IInv, TypeOK, Go, pool, Inside
<1>1. /\ \A u \in Thread : u # t => /\ pc'[u] = pc[u] /\ mem'[u] = mem[u]
                                    /\ held'[u] = held[u]
      /\ UNCHANGED <<next, free_list, raw_mem_list, elem_count, live>>
  BY DEF mem_pool_alloc_return, mem_pool_free
<1>2. Mutex' /\ Locals' /\ Dead'
  <2>1. CASE mem_pool_alloc_return(t)
    BY <1>1, <2>1 DEF mem_pool_alloc_return, Mutex, Locals, Dead
  <2>2. ASSUME NEW e \in Elem, mem_pool_free(t, e) PROVE Mutex' /\ Locals' /\ Dead'
    BY <1>1, <2>2 DEF mem_pool_free, Mutex, Locals, Dead
  <2> QED
    BY <2>1, <2>2
<1>3. Owned' = Owned
  BY <1>1 DEF Owned
<1> DEFINE Mine == held[t] \cup {mem[u] : u \in Carrying \cap {t}}
<1>4. /\ held'[t] \cup {mem'[u] : u \in Carrying' \cap {t}} = Mine
      /\ Carrying' \ {t} = Carrying \ {t}
      /\ t \in Carrying' => mem'[t] \notin held'[t]
  <2>1. CASE mem_pool_alloc_return(t)
    <3>1. t \notin Carrying' /\ held'[t] = held[t] \cup ({mem[t]} \ {NULL})
      BY <2>1 DEF mem_pool_alloc_return, Carrying
    <3>2. t \in Carrying <=> mem[t] # NULL
      BY <2>1 DEF mem_pool_alloc_return, Carrying
    <3>3. Carrying' \ {t} = Carrying \ {t}
      BY <1>1 DEF Carrying
    <3> QED
      BY <3>1, <3>2, <3>3
  <2>2. ASSUME NEW e \in Elem, mem_pool_free(t, e)
        PROVE /\ held'[t] \cup {mem'[u] : u \in Carrying' \cap {t}} = Mine
              /\ Carrying' \ {t} = Carrying \ {t}
              /\ t \in Carrying' => mem'[t] \notin held'[t]
    <3>1. t \notin Carrying /\ held'[t] = held[t] \ {e} /\ e \in held[t] /\ mem'[t] = e
      BY <2>2 DEF mem_pool_free, Carrying
    <3>2. t \in Carrying'
      BY <2>2, PoolAssumption DEF mem_pool_free, Carrying
    <3>3. Carrying' \ {t} = Carrying \ {t}
      BY <1>1 DEF Carrying
    <3> QED
      BY <3>1, <3>2, <3>3
  <2> QED
    BY <2>1, <2>2
<1>5. Carrying \subseteq Thread /\ Carrying' \subseteq Thread
  BY DEF Carrying
<1>6. Out' = Out
  <2>1. \A x : x \in Mine <=> x \in held[t] \/ (t \in Carrying /\ x = mem[t])
    OBVIOUS
  <2>2. \A x : x \in Mine <=> x \in held'[t] \/ (t \in Carrying' /\ x = mem'[t])
    <3> HIDE DEF Mine
    <3>1. \A x : x \in {mem'[u] : u \in Carrying' \cap {t}}
                   <=> t \in Carrying' /\ x = mem'[t]
      OBVIOUS
    <3> QED
      BY <1>4, <3>1
  <2> HIDE DEF Mine
  <2>3. \A x : x \in Out <=> \/ x \in Mine
                             \/ \E u \in Thread \ {t} : x \in held[u]
                             \/ \E u \in Carrying \ {t} : x = mem[u]
    BY <1>5, <2>1, InOut
  <2>4. \A x : x \in Out' <=> \/ x \in Mine
                              \/ \E u \in Thread \ {t} : x \in held'[u]
                              \/ \E u \in Carrying' \ {t} : x = mem'[u]
    BY <1>5, <2>2, InOutNext
  <2>5. \A x : x \in Out' <=> x \in Out
    BY <1>1, <1>4, <1>5, <2>3, <2>4
  <2> QED
    BY <2>5
<1>7. \A u \in Thread : u # t =>
        /\ held'[t] \cap held'[u] = {}
        /\ u \in Carrying' => mem'[u] \notin held'[t]
        /\ t \in Carrying' => mem'[t] \notin held'[u]
        /\ t \in Carrying' /\ u \in Carrying' => mem'[t] # mem'[u]
  <2>1. ASSUME NEW u \in Thread, u # t
        PROVE Mine \cap held[u] = {} /\ (u \in Carrying => mem[u] \notin Mine)
    BY <2>1, <1>5 DEF Exclusive
  <2>2. held'[t] \subseteq Mine /\ (t \in Carrying' => mem'[t] \in Mine)
    BY <1>4
  <2> HIDE DEF Mine
  <2> QED
    BY <1>1, <1>4, <2>1, <2>2
<1>8. Exclusive'
  <2>1. Out' \subseteq Owned'
    BY <1>3, <1>6 DEF Exclusive
  <2>2. \A u, v \in Thread : u # v => held'[u] \cap held'[v] = {}
    BY <1>1, <1>7 DEF Exclusive
  <2>3. ASSUME NEW u \in Carrying', NEW v \in Thread PROVE mem'[u] \notin held'[v]
    <3>1. CASE u # t /\ v # t
      BY <1>1, <1>4, <1>5, <3>1 DEF Exclusive
    <3>2. CASE u = t /\ v = t
      BY <1>4, <3>2
    <3>3. CASE (u = t /\ v # t) \/ (u # t /\ v = t)
      BY <1>5, <1>7, <3>3
    <3> QED
      BY <3>1, <3>2, <3>3
  <2>4. ASSUME NEW u \in Carrying', NEW v \in Carrying', mem'[u] = mem'[v] PROVE u = v
    <3>1. CASE u # t /\ v # t
      BY <1>1, <1>4, <1>5, <2>4, <3>1 DEF Exclusive
    <3>2. CASE u = t \/ v = t
      BY <1>5, <1>7, <2>4, <3>2
    <3> QED
      BY <3>1, <3>2
  <2> QED
    BY <2>1, <2>2, <2>3, <2>4 DEF Exclusive
<1>9. FreeListExact'
  BY <1>1, <1>3, <1>6 DEF FreeListExact, Listed
<1> QED
  BY <1>1, <1>2, <1>3, <1>8, <1>9 DEF Control, Data, Blocks

\* Links of elements that are out are written: by their user, and by
\* mem_pool_free just before the element goes in front of the list.
LEMMA WriteKeeps ==
  ASSUME IInv, TypeOK', NEW t \in Thread,
         \/ \E e \in Elem, junk \in Junk : write(t, e, junk)
         \/ mem_pool_free_link(t)
  PROVE  Control' /\ Data'
<1> USE DEF IInv, TypeOK, Go, pool, Inside
<1>1. PICK e \in Out :
        /\ \A x \in Elem : x # e => next'[x] = next[x]
        /\ \A u \in Thread : pc[u] = "push" => mem[u] # e
        /\ pc[t] = "link" => mem[t] = e /\ next'[e] = free_list
  <2>1. CASE mem_pool_free_link(t)
    <3>1. mem[t] \in Out /\ mem[t] \in Elem
      BY <2>1, InOut, PoolAssumption DEF mem_pool_free_link, Locals, Carrying
    <3>2. \A u \in Thread : pc[u] # "push"
      BY <2>1 DEF Mutex, mem_pool_free_link
    <3> QED
      BY <2>1, <3>1, <3>2 DEF mem_pool_free_link
  <2>2. ASSUME NEW e \in Elem, NEW junk \in Junk, write(t, e, junk)
        PROVE /\ e \in Out
              /\ \A x \in Elem : x # e => next'[x] = next[x]
              /\ \A u \in Thread : pc[u] = "push" => mem[u] # e
              /\ pc[t] = "link" => mem[t] = e /\ next'[e] = free_list
    <3>1. e \in Out
      BY <2>2, InOut DEF write
    <3>2. \A u \in Thread : pc[u] = "push" => u \in Carrying
      BY PoolAssumption DEF Carrying, Locals
    <3> QED
      BY <2>2, <3>1, <3>2 DEF write, Exclusive
  <2> QED
    BY <2>1, <2>2
<1>2. /\ UNCHANGED <<mem, held, free_list, raw_mem_list, elem_count, live, list_lock>>
      /\ \A u \in Thread : u # t => pc'[u] = pc[u]
      /\ pc'[t] = pc[t] \/ (pc[t] = "link" /\ pc'[t] = "push")
  BY DEF write, mem_pool_free_link
<1>3. Carrying' = Carrying
  BY <1>2 DEF Carrying
<1>4. Owned' = Owned
  BY <1>2 DEF Owned
<1>5. Out' = Out
  BY <1>2, <1>3 DEF Out
<1>6. FreeListExact'
  <2>1. \A x \in Listed : next'[x] = next[x]
    BY <1>1, OwnedIsElem DEF Listed
  <2>2. Listed' = Listed
    BY <1>4, <1>5 DEF Listed
  <2> QED
    BY <1>2, <2>1, <2>2, SameThreads DEF FreeListExact
<1>7. Exclusive'
  BY <1>2, <1>3, <1>4, <1>5 DEF Exclusive
<1>8. Mutex'
  BY <1>2 DEF Mutex
<1>9. Locals'
  <2>1. ASSUME NEW u \in Thread
        PROVE /\ pc'[u] = "pop" => mem'[u] = free_list'
              /\ pc'[u] \in {"free", "link", "push"} => mem'[u] \in Elem
    BY <1>2 DEF Locals
  <2>2. ASSUME NEW u \in Thread, pc'[u] = "push"
        PROVE next'[mem'[u]] = free_list'
    BY <1>1, <1>2, <2>2 DEF Locals
  <2> QED
    BY <2>1, <2>2 DEF Locals
<1>10. Dead'
  BY <1>2 DEF Dead
<1> QED
  BY <1>2, <1>4, <1>6, <1>7, <1>8, <1>9, <1>10 DEF Control, Data, Blocks

\* An element given back becomes the first of the free list.
LEMMA PushKeeps ==
  ASSUME IInv, TypeOK', NEW t \in Thread, mem_pool_free_push(t)
  PROVE  Control' /\ Data'
<1> USE DEF IInv, TypeOK, Go, pool, Inside
<1> DEFINE e == mem[t]
<1>1. /\ \A u \in Thread : u # t => pc'[u] = pc[u]
      /\ pc[t] = "push" /\ pc'[t] = "freed"
      /\ UNCHANGED <<mem, held, next, raw_mem_list, elem_count, live, list_lock>>
      /\ free_list' = e /\ next[e] = free_list /\ e \in Elem /\ e # NULL
  BY PoolAssumption DEF mem_pool_free_push, Locals
<1>2. Mutex' /\ Locals' /\ Dead'
  BY <1>1 DEF Mutex, Locals, Dead
<1>3. t \in Carrying /\ Carrying' = Carrying \ {t}
  BY <1>1 DEF Carrying
<1>4. Owned' = Owned
  BY <1>1 DEF Owned
<1>5. Out' = Out \ {e}
  <2>1. ASSUME NEW x PROVE x \in Out' <=> x \in Out /\ x # e
    BY <1>1, <1>3, InOut, InOutNext DEF Exclusive
  <2> QED
    BY <2>1
<1>6. e \in Out /\ e \in Owned
  BY <1>3, InOut DEF Exclusive
<1>7. Listed' = Listed \cup {e} /\ e \notin Listed
  BY <1>4, <1>5, <1>6 DEF Listed
<1>8. NULL \notin Listed
  BY OwnedIsElem DEF Listed
<1>9. FreeListExact'
  <2> HIDE DEF e
  <2> QED
    BY <1>1, <1>7, <1>8, PushThreads DEF FreeListExact
<1>10. Exclusive'
  BY <1>1, <1>3, <1>4, <1>5 DEF Exclusive
<1> QED
  BY <1>1, <1>2, <1>4, <1>9, <1>10 DEF Control, Data, Blocks

\* A new block goes onto an empty free list.
LEMMA GrowData ==
  ASSUME IInv, NEW n \in Nat, grow_new_mem(n), free_list = NULL,
         held' = held, Carrying' = Carrying, \A u \in Carrying : mem'[u] = mem[u]
  PROVE  Data'
<1> USE DEF IInv, TypeOK
<1> DEFINE a == elem_count
           New == a + 1 .. a + n
<1>1. Owned' = Owned \cup New
  <2>1. DOMAIN raw_mem_list' = 1 .. Len(raw_mem_list) + 1
    BY DEF grow_new_mem
  <2>2. raw_mem_list'[1] = New
    BY DEF grow_new_mem
  <2>3. \A i \in DOMAIN raw_mem_list : raw_mem_list'[i + 1] = raw_mem_list[i]
    BY DEF grow_new_mem
  <2>4. DOMAIN raw_mem_list = 1 .. Len(raw_mem_list) /\ Len(raw_mem_list) \in Nat
    OBVIOUS
  <2>5. \A i \in DOMAIN raw_mem_list' : i # 1 => i - 1 \in DOMAIN raw_mem_list
    BY <2>1, <2>4
  <2>6. \A x : x \in Owned' <=> \E i \in DOMAIN raw_mem_list' : x \in raw_mem_list'[i]
    BY DEF Owned
  <2>7. \A x : x \in Owned <=> \E i \in DOMAIN raw_mem_list : x \in raw_mem_list[i]
    BY DEF Owned
  <2> HIDE DEF New
  <2>8. ASSUME NEW x \in Owned' PROVE x \in Owned \cup New
    <3>1. PICK i \in DOMAIN raw_mem_list' : x \in raw_mem_list'[i]
      BY <2>6
    <3>2. CASE i = 1
      BY <2>2, <3>1, <3>2
    <3>3. CASE i # 1
      <4>1. i - 1 \in DOMAIN raw_mem_list /\ (i - 1) + 1 = i
        BY <2>1, <2>5, <3>3
      <4> QED
        BY <2>3, <2>7, <3>1, <4>1
    <3> QED
      BY <3>2, <3>3
  <2>9. ASSUME NEW x \in Owned PROVE x \in Owned'
    <3>1. PICK i \in DOMAIN raw_mem_list : x \in raw_mem_list[i]
      BY <2>7
    <3>2. i + 1 \in DOMAIN raw_mem_list'
      BY <2>1, <2>4
    <3> QED
      BY <2>3, <2>6, <3>1, <3>2
  <2>10. ASSUME NEW x \in New PROVE x \in Owned'
    <3>1. 1 \in DOMAIN raw_mem_list'
      BY <2>1, <2>4
    <3> QED
      BY <2>2, <2>6, <3>1
  <2> QED
    BY <2>8, <2>9, <2>10
<1>2. Out' = Out
  <2>1. {mem'[u] : u \in Carrying'} = {mem[u] : u \in Carrying}
    OBVIOUS
  <2> QED
    BY <2>1 DEF Out
<1>3. Listed = {}
  BY EmptyList DEF FreeListExact
<1>4. Owned \cap New = {}
  BY DEF Blocks
<1>5. Listed' = New
  <2> HIDE DEF New
  <2> QED
    BY <1>1, <1>2, <1>3, <1>4 DEF Listed, Exclusive
<1>6. elem_count' = a + n /\ a + n <= MaxElem /\ New \subseteq Elem
  BY PoolAssumption DEF grow_new_mem, Elem
<1>7. Blocks'
  BY <1>1, <1>6 DEF Blocks
<1>8. Exclusive'
  <2> HIDE DEF New
  <2> QED
    BY <1>1, <1>2 DEF Exclusive
<1>9. FreeListExact'
  <2>1. CASE n = 0
    <3>1. New = {} /\ free_list' = NULL
      BY <2>1 DEF grow_new_mem
    <3>2. Threads(NULL, next', {})
      BY DEF Threads
    <3> QED
      BY <1>5, <3>1, <3>2 DEF FreeListExact
  <2>2. CASE n # 0
    <3>1. n > 0
      BY <2>2
    <3>2. free_list' = a + n
      BY <2>2 DEF grow_new_mem
    <3>3. a + 1 \in New /\ a + 1 \notin a + 2 .. a + n
      BY <3>1
    <3>4. next'[a + 1] = NULL
      BY <1>6, <3>1, <3>3 DEF grow_new_mem
    <3>5. \A x \in a + 2 .. a + n : next'[x] = x - 1
      BY <1>6 DEF grow_new_mem
    <3>6. NULL \notin New
      BY <1>6, PoolAssumption
    <3>7. a \in Nat
      OBVIOUS
    <3>8. Threads(a + n, next', New)
      <4> HIDE DEF a
      <4> QED
        BY <3>1, <3>4, <3>5, <3>6, <3>7, FillThreads
    <3> QED
      BY <1>5, <3>2, <3>8 DEF FreeListExact
  <2> QED
    BY <2>1, <2>2
<1> QED
  BY <1>7, <1>8, <1>9 DEF Data

\* mem_pool_alloc with an empty free list, or without need to grow.
LEMMA GrowKeeps ==
  ASSUME IInv, TypeOK', NEW t \in Thread, mem_pool_alloc_grow(t)
  PROVE  Control' /\ Data'
<1> USE DEF IInv, TypeOK, Go, pool, Inside
<1>1. /\ \A u \in Thread : u # t => pc'[u] = pc[u]
      /\ pc[t] = "grow" /\ pc'[t] = "read"
      /\ UNCHANGED <<mem, held, live, list_lock>>
  BY DEF mem_pool_alloc_grow
<1>2. Carrying' = Carrying /\ \A u \in Carrying : mem'[u] = mem[u]
  BY <1>1 DEF Carrying
<1>3. Mutex' /\ Dead'
  BY <1>1 DEF Mutex, Dead
<1>4. Locals'
  BY <1>1 DEF Locals, Mutex
<1>5. Data'
  <2>1. CASE grow_new_mem(elem_count * 2) /\ free_list = NULL
    <3>1. elem_count * 2 \in Nat
      OBVIOUS
    <3> QED
      BY <1>1, <1>2, <2>1, <3>1, GrowData
  <2>2. CASE grow_new_mem_fails
    BY <1>1, <1>2, <2>2, QuietKeeps DEF grow_new_mem_fails, Data
  <2> QED
    BY <2>1, <2>2 DEF mem_pool_alloc_grow
<1> QED
  BY <1>3, <1>4, <1>5 DEF Control

\* A pool is made, with or without a first block, or deleted.
LEMMA LifeKeeps ==
  ASSUME IInv, TypeOK',
         \/ \E n \in Size, auto \in BOOLEAN : mem_pool_create(n, auto)
         \/ mem_pool_delete
  PROVE  Control' /\ Data'
<1> USE DEF IInv, TypeOK, pool, Inside
<1>1. UNCHANGED <<pc, mem>> /\ \A t \in Thread : pc[t] = "idle"
  BY DEF mem_pool_create, mem_pool_delete, Dead
<1>2. Carrying = {} /\ Carrying' = {}
  BY <1>1 DEF Carrying
<1>3. Mutex' /\ Locals'
  BY <1>1 DEF Mutex, Locals
<1>4. CASE mem_pool_delete
  <2>1. Owned' = {} /\ Out' = {}
    BY <1>2, <1>4 DEF mem_pool_delete, Owned, Out
  <2>2. Threads(NULL, next', {})
    BY DEF Threads
  <2>3. FreeListExact'
    BY <1>4, <2>1, <2>2 DEF mem_pool_delete, FreeListExact, Listed
  <2>4. Exclusive'
    BY <1>2, <1>4, <2>1 DEF mem_pool_delete, Exclusive
  <2>5. Blocks'
    BY <1>4, <2>1, PoolAssumption DEF mem_pool_delete, Blocks
  <2>6. Dead'
    BY <1>1, <1>4 DEF mem_pool_delete, Dead
  <2> QED
    BY <1>3, <2>3, <2>4, <2>5, <2>6 DEF Control, Data
<1>5. ASSUME NEW n \in Size, NEW auto \in BOOLEAN, mem_pool_create(n, auto)
      PROVE Control' /\ Data'
  <2>1. live' /\ free_list = NULL /\ held' = held
    BY <1>5 DEF mem_pool_create, Dead
  <2>2. Dead'
    BY <2>1 DEF Dead
  <2> DEFINE size == IF n = 0 THEN Default ELSE n
  <2>3. size \in Nat
    BY PoolAssumption
  <2>4. CASE grow_new_mem(size)
    <3> HIDE DEF size
    <3> QED
      BY <1>2, <1>3, <2>1, <2>2, <2>3, <2>4, GrowData DEF Control
  <2>5. CASE grow_new_mem_fails
    <3>1. Data'
      BY <1>2, <2>1, <2>5, QuietKeeps DEF grow_new_mem_fails, Data
    <3> QED
      BY <1>3, <2>2, <3>1 DEF Control
  <2> QED
    BY <1>5, <2>4, <2>5 DEF mem_pool_create
<1> QED
  BY <1>4, <1>5

-----------------------------------------------------------------------------
(* The theorems.                                                           *)

\* The invariant holds in the initial state.
LEMMA InitIInv == Init => IInv
<1> SUFFICES ASSUME Init PROVE IInv
  OBVIOUS
<1> USE DEF Init
<1>1. TypeOK
  <2>1. free_list \in Ptr /\ raw_mem_list \in Seq(SUBSET Elem) /\ elem_count \in Nat
    BY DEF Ptr
  <2>2. next \in [Elem -> Ptr] /\ mem \in [Thread -> Ptr]
    BY DEF Ptr
  <2>3. /\ held \in [Thread -> SUBSET Elem]
        /\ pc \in [Thread -> {"idle", "alloc", "grow", "read", "pop", "got",
                              "free", "link", "push", "freed"}]
    OBVIOUS
  <2>4. nomem \in [Thread -> BOOLEAN]
    BY Zenon
  <2> QED
    BY <2>1, <2>2, <2>3, <2>4, Zenon DEF TypeOK
<1>2. Carrying = {} /\ Owned = {}
  BY DEF Carrying, Owned
<1>3. Out = {}
  BY <1>2 DEF Out
<1>4. Threads(NULL, next, {})
  BY DEF Threads
<1>5. FreeListExact
  BY <1>2, <1>4 DEF FreeListExact, Listed
<1>6. Exclusive
  BY <1>2, <1>3 DEF Exclusive
<1>7. Mutex /\ Locals /\ Dead
  BY DEF Mutex, Locals, Dead, Inside
<1>8. Blocks
  BY <1>2, PoolAssumption DEF Blocks
<1> QED
  BY <1>1, <1>5, <1>6, <1>7, <1>8 DEF IInv

\* Every step of every thread keeps it.
LEMMA StepIInv == ASSUME IInv, [Next]_vars PROVE IInv'
<1>1. TypeOK'
  BY Typing DEF IInv
<1>2. Control' /\ Data'
  <2>1. ASSUME NEW n \in Size, NEW auto \in BOOLEAN, mem_pool_create(n, auto)
        PROVE Control' /\ Data'
    BY <1>1, <2>1, LifeKeeps
  <2>2. CASE mem_pool_delete
    BY <1>1, <2>2, LifeKeeps
  <2>3. ASSUME NEW t \in Thread, call(t) PROVE Control' /\ Data'
    BY <1>1, <2>3, QuietSteps, HandOverKeeps DEF call
  <2>4. ASSUME NEW t \in Thread, lock(t) PROVE Control' /\ Data'
    BY <1>1, <2>4, QuietSteps
  <2>5. ASSUME NEW t \in Thread, step(t) PROVE Control' /\ Data'
    BY <1>1, <2>5, GrowKeeps, QuietSteps, PopKeeps, HandOverKeeps, WriteKeeps,
       PushKeeps DEF step
  <2>6. ASSUME NEW t \in Thread, NEW e \in Elem, NEW junk \in Junk, write(t, e, junk)
        PROVE Control' /\ Data'
    BY <1>1, <2>6, WriteKeeps
  <2>7. CASE UNCHANGED vars
    <3>1. Carrying' = Carrying
      BY <2>7 DEF vars, pool, Carrying
    <3>2. Data'
      BY <2>7, <3>1, QuietKeeps DEF vars, pool, IInv, Data
    <3>3. Control'
      BY <2>7 DEF vars, pool, IInv, Control, Mutex, Locals, Dead, Inside
    <3> QED
      BY <3>2, <3>3
  <2> QED
    BY <2>1, <2>2, <2>3, <2>4, <2>5, <2>6, <2>7 DEF Next
<1> QED
  BY <1>1, <1>2 DEF IInv, Control, Data

\* The inductive invariant: one thread at a time works on the list, the blocks
\* hold the elements counted, and every element is in one place.
THEOREM PoolInvariant == Spec => []IInv
  BY InitIInv, StepIInv, PTL DEF Spec

\* The variables keep their types.
THEOREM TypeCorrect == Spec => []TypeOK
<1>1. IInv => TypeOK
  BY DEF IInv
<1> QED
  BY <1>1, PoolInvariant, PTL

\* mem_pool_alloc never gives an element to two users.
THEOREM NoSharing == Spec => []Exclusive
<1>1. IInv => Exclusive
  BY DEF IInv
<1> QED
  BY <1>1, PoolInvariant, PTL

\* The free list holds exactly the elements that are not in use.
THEOREM NothingLost == Spec => []FreeListExact
<1>1. IInv => FreeListExact
  BY DEF IInv
<1> QED
  BY <1>1, PoolInvariant, PTL

\* Every step keeps the reasons for returning NULL.
LEMMA StepReasons == ASSUME IInv, Reasons, [Next]_vars PROVE Reasons'
<1> USE DEF Reasons, Reason, IInv, TypeOK, Go, pool
<1>1. ASSUME NEW n \in Size, NEW auto \in BOOLEAN, mem_pool_create(n, auto)
      PROVE Reasons'
  BY <1>1 DEF mem_pool_create, Dead
<1>2. CASE mem_pool_delete
  BY <1>2 DEF mem_pool_delete
<1>3. ASSUME NEW t \in Thread, call(t) PROVE Reasons'
  BY <1>3 DEF call, mem_pool_alloc, mem_pool_free
<1>4. ASSUME NEW t \in Thread, lock(t) PROVE Reasons'
  BY <1>4 DEF lock, mem_pool_alloc_lock, mem_pool_free_lock
<1>5. ASSUME NEW t \in Thread, mem_pool_alloc_grow(t) PROVE Reasons'
  <2>1. /\ \A u \in Thread : u # t => /\ pc'[u] = pc[u]
                                      /\ pc[u] \notin {"read", "pop", "got"}
        /\ pc'[t] = "read" /\ UNCHANGED <<mem, grows>>
    BY <1>5 DEF mem_pool_alloc_grow, Mutex, Inside
  <2>2. free_list' = NULL => Reason(t)'
    <3>1. CASE ~(free_list = NULL /\ grows)
      BY <1>5, <3>1 DEF mem_pool_alloc_grow, grow_new_mem_fails
    <3>2. CASE grow_new_mem_fails /\ nomem' = [nomem EXCEPT ![t] = TRUE]
      BY <3>2
    <3>3. CASE grow_new_mem(elem_count * 2) /\ elem_count = 0
      BY <3>3 DEF grow_new_mem
    <3>4. CASE grow_new_mem(elem_count * 2) /\ elem_count # 0
      <4>1. free_list' = elem_count + elem_count * 2 /\ elem_count + elem_count * 2 \in Elem
        BY <3>4, PoolAssumption DEF grow_new_mem, Elem
      <4> QED
        BY <4>1, PoolAssumption
    <3> QED
      BY <1>5, <3>1, <3>2, <3>3, <3>4 DEF mem_pool_alloc_grow
  <2> QED
    BY <2>1, <2>2
<1>6. ASSUME NEW t \in Thread, mem_pool_alloc_read(t) PROVE Reasons'
  BY <1>6 DEF mem_pool_alloc_read
<1>7. ASSUME NEW t \in Thread, mem_pool_alloc_pop(t) PROVE Reasons'
  BY <1>7 DEF mem_pool_alloc_pop, Mutex, Inside
<1>8. ASSUME NEW t \in Thread, mem_pool_alloc_return(t) PROVE Reasons'
  BY <1>8 DEF mem_pool_alloc_return
<1>9. ASSUME NEW t \in Thread, mem_pool_free_link(t) PROVE Reasons'
  BY <1>9 DEF mem_pool_free_link
<1>10. ASSUME NEW t \in Thread, mem_pool_free_push(t) PROVE Reasons'
  BY <1>10 DEF mem_pool_free_push, Mutex, Inside
<1>11. ASSUME NEW t \in Thread, mem_pool_free_return(t) PROVE Reasons'
  BY <1>11 DEF mem_pool_free_return
<1>12. ASSUME NEW t \in Thread, NEW e \in Elem, NEW junk \in Junk, write(t, e, junk)
       PROVE Reasons'
  BY <1>12 DEF write
<1>13. CASE UNCHANGED vars
  BY <1>13 DEF vars
<1> QED
  BY <1>1, <1>2, <1>3, <1>4, <1>5, <1>6, <1>7, <1>8, <1>9, <1>10, <1>11,
     <1>12, <1>13 DEF Next, step

\* mem_pool_alloc returns NULL only for one of three reasons.
THEOREM NullTheorem == Spec => []NullJustified
<1>1. Init => Reasons
  BY DEF Init, Reasons
<1>2. IInv /\ Reasons /\ [Next]_vars => Reasons'
  BY StepReasons
<1>3. Reasons => NullJustified
  BY DEF Reasons, Reason, NullJustified
<1> QED
  BY <1>1, <1>2, <1>3, PoolInvariant, PTL DEF Spec
=============================================================================
