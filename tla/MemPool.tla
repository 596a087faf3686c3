------------------------------ MODULE MemPool ------------------------------
(***************************************************************************)
(* dig_mem_pool.c: elements of one size cut from malloc'd blocks, kept on  *)
(* a free list while nobody uses them, shared by threads under list_lock.  *)
(* The link of the free list lies in the first bytes of an element, where  *)
(* its user writes data: next of an element in use is whatever was written *)
(* there.                                                                  *)
(*                                                                         *)
(* Elements are numbered in the order the blocks were malloc'd.  A thread  *)
(* gives back only what it was given, and a pool is deleted when no call   *)
(* on it is under way, as name_tree_destroy does it.                       *)
(***************************************************************************)
EXTENDS Integers, Sequences, FiniteSets, SequencesExt

CONSTANTS
  Thread,
  Size,      \* values of elem_count mem_pool_create is called with
  Default,   \* DEFAULT_ELEM_COUNT
  Junk,      \* what user data may read as when taken for a link
  NULL,
  MaxElem,   \* bound: elements malloc has room for
  MaxBlocks  \* bound: blocks of a pool

Elem == 1 .. MaxElem
Ptr == Elem \cup {NULL}

ASSUME PoolAssumption ==
  /\ MaxElem \in Nat /\ MaxBlocks \in Nat
  /\ Size \subseteq Nat /\ Default \in Nat \ {0}
  /\ NULL \notin Elem /\ Junk \subseteq Ptr

VARIABLES
  live,         \* does the pool exist
  grows,        \* needs_auto_grow
  free_list,
  next,         \* the first bytes of each element
  raw_mem_list, \* the blocks, as the sets of their elements, last one first
  elem_count,
  list_lock,    \* is the mutex locked
  pc,           \* where each thread is
  mem,          \* the local variables e of alloc and mem of free
  nomem,        \* did malloc fail in this call of mem_pool_alloc
  held          \* ghost: the elements each thread was given

pool == <<live, grows, free_list, next, raw_mem_list, elem_count>>
vars == <<pool, list_lock, pc, mem, nomem, held>>

Init ==
  /\ live = FALSE /\ grows = FALSE
  /\ free_list = NULL /\ raw_mem_list = <<>> /\ elem_count = 0
  /\ next = [e \in Elem |-> NULL]
  /\ list_lock = FALSE
  /\ pc = [t \in Thread |-> "idle"]
  /\ mem = [t \in Thread |-> NULL]
  /\ nomem = [t \in Thread |-> FALSE]
  /\ held = [t \in Thread |-> {}]

Go(t, l) == pc' = [pc EXCEPT ![t] = l]

-----------------------------------------------------------------------------

\* Mutant: the new elements replace the free list.
grow_new_mem_Lost(n) ==
  /\ elem_count + n <= MaxElem /\ Len(raw_mem_list) < MaxBlocks
  /\ raw_mem_list' = <<elem_count + 1 .. elem_count + n>> \o raw_mem_list
  /\ next' = [e \in Elem |-> NULL]
  /\ free_list' = IF n = 0 THEN free_list ELSE elem_count + n
  /\ elem_count' = elem_count + n

\* grow_new_mem with a malloc that succeeds, and fill_free_list: n elements
\* are pushed one after the other.
grow_new_mem(n) ==
  /\ elem_count + n <= MaxElem /\ Len(raw_mem_list) < MaxBlocks
  /\ raw_mem_list' = <<elem_count + 1 .. elem_count + n>> \o raw_mem_list
  /\ next' = [e \in Elem |->
                IF e \in elem_count + 2 .. elem_count + n THEN e - 1
                ELSE IF e = elem_count + 1 /\ n > 0 THEN free_list
                ELSE next[e]]
  /\ free_list' = IF n = 0 THEN free_list ELSE elem_count + n
  /\ elem_count' = elem_count + n

\* grow_new_mem when malloc fails.
grow_new_mem_fails == UNCHANGED <<raw_mem_list, next, free_list, elem_count>>

\* The pool is returned whether or not its first block could be had.
mem_pool_create(n, auto) ==
  /\ ~live
  /\ live' = TRUE /\ grows' = auto
  /\ grow_new_mem(IF n = 0 THEN Default ELSE n) \/ grow_new_mem_fails
  /\ list_lock' = FALSE
  /\ UNCHANGED <<pc, mem, nomem, held>>

\* All blocks are freed, in use or not.
mem_pool_delete ==
  /\ live /\ \A t \in Thread : pc[t] = "idle"
  /\ live' = FALSE
  /\ free_list' = NULL /\ raw_mem_list' = <<>> /\ elem_count' = 0
  /\ held' = [t \in Thread |-> {}]
  /\ UNCHANGED <<grows, next, list_lock, pc, mem, nomem>>

-----------------------------------------------------------------------------
(* mem_pool_alloc.                                                         *)

mem_pool_alloc(t) ==
  /\ live /\ pc[t] = "idle"
  /\ Go(t, "alloc")
  /\ nomem' = [nomem EXCEPT ![t] = FALSE]
  /\ UNCHANGED <<pool, list_lock, mem, held>>

mem_pool_alloc_lock(t) ==
  /\ pc[t] = "alloc" /\ ~list_lock
  /\ list_lock' = TRUE
  /\ Go(t, "grow")
  /\ UNCHANGED <<pool, mem, nomem, held>>

\* Mutant: only a pool that never grew may grow.
mem_pool_alloc_grow_Once(t) ==
  /\ pc[t] = "grow"
  /\ IF free_list = NULL /\ grows /\ raw_mem_list = <<>>
     THEN \/ grow_new_mem(elem_count * 2) /\ UNCHANGED nomem
          \/ grow_new_mem_fails /\ nomem' = [nomem EXCEPT ![t] = TRUE]
     ELSE grow_new_mem_fails /\ UNCHANGED nomem
  /\ Go(t, "read")
  /\ UNCHANGED <<live, grows, list_lock, mem, held>>

\* An empty pool that may grow triples.
mem_pool_alloc_grow(t) ==
  /\ pc[t] = "grow"
  /\ IF free_list = NULL /\ grows
     THEN \/ grow_new_mem(elem_count * 2) /\ UNCHANGED nomem
          \/ grow_new_mem_fails /\ nomem' = [nomem EXCEPT ![t] = TRUE]
     ELSE grow_new_mem_fails /\ UNCHANGED nomem
  /\ Go(t, "read")
  /\ UNCHANGED <<live, grows, list_lock, mem, held>>

\* e = mp->free_list
mem_pool_alloc_read(t) ==
  /\ pc[t] = "read"
  /\ mem' = [mem EXCEPT ![t] = free_list]
  /\ Go(t, "pop")
  /\ UNCHANGED <<pool, list_lock, nomem, held>>

\* mp->free_list = e->next
mem_pool_alloc_pop(t) ==
  /\ pc[t] = "pop"
  /\ free_list' = IF mem[t] = NULL THEN free_list ELSE next[mem[t]]
  /\ Go(t, "got")
  /\ UNCHANGED <<live, grows, next, raw_mem_list, elem_count,
                 list_lock, mem, nomem, held>>

\* Mutant: no unlock when there is nothing to return.
mem_pool_alloc_return_NoUnlock(t) ==
  /\ pc[t] = "got"
  /\ list_lock' = (mem[t] = NULL)
  /\ held' = [held EXCEPT ![t] = @ \cup ({mem[t]} \ {NULL})]
  /\ mem' = [mem EXCEPT ![t] = NULL]
  /\ Go(t, "idle")
  /\ UNCHANGED <<pool, nomem>>

mem_pool_alloc_return(t) ==
  /\ pc[t] = "got"
  /\ list_lock' = FALSE
  /\ held' = [held EXCEPT ![t] = @ \cup ({mem[t]} \ {NULL})]
  /\ mem' = [mem EXCEPT ![t] = NULL]
  /\ Go(t, "idle")
  /\ UNCHANGED <<pool, nomem>>

\* A user writes to an element it was given, over the bytes of the link.
write(t, e, junk) ==
  /\ pc[t] = "idle" /\ e \in held[t]
  /\ next' = [next EXCEPT ![e] = junk]
  /\ UNCHANGED <<live, grows, free_list, raw_mem_list, elem_count,
                 list_lock, pc, mem, nomem, held>>

-----------------------------------------------------------------------------
(* mem_pool_free.                                                          *)

mem_pool_free(t, e) ==
  /\ live /\ pc[t] = "idle" /\ e \in held[t]
  /\ held' = [held EXCEPT ![t] = @ \ {e}]
  /\ mem' = [mem EXCEPT ![t] = e]
  /\ Go(t, "free")
  /\ UNCHANGED <<pool, list_lock, nomem>>

\* Mutant: free does without the lock.
mem_pool_free_lock_NoLock(t) ==
  /\ pc[t] = "free"
  /\ Go(t, "link")
  /\ UNCHANGED <<pool, list_lock, mem, nomem, held>>

mem_pool_free_lock(t) ==
  /\ pc[t] = "free" /\ ~list_lock
  /\ list_lock' = TRUE
  /\ Go(t, "link")
  /\ UNCHANGED <<pool, mem, nomem, held>>

\* e->next = mp->free_list
mem_pool_free_link(t) ==
  /\ pc[t] = "link"
  /\ next' = [next EXCEPT ![mem[t]] = free_list]
  /\ Go(t, "push")
  /\ UNCHANGED <<live, grows, free_list, raw_mem_list, elem_count,
                 list_lock, mem, nomem, held>>

\* mp->free_list = e
mem_pool_free_push(t) ==
  /\ pc[t] = "push"
  /\ free_list' = mem[t]
  /\ Go(t, "freed")
  /\ UNCHANGED <<live, grows, next, raw_mem_list, elem_count,
                 list_lock, mem, nomem, held>>

mem_pool_free_return(t) ==
  /\ pc[t] = "freed"
  /\ list_lock' = FALSE
  /\ mem' = [mem EXCEPT ![t] = NULL]
  /\ Go(t, "idle")
  /\ UNCHANGED <<pool, nomem, held>>

-----------------------------------------------------------------------------

lock(t) == mem_pool_alloc_lock(t) \/ mem_pool_free_lock(t)

\* What a call does with the lock held.
step(t) == \/ mem_pool_alloc_grow(t) \/ mem_pool_alloc_read(t)
           \/ mem_pool_alloc_pop(t) \/ mem_pool_alloc_return(t)
           \/ mem_pool_free_link(t) \/ mem_pool_free_push(t)
           \/ mem_pool_free_return(t)

call(t) == mem_pool_alloc(t) \/ \E e \in Elem : mem_pool_free(t, e)

Next ==
  \/ \E n \in Size, auto \in BOOLEAN : mem_pool_create(n, auto)
  \/ mem_pool_delete
  \/ \E t \in Thread : call(t) \/ lock(t) \/ step(t)
  \/ \E t \in Thread, e \in Elem, junk \in Junk : write(t, e, junk)

Spec == Init /\ [][Next]_vars

\* A thread inside a call goes on, and one that waits for list_lock gets it
\* if it is free again and again: the section is a few instructions long.
FairSpec == /\ Spec
            /\ \A t \in Thread : WF_vars(step(t)) /\ SF_vars(lock(t))

-----------------------------------------------------------------------------
(* Properties.                                                             *)

TypeOK ==
  /\ live \in BOOLEAN /\ grows \in BOOLEAN /\ list_lock \in BOOLEAN
  /\ free_list \in Ptr /\ next \in [Elem -> Ptr]
  /\ raw_mem_list \in Seq(SUBSET Elem) /\ elem_count \in Nat
  /\ pc \in [Thread -> {"idle", "alloc", "grow", "read", "pop", "got",
                        "free", "link", "push", "freed"}]
  /\ mem \in [Thread -> Ptr] /\ nomem \in [Thread -> BOOLEAN]
  /\ held \in [Thread -> SUBSET Elem]

\* The elements of the pool's blocks; the threads that carry an element which
\* is neither on the free list nor theirs to use; the elements that are not
\* on the free list.
Owned == UNION {raw_mem_list[i] : i \in DOMAIN raw_mem_list}
Carrying == {t \in Thread : /\ pc[t] \in {"got", "free", "link", "push"}
                            /\ mem[t] # NULL}
Out == (UNION {held[t] : t \in Thread}) \cup {mem[t] : t \in Carrying}
Listed == Owned \ Out

\* "it's thread safe" (dig_mem_pool.h): no element is given to two threads,
\* or twice to one, whatever its users write into it and however allocation,
\* growth and freeing interleave.
Exclusive ==
  /\ Out \subseteq Owned
  /\ \A t, u \in Thread : t # u => held[t] \cap held[u] = {}
  /\ \A t \in Carrying, u \in Thread : mem[t] \notin held[u]
  /\ \A t, u \in Carrying : mem[t] = mem[u] => t = u

\* The links nx, followed from f, thread the elements of L, once each: they
\* lead from one of them to another, to each of them from one place only, and
\* a subset they do not lead out of, with f in it, is all of L.
Threads(f, nx, L) ==
  /\ f \in L \cup {NULL}
  /\ \A x \in L : nx[x] \in L \cup {NULL} /\ (nx[x] = f => f = NULL)
  /\ \A x, y \in L : nx[x] = nx[y] /\ nx[x] # NULL => x = y
  /\ \A S \in SUBSET L : /\ f # NULL => f \in S
                         /\ \A x \in S : nx[x] # NULL => nx[x] \in S
                         => S = L

\* Exactly the elements that are not out are on the free list, once each:
\* none is lost.
FreeListExact == Threads(free_list, next, Listed)

\* mem_pool_alloc returns NULL only when nothing is free and the pool is of
\* fixed size, malloc failed, or the pool has no elements at all.
NullJustified ==
  \A t \in Thread :
    pc[t] = "got" /\ mem[t] = NULL =>
      free_list = NULL /\ (~grows \/ nomem[t] \/ elem_count = 0)

\* Every call returns.
CallsReturn == \A t \in Thread : pc[t] \in {"alloc", "free"} ~> pc[t] = "idle"
=============================================================================
