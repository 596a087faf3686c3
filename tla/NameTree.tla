------------------------------ MODULE NameTree ------------------------------
(***************************************************************************)
(* log_name_tree.c with its parts: the red-black tree of names, the pool   *)
(* its node_value_t's come from, the LRU list, and the heap of the names   *)
(* seen most often; and the loop of view_stats_set_memsize that recycles   *)
(* the names at the tail of the LRU list.                                  *)
(*                                                                         *)
(* A node_value_t is a slot of name_pool.  A slot given back keeps its     *)
(* count and heap_index; its first bytes become the link of the free list, *)
(* so its name is gone.  The heap keeps pointing to it.  The nodes of the  *)
(* red-black tree come and go with the slots.                              *)
(***************************************************************************)
EXTENDS LogHeap

CONSTANTS
  Name,       \* names that fit into fqdn with a dot at the end
  EdgeName,   \* names of MAX_NAME_LEN - 1 characters without that dot
  LongName,   \* names name_tree_insert refuses
  Roof,       \* entries the heap may have (1000)
  NodeCost,   \* rbnode_t and node_value_t
  LruCost,    \* lru_node_t
  Expect,     \* the sizes view_stats_set_memsize is called with
  NULL,
  MaxInserts  \* bound: calls of name_tree_insert

ASSUME NameAssumption ==
  /\ Name \cap (EdgeName \cup LongName) = {} /\ EdgeName \cap LongName = {}
  /\ NULL \notin Name \cup EdgeName \cup LongName
ASSUME SizeAssumption ==
  /\ Roof \in Nat \ {0} /\ MaxInserts \in Nat /\ MaxInserts < SignBit
  /\ NodeCost \in Nat \ {0} /\ LruCost \in Nat \ {0}
  /\ Expect \subseteq Nat

\* A name takes one slot at most each time it is inserted.
Slot == 1 .. MaxInserts

VARIABLES
  fqdn, count, \* fields of the slots
  hp,          \* tree->heap, with the heap_index fields of the slots
  inTree,      \* the slots in _tree
  freed,       \* the free list of name_pool, in front of its fresh slots
  lru,         \* tree->lru
  total,       \* tree->count
  expect,      \* expect_size while view_stats_set_memsize runs, else NULL
  inserts,     \* calls of name_tree_insert so far
  recycled,    \* ghost: was a slot ever given back
  sunk         \* ghost: did a new name ever sink below one seen more often

pool == <<fqdn, inTree, freed, total, recycled, sunk>>
vars == <<pool, count, hp, lru, expect, inserts>>

Init ==
  /\ fqdn = [s \in Slot |-> NULL] /\ count = [s \in Slot |-> 0]
  /\ hp = [h |-> <<>>, idx |-> [s \in Slot |-> 0]]
  /\ inTree = {} /\ freed = <<>> /\ lru = <<>> /\ total = 0
  /\ expect = NULL /\ inserts = 0 /\ recycled = FALSE /\ sunk = FALSE

-----------------------------------------------------------------------------

\* fqdn has no room for the dot and the terminator of an EdgeName: the
\* terminator is the low byte of count, and once the name was counted it
\* reads as a longer one.
Overruns(s) == fqdn[s] \in EdgeName /\ count[s] % 256 # 0

\* name_tree_exactly_find: the slot in the tree that reads as this name.
Found(x) == {s \in inTree : fqdn[s] = x /\ ~Overruns(s)}

\* mem_pool_alloc: the slot given back last, or a fresh one.
Slots == Cardinality(inTree) + Len(freed)
mem_pool_alloc == IF freed # <<>> THEN Head(freed) ELSE Slots + 1

\* Mutant: the roof is off by one.
Ranked_OffByOne(p, c, s) ==
  IF p.idx[s] # 0 THEN heap_adjust_siftdown(p, c, p.idx[s])
  ELSE IF Len(p.h) <= Roof THEN heap_insert(p, c, s)
  ELSE IF heap_min_less_than(p, c, s) THEN heap_replace_least(p, c, s)
  ELSE p

\* The end of name_tree_insert: the heap after slot s was counted.
Ranked(p, c, s) ==
  IF p.idx[s] # 0 THEN heap_adjust_siftdown(p, c, p.idx[s])
  ELSE IF Len(p.h) < Roof THEN heap_insert(p, c, s)
  ELSE IF heap_min_less_than(p, c, s) THEN heap_replace_least(p, c, s)
  ELSE p

Insert(x) ==
  /\ expect = NULL /\ inserts < MaxInserts
  /\ inserts' = inserts + 1
  /\ UNCHANGED expect

\* The name is too long: -1, which no caller looks at.
name_tree_insert_refused(x) ==
  /\ Insert(x) /\ x \in LongName
  /\ UNCHANGED <<pool, count, hp, lru>>

\* lru_list_move_to_first: slot s comes first.
Touched(s) == <<s>> \o RemoveAt(lru, CHOOSE i \in DOMAIN lru : lru[i] = s)

\* Mutant: the name found is not touched in the LRU list.
name_tree_insert_found_NoTouch(x) ==
  /\ Insert(x) /\ x \notin LongName
  /\ \E s \in Found(x) :
       /\ count' = [count EXCEPT ![s] = @ + 1]
       /\ hp' = Ranked(hp, count', s)
  /\ UNCHANGED <<pool, lru>>

\* The name is there: touch it, count it, move it in the heap.
name_tree_insert_found(x) ==
  /\ Insert(x) /\ x \notin LongName
  /\ \E s \in Found(x) :
       /\ lru' = Touched(s)
       /\ count' = [count EXCEPT ![s] = @ + 1]
       /\ hp' = Ranked(hp, count', s)
  /\ UNCHANGED pool

\* A new name rises one level at most in the heap: it stays below the
\* grandparent of the place it starts from, which may have been seen more often.
Sinks ==
  LET g == (Len(hp.h) + 1) \div 4
  IN Len(hp.h) < Roof /\ g > 0 /\ count[hp.h[g]] > 1

\* It is not: take a slot, put it into the tree, the LRU list and the heap.
name_tree_insert_new(x) ==
  /\ Insert(x) /\ x \notin LongName /\ Found(x) = {}
  /\ LET s == mem_pool_alloc
     IN /\ fqdn' = [fqdn EXCEPT ![s] = x]
        /\ inTree' = inTree \cup {s}
        /\ lru' = <<s>> \o lru
        /\ count' = [count EXCEPT ![s] = 1]
        /\ hp' = Ranked([hp EXCEPT !.idx[s] = 0], count', s)
  /\ freed' = IF freed # <<>> THEN Tail(freed) ELSE <<>>
  /\ total' = total + 1
  /\ sunk' = (sunk \/ Sinks)
  /\ UNCHANGED recycled

-----------------------------------------------------------------------------
(* Recycling.                                                              *)

\* name_tree_get_size, without its fixed parts.
name_tree_get_size == total * NodeCost + Len(lru) * LruCost

view_stats_set_memsize(size) ==
  /\ expect = NULL /\ size < name_tree_get_size
  /\ expect' = size
  /\ UNCHANGED <<pool, count, hp, lru, inserts>>

\* name_tree_delete of the name slot s reads as, without a del_func.  With
\* its dot an EdgeName is too long for it.
name_tree_delete(s) ==
  IF fqdn[s] \in EdgeName
  THEN UNCHANGED pool
  ELSE /\ inTree' = inTree \ {s}
       /\ freed' = <<s>> \o freed
       /\ fqdn' = [fqdn EXCEPT ![s] = NULL]
       /\ total' = total - 1
       /\ recycled' = TRUE
       /\ UNCHANGED sunk

\* Mutant: the list entry stays when its name goes.
view_stats_set_memsize_step_NoRemove ==
  /\ expect # NULL /\ expect < name_tree_get_size /\ lru # <<>>
  /\ name_tree_delete(Last(lru))
  /\ UNCHANGED <<lru, count, hp, expect, inserts>>

\* One round: lru_list_remove_tail, then name_tree_delete.
view_stats_set_memsize_step ==
  /\ expect # NULL /\ expect < name_tree_get_size /\ lru # <<>>
  /\ lru' = Front(lru)
  /\ name_tree_delete(Last(lru))
  /\ UNCHANGED <<count, hp, expect, inserts>>

\* Mutant: an empty list does not end the loop.
view_stats_set_memsize_return_NoBreak ==
  /\ expect # NULL /\ name_tree_get_size <= expect
  /\ expect' = NULL
  /\ UNCHANGED <<pool, count, hp, lru, inserts>>

view_stats_set_memsize_return ==
  /\ expect # NULL
  /\ name_tree_get_size <= expect \/ lru = <<>>
  /\ expect' = NULL
  /\ UNCHANGED <<pool, count, hp, lru, inserts>>

-----------------------------------------------------------------------------

\* _view_stats_result: the slots whose names and counts make the reply.
_view_stats_result(topn) == SubSeq(heap_sort(hp, count), 1, Min({topn, Len(hp.h)}))

AnyName == Name \cup EdgeName \cup LongName

Next ==
  \/ \E x \in AnyName : \/ name_tree_insert_refused(x)
                        \/ name_tree_insert_found(x)
                        \/ name_tree_insert_new(x)
  \/ \E size \in Expect : view_stats_set_memsize(size)
  \/ view_stats_set_memsize_step
  \/ view_stats_set_memsize_return

Spec == Init /\ [][Next]_vars

\* A call of view_stats_set_memsize runs to its end.
FairSpec == /\ Spec
            /\ WF_vars(view_stats_set_memsize_step \/ view_stats_set_memsize_return)

-----------------------------------------------------------------------------
(* Properties.                                                             *)

Fields == /\ fqdn \in [Slot -> AnyName \cup {NULL}]
          /\ count \in [Slot -> 0 .. MaxInserts]
          /\ hp.h \in Seq(Slot) /\ hp.idx \in [Slot -> 0 .. Roof]

TypeOK == /\ Fields
          /\ inTree \in SUBSET Slot /\ freed \in Seq(Slot) /\ lru \in Seq(Slot)
          /\ total \in Nat /\ inserts \in Nat
          /\ expect \in Nat \cup {NULL}
          /\ recycled \in BOOLEAN /\ sunk \in BOOLEAN

\* No slot of name_pool is handed out twice, given back twice or lost, and
\* the LRU list, the size accounting and the tree agree: a slot is in the
\* tree and in the list, in the tree alone if recycling could not remove its
\* overrun name, or on the free list.
PoolSound ==
  /\ TypeOK
  /\ IsInjective(freed) /\ IsInjective(lru)
  /\ ToSet(freed) \cap inTree = {}
  /\ ToSet(freed) \cup inTree = 1 .. Slots
  /\ ToSet(lru) \subseteq inTree
  /\ \A s \in inTree \ ToSet(lru) : Overruns(s)
  /\ total = Cardinality(inTree)

\* Recycled names stay in the heap, a slot may be in it twice and the heap
\* may be out of order; yet the heap never outgrows its roof, and no
\* heap_index a name is sifted from ever points beyond its end.
HeapBounded ==
  /\ Len(hp.h) <= Roof
  /\ ToSet(hp.h) \subseteq 1 .. Slots
  /\ \A s \in Slot : hp.idx[s] <= Len(hp.h)

\* Until names are recycled, a name is in the heap at most once, at its
\* heap_index, and it is there if the heap is not full: top-N then knows
\* every name.  Nothing puts the heap out of order but a new name that sinks.
HeapHoldsNames ==
  ~recycled =>
    /\ IsInjective(hp.h)
    /\ \A i \in 1 .. Len(hp.h) : hp.idx[hp.h[i]] = i
    /\ Len(hp.h) < Roof => ToSet(hp.h) = inTree
    /\ ~sunk => Ordered(hp.h, count)

\* What top-N relies on, before and after recycling.
HeapSound == HeapBounded /\ HeapHoldsNames

\* Until names are recycled or a new name sinks, a top-N reply has no name twice, the one seen most
\* often first, and no other name was seen more often than the last: except one
\* that the heap evicted once.  Its heap_index was not reset, so that it never
\* comes back into the heap however often it is seen.
TopN ==
  ~recycled /\ ~sunk => \A n \in 1 .. Roof :
    LET top == _view_stats_result(n)
        last == count[Last(top)]
    IN /\ IsInjective(top)
       /\ \A i \in 2 .. Len(top) : count[top[i]] <= count[top[i - 1]]
       /\ top # <<>> => \A s \in inTree \ ToSet(top) :
            count[s] > last => s \notin ToSet(hp.h) /\ hp.idx[s] # 0

\* view_stats_set_memsize ends, although an overrun name never leaves the
\* tree and the size may never come down to expect_size.
RecyclingEnds == expect # NULL ~> expect = NULL

\* The names that fit and are in the list, and where.
Listed == {x \in Name : \E i \in DOMAIN lru : fqdn[lru[i]] = x}
Place(x) == CHOOSE i \in DOMAIN lru : fqdn[lru[i]] = x
Seen == [x \in Listed |-> count[lru[Place(x)]]]
Later == [x \in Listed |-> {y \in Listed : Place(y) < Place(x)}]
Abstract == INSTANCE NameSpec WITH seen <- Seen, later <- Later

\* No insertion of a name that fits is lost, and nothing is forgotten but by
\* recycling.
CallsMatch ==
  /\ \A x \in Name : name_tree_insert_found(x) \/ name_tree_insert_new(x)
                       => Abstract!See(x)
  /\ Abstract!Forget => view_stats_set_memsize_step

\* For the names that fit, tree, pool and list together count every name and
\* forget the names in the order they were last seen, whatever slots are
\* reused and whatever names overrun.
ImplementsNameSpec == Abstract!Spec /\ [][CallsMatch]_vars

\* A name name_tree_insert accepted is known: inserting it again makes the
\* tree no larger.
AcceptedOnce ==
  \A s, t \in inTree : fqdn[s] = fqdn[t] => s = t
=============================================================================
