---------------------------- MODULE HouseKeeper ----------------------------
(***************************************************************************)
(* The statistics daemon around struct house_keeper: the main thread that  *)
(* feeds parsed log lines to log_handle, the qps_thread, and one           *)
(* socket_thread per connected client, all sharing the view tree under the *)
(* mutex mlock (log_topn.c, log_view_tree.c, log_view_stats.c).            *)
(*                                                                         *)
(* One action is one stretch of code between two points another thread can *)
(* tell apart: taking the lock, finding the view, recycling memory,        *)
(* counting the line, running a request, giving the lock back.             *)
(*                                                                         *)
(* Memory is counted in units: an entry of a name_tree is one unit in the  *)
(* tree (its node and value) and one in the LRU list, and the fixed parts  *)
(* are the constants StatCost, NodeCost and BaseCost.  A name_tree is its  *)
(* LRU list of names, and the number of entries that only the tree has;    *)
(* what its heap holds is the subject of NameTree.                         *)
(*                                                                         *)
(* malloc does not fail here, every line names a record type and a         *)
(* response code the daemon knows, and its domain and address are short    *)
(* enough for name_tree_insert.  Those of the greatest length it takes     *)
(* overrun their field when it adds a dot; such an entry is never found    *)
(* again, be it to count the name or to delete it.                         *)
(***************************************************************************)
EXTENDS Integers, Sequences, FiniteSets, SequencesExt

CONSTANTS
  Client,     \* the socket threads
  Key,        \* names of views: "view$zone" and "*$zone"
  LongKey,    \* the ones longer than MAX_VIEW_LENGTH
  Line,       \* parsed lines: [view, total : Key, name, ip : Name]
  Name,       \* domain names and client addresses
  Overrun,    \* the ones of 31 characters without a dot at the end
  Asked,      \* names clients ask about, views or not
  Stat,       \* addresses malloc can return for a view_stats_t
  NULL,
  main, qps,  \* the other two threads
  Limit,      \* mem_uplimit
  StatCost,   \* view_stats_t and its two empty name trees
  NodeCost,   \* STATS_NODE_MAX_SIZE and the view's LRU node
  BaseCost,   \* view_tree_t
  Garbage,    \* what view_tree_create may find in the count field of memory
              \* malloc recycles, besides the count of the tree just freed
  MaxLines,   \* bound: lines read
  MaxRequests \* bound: requests over all clients

ASSUME ThreadAssumption ==
  /\ main \notin Client /\ qps \notin Client /\ main # qps
  /\ IsFiniteSet(Client)
ASSUME KeyAssumption ==
  /\ LongKey \subseteq Key
  /\ \A l \in Line : l.view \in Key /\ l.total \in Key /\ l.view # l.total
  /\ \A l \in Line : l.name \in Name /\ l.ip \in Name
  /\ Overrun \subseteq Name
  \* "*$zone" is no longer than "view$zone"
  /\ \A l \in Line : l.total \in LongKey => l.view \in LongKey
\* No view is named "*" and no name of a view has a "$": a key is a view's or a
\* zone's, and a view's key names its zone.
ASSUME ZoneAssumption ==
  \A l, m \in Line : l.view # m.total /\ (l.view = m.view => l.total = m.total)
ASSUME NullAssumption == NULL \notin Stat \cup Key \cup Line
ASSUME CostAssumption ==
  /\ Limit \in Nat /\ StatCost \in Nat /\ NodeCost \in Nat /\ BaseCost \in Nat
  /\ BaseCost <= Limit /\ StatCost <= Limit
  /\ Garbage \subseteq Int
  /\ MaxLines \in Nat /\ MaxRequests \in Nat

Thread == Client \cup {main, qps}

\* Requests by what they do to the shared state: "query" stands for views,
\* the six keys that read one view (domaintopn, iptopn, rcode, rtype, qps,
\* success_rate) and any key socket_thread does not know.
Request == [key : {"flush", "query"}, view : Asked]

VARIABLES
  pc,       \* where each thread is
  mlock,    \* is the mutex word locked
  stranded, \* threads asleep on the mutex, of which its word says nothing
  raced,    \* ghost: was the mutex initialised while a thread held it
  tree,     \* views->rbtree: the view_stats_t of each view, or NULL
  lru,      \* views->lrulist, most recent first, as the views' names
  cnt,      \* views->count
  residue,  \* ghost: the value cnt had when this view tree was created
  stat,     \* the view_stats_t's allocated and what is in them: the LRU lists
            \* of name_tree and ip_tree, the number of entries that are in
            \* these trees and on no list, and the sum of the rcode counters
  line,     \* the line the main thread works on, or NULL
  phase,    \* which of the two log_handle calls of that line: 1 or 2
  vs,       \* the local variable vs of log_handle
  nread,    \* lines read so far
  req,      \* the request each client thread works on
  vtnode,   \* the local variable vtnode of socket_thread, as the view's name
  nreq,     \* requests received so far
  evicted   \* ghost: did recycling drop a view since the last flush

mutex == <<mlock, stranded>>
keeper == <<tree, lru, cnt, stat>>
mainLocal == <<line, phase, vs, nread>>
clientLocal == <<req, vtnode, nreq>>
ghosts == <<raced, residue, evicted>>
vars == <<pc, mutex, keeper, mainLocal, clientLocal, ghosts>>

Go(t, l) == pc' = [pc EXCEPT ![t] = l]

\* Between pthread_mutex_lock and pthread_mutex_unlock.
InSection(t) == pc[t] \in {"find", "recycle", "count", "exec", "walk", "unlock"}
Section == {t \in Thread : InSection(t)}

Views == {k \in Key : tree[k] # NULL}

\* The addresses of the view_stats_t's allocated.
heap == DOMAIN stat

EmptyStat == [names |-> <<>>, ips |-> <<>>, lost |-> 0, hits |-> 0]

Init ==
  /\ pc = [t \in Thread |-> IF t = main THEN "start_command_handler" ELSE "off"]
  /\ mlock = FALSE /\ stranded = {} /\ raced = FALSE
  /\ tree = [k \in Key |-> NULL] /\ lru = <<>>
  /\ cnt = 0 /\ residue = 0
  /\ stat = <<>>
  /\ line = NULL /\ phase = 1 /\ vs = NULL /\ nread = 0
  /\ req = [c \in Client |-> NULL]
  /\ vtnode = [c \in Client |-> NULL] /\ nreq = 0
  /\ evicted = FALSE

-----------------------------------------------------------------------------
(* house_keeper_create: the two threads start before the mutex is          *)
(* initialised.  Its memory, fresh from malloc, reads as an unlocked one.  *)

start_command_handler ==
  /\ pc[main] = "start_command_handler"
  /\ pc' = [t \in Thread |-> IF t = main THEN "start_qps_thread"
                             ELSE IF t \in Client THEN "idle" ELSE pc[t]]
  /\ UNCHANGED <<mutex, keeper, mainLocal, clientLocal, ghosts>>

start_qps_thread ==
  /\ pc[main] = "start_qps_thread"
  /\ pc' = [pc EXCEPT ![main] = "mutex_init", ![qps] = "lock"]
  /\ UNCHANGED <<mutex, keeper, mainLocal, clientLocal, ghosts>>

\* It clears the word: who found it locked and went to sleep is forgotten, and
\* the unlock to come wakes nobody.
mutex_init ==
  /\ pc[main] = "mutex_init"
  /\ mlock' = FALSE
  /\ stranded' \in SUBSET {t \in Thread : mlock /\ pc[t] = "lock"}
  /\ raced' = (Section # {})
  /\ Go(main, "idle")
  /\ UNCHANGED <<keeper, mainLocal, clientLocal, residue, evicted>>

-----------------------------------------------------------------------------
(* The mutex: a plain pthread mutex does not check who unlocks it.  Its    *)
(* unlock wakes a thread that waits, unless that one is stranded.          *)

AfterLock(t) == IF t = qps THEN "walk" ELSE "find"

mutex_lock(t) ==
  /\ pc[t] = "lock" /\ t \notin stranded
  /\ ~mlock
  /\ mlock' = TRUE
  /\ Go(t, AfterLock(t))
  /\ UNCHANGED <<stranded, keeper, mainLocal, clientLocal, ghosts>>

\* When another thread waits the word says so again, and the unlock may wake a
\* stranded one instead.
futex_wake(t) ==
  /\ t \in stranded /\ mlock
  /\ \E u \in Thread \ stranded : pc[u] = "lock"
  /\ stranded' = stranded \ {t}
  /\ UNCHANGED <<pc, mlock, keeper, mainLocal, clientLocal, ghosts>>

-----------------------------------------------------------------------------
(* Sizes: view_stats_get_size and view_tree_get_size.                      *)

view_stats_get_size(s) == StatCost + 2 * (Len(s.names) + Len(s.ips)) + s.lost

\* What each view of the tree takes, and the total over a set of them.
Weight == [k \in Key |-> IF tree[k] = NULL THEN 0
                         ELSE NodeCost + view_stats_get_size(stat[tree[k]])]
SizeOf(S) == BaseCost + SumFunctionOnSet(Weight, S)
view_tree_get_size == SizeOf(Views)

-----------------------------------------------------------------------------
(* log_handle, called twice for a line: for its view, then for the total.  *)

\* Mutant: the total is counted before the view.
ThisKey_TotalFirst == IF phase = 1 THEN line.total ELSE line.view

\* The key of the call under way.
ThisKey == IF phase = 1 THEN line.view ELSE line.total

handle_string_log(l) ==
  /\ pc[main] = "idle" /\ nread < MaxLines
  /\ line' = l /\ phase' = 1 /\ vs' = NULL
  /\ nread' = nread + 1
  /\ Go(main, "lock")
  /\ UNCHANGED <<mutex, keeper, clientLocal, ghosts>>

\* Mutant: the entry is not unlinked from its old place.
MoveToFirst_NoUnlink(s, x) == <<x>> \o s

\* lru_list_move_to_first for the entry x of s: those before it move back.
MoveToFirst(s, x) ==
  LET i == CHOOSE i \in DOMAIN s : s[i] = x
  IN [j \in DOMAIN s |-> IF j = 1 THEN x ELSE IF j <= i THEN s[j - 1] ELSE s[j]]

\* Mutants: the view found is not touched; it is counted once more.
log_handle_found_NoTouch ==
  /\ pc[main] = "find" /\ tree[ThisKey] # NULL
  /\ vs' = tree[ThisKey]
  /\ Go(main, "recycle")
  /\ UNCHANGED <<mutex, keeper, line, phase, nread, clientLocal, ghosts>>

log_handle_found_Counted ==
  /\ pc[main] = "find" /\ tree[ThisKey] # NULL
  /\ vs' = tree[ThisKey]
  /\ lru' = MoveToFirst(lru, ThisKey)
  /\ cnt' = cnt + 1
  /\ Go(main, "recycle")
  /\ UNCHANGED <<mutex, tree, stat, line, phase, nread,
                 clientLocal, ghosts>>

\* The view is there: remember its statistics, make it the most recent one.
log_handle_found ==
  /\ pc[main] = "find" /\ tree[ThisKey] # NULL
  /\ vs' = tree[ThisKey]
  /\ lru' = MoveToFirst(lru, ThisKey)
  /\ Go(main, "recycle")
  /\ UNCHANGED <<mutex, tree, cnt, stat, line, phase, nread,
                 clientLocal, ghosts>>

\* It is not: view_stats_create and view_tree_insert.
log_handle_create ==
  /\ pc[main] = "find" /\ tree[ThisKey] = NULL /\ ThisKey \notin LongKey
  /\ \E o \in Stat \ heap :
       /\ stat' = [x \in heap \cup {o} |-> IF x = o THEN EmptyStat ELSE stat[x]]
       /\ tree' = [tree EXCEPT ![ThisKey] = o]
       /\ vs' = o
  /\ lru' = <<ThisKey>> \o lru
  /\ cnt' = cnt + 1
  /\ Go(main, "recycle")
  /\ UNCHANGED <<mutex, line, phase, nread, clientLocal, ghosts>>

\* Mutant: the early return leaves the mutex locked.
log_handle_refused_NoUnlock ==
  /\ pc[main] = "find" /\ tree[ThisKey] = NULL /\ ThisKey \in LongKey
  /\ phase' = 3 - phase
  /\ Go(main, IF phase = 1 THEN "lock" ELSE "idle")
  /\ UNCHANGED <<mutex, keeper, line, vs, nread, clientLocal, ghosts>>

\* view_stats_create refuses the name: unlock and return.
log_handle_refused ==
  /\ pc[main] = "find" /\ tree[ThisKey] = NULL /\ ThisKey \in LongKey
  /\ Go(main, "unlock")
  /\ UNCHANGED <<mutex, keeper, mainLocal, clientLocal, ghosts>>

log_handle_fits ==
  /\ pc[main] = "recycle" /\ view_tree_get_size <= Limit
  /\ Go(main, "count")
  /\ UNCHANGED <<mutex, keeper, mainLocal, clientLocal, ghosts>>

\* The last m entries of the LRU list, and the loop condition of
\* view_tree_set_memsize after they were dropped (and its mutant: keep two).
LastOnes(m) == {lru[i] : i \in Len(lru) - m + 1 .. Len(lru)}
MoreToDrop_KeepTwo(m) == SizeOf(Views \ LastOnes(m)) > Limit /\ cnt - m > 2
MoreToDrop(m) == SizeOf(Views \ LastOnes(m)) > Limit /\ cnt - m > 1

\* The loop drops m views.
LoopDrops(m) == ~MoreToDrop(m) /\ \A i \in 0 .. m - 1 : MoreToDrop(i)

\* What is left of the statistics s when the last i names and the last j
\* addresses were dropped.  name_tree_delete does not find one that overran:
\* it is off the list and stays in the tree.
Overran(q, n) == Cardinality({i \in Len(q) - n + 1 .. Len(q) : q[i] \in Overrun})
Trimmed(s, i, j) ==
  [names |-> SubSeq(s.names, 1, Len(s.names) - i),
   ips |-> SubSeq(s.ips, 1, Len(s.ips) - j),
   lost |-> s.lost + Overran(s.names, i) + Overran(s.ips, j),
   hits |-> s.hits]
TooLarge(s, i, j) == view_stats_get_size(Trimmed(s, i, j)) > Limit

\* view_stats_set_memsize drops i names and j addresses of the statistics s:
\* names while it is too large and there is one, then addresses.
view_stats_set_memsize(s, i, j) ==
  /\ \A n \in 0 .. i - 1 : TooLarge(s, n, 0)
  /\ i = Len(s.names) \/ ~TooLarge(s, i, 0)
  /\ \A n \in 0 .. j - 1 : TooLarge(s, i, n)
  /\ j = Len(s.ips) \/ ~TooLarge(s, i, j)

\* view_tree_set_memsize: drop the least recently used views while the tree
\* is too large and counts more than one; if it counts one, trim "the only
\* one", which is some view of the tree when the count is wrong.
view_tree_set_memsize(m) ==
  /\ pc[main] = "recycle" /\ view_tree_get_size > Limit
  /\ LoopDrops(m)
  /\ LET gone == LastOnes(m)
         left == Views \ gone
         kept == heap \ {tree[k] : k \in gone}
     IN /\ tree' = [k \in Key |-> IF k \in gone THEN NULL ELSE tree[k]]
        /\ lru' = SubSeq(lru, 1, Len(lru) - m)
        /\ cnt' = cnt - m
        /\ evicted' = (evicted \/ gone # {})
        /\ \/ /\ cnt - m = 1
              /\ \E k \in left :
                   LET s == stat[tree[k]]
                   IN \E i \in 0 .. Len(s.names), j \in 0 .. Len(s.ips) :
                        /\ view_stats_set_memsize(s, i, j)
                        /\ stat' = [o \in kept |-> IF o = tree[k] THEN Trimmed(s, i, j)
                                                   ELSE stat[o]]
           \/ /\ cnt - m # 1 \/ left = {}
              /\ stat' = [o \in kept |-> stat[o]]
  /\ Go(main, "count")
  /\ UNCHANGED <<mutex, mainLocal, clientLocal, raced, residue>>

\* name_tree_insert: a known name is touched, a new one, or one that is not
\* found, goes in front.
Inserted(s, x) ==
  IF x \notin Overrun /\ \E i \in DOMAIN s : s[i] = x THEN MoveToFirst(s, x)
  ELSE <<x>> \o s

\* view_stats_insert_name, view_stats_insert_ip and the two increments.  When
\* recycling freed vs they write to freed memory.
log_handle_count ==
  /\ pc[main] = "count"
  /\ stat' = [o \in heap |->
                IF o = vs
                THEN [names |-> Inserted(stat[o].names, line.name),
                      ips |-> Inserted(stat[o].ips, line.ip),
                      lost |-> stat[o].lost,
                      hits |-> stat[o].hits + 1]
                ELSE stat[o]]
  /\ Go(main, "unlock")
  /\ UNCHANGED <<mutex, tree, lru, cnt, mainLocal, clientLocal, ghosts>>

\* The unlock of the first call is followed by the second call.
log_handle_unlock ==
  /\ pc[main] = "unlock"
  /\ mlock' = FALSE
  /\ vs' = NULL
  /\ phase' = 3 - phase
  /\ line' = IF phase = 1 THEN line ELSE NULL
  /\ Go(main, IF phase = 1 THEN "lock" ELSE "idle")
  /\ UNCHANGED <<stranded, keeper, nread, clientLocal, ghosts>>

-----------------------------------------------------------------------------
(* qps_thread: nothing increments vs->count, so its walk recomputes a qps  *)
(* of 0 and a success rate of 1 for every view.                            *)

qps_thread_walk ==
  /\ pc[qps] = "walk"
  /\ Go(qps, "unlock")
  /\ UNCHANGED <<mutex, keeper, mainLocal, clientLocal, ghosts>>

qps_thread_unlock ==
  /\ pc[qps] = "unlock"
  /\ mlock' = FALSE
  /\ Go(qps, "sleep")
  /\ UNCHANGED <<stranded, keeper, mainLocal, clientLocal, ghosts>>

\* Mutant: the next round does not take the lock.
qps_thread_wake_NoLock ==
  /\ pc[qps] = "sleep"
  /\ Go(qps, "walk")
  /\ UNCHANGED <<mutex, keeper, mainLocal, clientLocal, ghosts>>

qps_thread_wake ==
  /\ pc[qps] = "sleep"
  /\ Go(qps, "lock")
  /\ UNCHANGED <<mutex, keeper, mainLocal, clientLocal, ghosts>>

-----------------------------------------------------------------------------
(* socket_thread.                                                          *)

\* A request was read and unpacked.
socket_thread_read(c, r) ==
  /\ pc[c] = "idle" /\ nreq < MaxRequests
  /\ req' = [req EXCEPT ![c] = r]
  /\ nreq' = nreq + 1
  /\ Go(c, "lock")
  /\ UNCHANGED <<mutex, keeper, mainLocal, vtnode, ghosts>>

\* view_tree_find: NULL, or the node of that view.
socket_thread_find(c) ==
  /\ pc[c] = "find"
  /\ vtnode' = [vtnode EXCEPT ![c] =
                  IF req[c].view \in Views THEN req[c].view ELSE NULL]
  /\ Go(c, "exec")
  /\ UNCHANGED <<mutex, keeper, mainLocal, req, nreq, ghosts>>

\* The reply is made from the tree and changes nothing: the list of views,
\* the statistics of one view, "view not find", or nothing at all (a key that
\* is unknown, or "views", together with a view that exists).
socket_thread_query(c) ==
  /\ pc[c] = "exec" /\ req[c].key # "flush"
  /\ Go(c, "unlock")
  /\ UNCHANGED <<mutex, keeper, mainLocal, clientLocal, ghosts>>

\* What view_tree_create finds in the count field, which it does not set:
\* the freed tree's count, when malloc hands the same block back, or other
\* old contents.
CountFound == {cnt} \cup Garbage

\* flush_stats: view_tree_destory, then view_tree_create.
socket_thread_flush(c) ==
  /\ pc[c] = "exec" /\ req[c].key = "flush"
  /\ tree' = [k \in Key |-> NULL]
  /\ lru' = <<>>
  /\ stat' = [o \in heap \ {tree[k] : k \in Views} |-> stat[o]]
  /\ cnt' \in CountFound
  /\ residue' = cnt'
  /\ evicted' = FALSE
  /\ Go(c, "unlock")
  /\ UNCHANGED <<mutex, mainLocal, clientLocal, raced>>

\* Unlock and write the reply.
socket_thread_unlock(c) ==
  /\ pc[c] = "unlock"
  /\ mlock' = FALSE
  /\ vtnode' = [vtnode EXCEPT ![c] = NULL]
  /\ req' = [req EXCEPT ![c] = NULL]
  /\ Go(c, "idle")
  /\ UNCHANGED <<stranded, keeper, mainLocal, nreq, ghosts>>

-----------------------------------------------------------------------------

log_handle == \/ log_handle_found \/ log_handle_create \/ log_handle_refused
              \/ log_handle_fits
              \/ \E m \in 0 .. Len(lru) : view_tree_set_memsize(m)
              \/ log_handle_count \/ log_handle_unlock

qps_thread == qps_thread_walk \/ qps_thread_unlock \/ qps_thread_wake

socket_thread(c) == \/ socket_thread_find(c) \/ socket_thread_query(c)
                    \/ socket_thread_flush(c) \/ socket_thread_unlock(c)

house_keeper_create ==
  start_command_handler \/ start_qps_thread \/ mutex_init

Next == \/ house_keeper_create
        \/ \E t \in Thread : mutex_lock(t) \/ futex_wake(t)
        \/ \E l \in Line : handle_string_log(l)
        \/ log_handle
        \/ qps_thread
        \/ \E c \in Client :
             \/ \E r \in Request : socket_thread_read(c, r)
             \/ socket_thread(c)

Spec == Init /\ [][Next]_vars

\* Every thread that can run does.  A thread that waits for the mutex, and is
\* not stranded, gets it if it is free again and again: the qps thread sleeps
\* ten seconds between two uses of it, and the other threads wait for input.
\* No stranded thread need ever be woken.
Fairness ==
  /\ WF_vars(house_keeper_create)
  /\ WF_vars(log_handle)
  /\ WF_vars(qps_thread)
  /\ \A c \in Client : WF_vars(socket_thread(c))
  /\ \A t \in Thread : SF_vars(mutex_lock(t))

FairSpec == Spec /\ Fairness

-----------------------------------------------------------------------------
(* Properties.                                                             *)

PCs == {"off", "start_command_handler", "start_qps_thread", "mutex_init", "idle",
        "lock", "find", "recycle", "count", "exec", "walk", "unlock", "sleep"}

TypeOK ==
  /\ pc \in [Thread -> PCs]
  /\ stranded \in SUBSET Thread /\ mlock \in BOOLEAN /\ raced \in BOOLEAN /\ evicted \in BOOLEAN
  /\ tree \in [Key -> Stat \cup {NULL}]
  /\ lru \in Seq(Key)
  /\ cnt \in Int /\ residue \in Int
  /\ heap \subseteq Stat
  /\ stat \in [heap -> [names : Seq(Name), ips : Seq(Name), lost : Nat, hits : Nat]]
  /\ line \in Line \cup {NULL} /\ phase \in {1, 2} /\ vs \in Stat \cup {NULL}
  /\ nread \in Nat /\ nreq \in Nat
  /\ req \in [Client -> Request \cup {NULL}]
  /\ vtnode \in [Client -> Key \cup {NULL}]

\* mlock keeps the threads apart unless house_keeper_create initialised it
\* while one of them held it; even then no more than two threads are ever
\* inside, although each of the two unlocks opens the door for a third.
LockDiscipline == Cardinality(Section) <= IF raced THEN 2 ELSE 1

\* The red-black tree and the LRU list of the view tree hold the same views,
\* each once, every view has statistics of its own, and no other statistics
\* are allocated: recycling and flushing neither leak nor free twice.
TreeMatchesLru ==
  ~raced => /\ ToSet(lru) = Views
            /\ IsInjective(lru)
            /\ heap = {tree[k] : k \in Views}
            /\ \A j, k \in Views : tree[j] = tree[k] => j = k

\* The count of the view tree is off by exactly the value that was in its
\* memory when it was created: right until the first flush, wrong by the
\* same amount from one flush to the next.
CountOffByResidue == ~raced => cnt = Cardinality(Views) + residue

\* While a view is in use it is not freed: what log_handle counts into, and
\* what socket_thread found, is still in the tree when it is used.  (With a
\* count that is too large recycling frees the view it is called for.)
InUseNotFreed ==
  ~raced /\ residue <= 0 =>
    /\ pc[main] = "count" => vs \in heap /\ vs = tree[ThisKey]
    /\ \A c \in Client :
         pc[c] = "exec" /\ vtnode[c] # NULL => vtnode[c] \in Views

\* There is nothing to drop any more but what the last line brought: the only
\* view is made of entries that are on no list.
NothingToDrop ==
  \E k \in Views : Views = {k} /\ Len(stat[tree[k]].names) <= 1 /\ Len(stat[tree[k]].ips) <= 1

\* With a right count, the accounted size exceeds mem_uplimit by no more than
\* the parts of the last view that trimming does not count (the tree and the
\* view's node) and the name and address of one line, until the entries that
\* name_tree_delete does not find are all that is left: these are never freed,
\* and the size grows with them.
MemoryBound ==
  ~raced /\ residue = 0 /\ pc[main] # "recycle" =>
    view_tree_get_size <= Limit + BaseCost + NodeCost + 4 \/ NothingToDrop

Totals == {l.total : l \in Line}
ViewsOf(t) == {l.view : l \in {m \in Line : m.total = t}}
Hits == [k \in Key |-> IF tree[k] = NULL THEN 0 ELSE stat[tree[k]].hits]

\* The line under way is counted for its view and not yet for its total.
HalfCounted(t) ==
  /\ line # NULL /\ line.total = t
  /\ \/ phase = 1 /\ pc[main] = "unlock"
     \/ phase = 2 /\ pc[main] \in {"lock", "find", "recycle", "count"}

\* Until recycling drops a view, the total of a zone is at least the sum over
\* its views, wherever a flush falls between the two calls of log_handle for
\* a line; only the line under way may be missing.
TotalsCover ==
  ~raced /\ ~evicted =>
    \A t \in Totals :
      SumFunctionOnSet(Hits, ViewsOf(t) \cap Views)
        <= Hits[t] + IF HalfCounted(t) THEN 1 ELSE 0

\* Every line that was read is counted in the end, and every request that was
\* read is answered: no path through log_handle keeps the mutex.  Not so when
\* the mutex was initialised while a thread held it.
AllServed == \A t \in Client \cup {main} : pc[t] = "lock" ~> pc[t] = "idle" \/ raced
=============================================================================
