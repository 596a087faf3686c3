# logstats: a verification project

logstats counts the queries of a DNS server.  A daemon written in C
(`src/src`) follows the server's query log and keeps, for each view and for
all views of a zone together, how often every domain name, client address,
record type and response code was seen.  A web server written in Python 2
(`src/webserver`) asks the daemon over TCP, saves its counts to sqlite every
hour, and serves both to browsers.

The repository has no documentation of its own; the models are translated
from the code, and the tests under `src/src/test` and the comments are what
the findings are measured against.

## The system

| Part | Source | State | Operations |
|---|---|---|---|
| Log tail | `main.c`, `handle_string_log` | file, position, inode | open, read a line, take it apart, look for a rotation |
| View statistics | `log_view_stats.c` | counters of types and codes, two name trees | count, reply, recycle |
| House keeper | `log_topn.c`, `log_view_tree.c`, `log_view_stats.c` | mutex, view tree with its LRU list and count, statistics of each view | count a line, recycle memory, answer, flush, compute rates |
| Name tree | `log_name_tree.c` | red-black tree, slots, LRU list, heap of 1000 | insert, delete, recycle |
| Top-N heap | `log_heap.c` | array, `heap_index` in the elements | insert, replace, sift, delete, sort |
| Red-black tree | `dig_rb_tree.c` | nodes, one sentinel shared by all trees | insert, delete, search, walk |
| LRU list | `zip_lru_list.c` | header, tail, links, count | insert, move to front, remove tail, delete, destroy |
| Memory pool | `dig_mem_pool.c` | blocks, free list, mutex | create, allocate, grow, free, delete |
| Statistics client | `logser_client.py`, `zip_socket.c` | mutex, connection, retries | send a request, reconnect |
| History | `log_server.py`, `db_handler.py` | round, clock, hourly and daily tables | save, flush, commit, report |

How they interact:

* The daemon has a main thread (log tail, then `log_handle` twice for every
  line: once for its view, once for the total `*$zone`), a `qps_thread` that
  walks the view tree every ten seconds, a `command_handler` that accepts
  connections, and a `socket_thread` per connection.  They share the view tree
  under `mlock`.
* A view's statistics hold two name trees, for names and addresses.  A name
  tree combines a red-black tree, a pool, an LRU list and a heap; the view tree
  combines a red-black tree and an LRU list.
* When the accounted memory exceeds `mem_uplimit` (10 MB; a young view takes
  about 160 KB), `log_handle` drops the least recently used views, and trims
  the names of the last one.
* The web server has one `Log_analy` with one connection; its request handlers
  and `StatsThread` share it under a mutex.  `StatsThread` saves and then
  flushes the daemon.

What is hard: two threads start before the mutex they use is initialised, and
the initialisation forgets who sleeps on it; views and names are freed while
other structures still point to them; a line is counted in two critical
sections; the log is rotated between `fopen`, `lstat` and `fgets`; replies come
late, and a client that gave up makes the daemon write to a closed socket; the
web server ends between the two sends of a request; saving, flushing and
committing are three steps that can fail one by one, and a report is read in
three steps between them.  `PROJECT.json` lists these as hazards, at their
lines.

What makes each part correct, in short: the tail reads each line once and in
order and loses only what it must; the mutex excludes, and tree, list, count and
statistics agree; a name tree counts right and forgets in LRU order; the heap is
put out of order by nothing but a name that sinks, and `heap_index` is exact;
the tree keeps the red-black rules and its sentinel; the list's links are right
and nothing leaks; the pool never hands an element out twice; a caller gets its
own reply, of a request that was executed once; a query is in one hour's row; a
long report counts no hour twice and says what it misses.

## The modules

| Module | Models | Remarks |
|---|---|---|
| `LruSpec` | what an LRU list promises | abstract specification |
| `LruList` | `zip_lru_list.c`, pointer by pointer | implements `LruSpec` |
| `LruListProofs` | | proofs |
| `HouseKeeper` | the daemon's threads around `struct house_keeper` | one action per stretch of code another thread can tell apart |
| `HouseKeeperProofs` | | proofs |
| `LogHeap` | `log_heap.c` as operators on a pair of array and `heap_index` fields; a loop is the route it takes through the array | used by `HeapCalls` and `NameTree` |
| `HeapCalls` | one call on any heap in order, or on any heap at all if counts are far apart | the operators' own properties |
| `NameSpec` | what a name tree promises: how often each name was seen, and which names were seen since | abstract specification |
| `NameTree` | `log_name_tree.c` over slots, LRU list and heap, and the recycling loop of `view_stats_set_memsize` | implements `NameSpec` |
| `HeapProofs` | | proofs about `LogHeap`, `HeapCalls` and `NameTree` |
| `RbTree` | `dig_rb_tree.c`, pointer by pointer; a loop is a recursive function of what it changes | |
| `RbTreeProofs` | | proofs |
| `MemPool` | `dig_mem_pool.c` with several threads | |
| `MemPoolProofs` | | proofs |
| `CallSpec` | what a connection promises: one request at a time, executed once at most, answered or given up | abstract specification |
| `StatsClient` | `_send_request` and the socket threads it talks to | implements `CallSpec` |
| `StatsClientProofs` | | proofs |
| `ViewStats` | the tables of types and codes, counters and replies of `log_view_stats.c` | used by `LogTail` |
| `LogTail` | `main.c`, `handle_string_log`, and the counters a line ends in | composes with `ViewStats` |
| `LogTailProofs` | | proofs |
| `History` | `SetHandler.post`, `StatsThread`, its tables, and a handler that reads a long report | |
| `HistoryProofs` | | proofs |
| `MCHouseKeeper`, `MCLruList`, `MCMemPool`, `MCNameTree`, `MCLogTail`, `MCHistory` | | small values for TLC |

Actions carry the names of the functions they stand for; a function another
thread or a crash can interrupt is cut into actions named after its steps
(`log_handle_found`, `mem_pool_alloc_lock`, `_send_request_recv`).
`PROJECT.json` maps every definition to its lines.  A definition whose comment
begins with "Mutant:" is the form a plausible bug would give the definition
below it; nothing uses it, and each shows that one property can fail.

Choices that need a word:

* `HouseKeeper` counts memory in units: an entry of a name tree is one unit in
  the tree and one in the LRU list, the fixed parts are constants.  A name tree
  is there just its LRU list of names and the number of entries only the tree
  has (`lost`): what its heap does is `NameTree`'s subject.  A name of `Overrun`
  is one of 31 characters: it is inserted anew each time, and when
  `view_stats_set_memsize` takes it off the list `name_tree_delete` does not
  find it, so that it stays in the tree and is accounted for ever.
  `view_stats_create` lacks its `return`; the build (gcc, no optimisation)
  leaves the pointer in the return register, and so does the model.  The `count`
  field of a new `view_tree_t` is never set: its value is that of the tree just
  freed or a value of `Garbage`.
* The mutex of `HouseKeeper` is its word (`mlock`) and the threads asleep on it of
  which the word says nothing (`stranded`): `pthread_mutex_init` comes after the
  threads were started and clears the word, whoever sleeps.  The unlock to come
  wakes none of these; one may be woken when another thread contends for the mutex
  (`futex_wake`), and need not be.
* `NameTree` keeps a freed slot's fields, as the pool does.  A name of exactly
  `MAX_NAME_LEN - 1` characters overruns its buffer by one byte; what the model
  keeps of it is that the name is not found again.
* `RbTree` treats the shared sentinel as an ordinary node, so that a stray write
  to it shows.
* `MemPool` lets users write anything that reads as a link (`Junk`) into an
  element, and fails malloc at any growth.
* `SignBit` is the bit of a count that `elem_compare` takes for the sign, 2^31 in
  the build; nothing in the proofs depends on its size.  `HeapCalls` starts from
  every heap in order, and from every heap at all whose counts are so far apart that
  their difference has that bit (`Narrow` tells the two apart).  In `NameTree` the
  counts stay below it (`MaxInserts < SignBit`).
* A heap index is 0 in the model where it is -1 in the code, and arrays begin at 1.
* `NameTree` keeps two ghost variables: `recycled`, whether a slot was ever
  given back, and `sunk`, whether a new name ever sank in the heap (`Sinks`: the
  grandparent of the place it starts from was seen more often).
* `StatsClient` numbers requests in the order they get the mutex.  A request and
  a reply are two parts each, length and body, sent and read in steps of their
  own.  The kernel is external: data to a closed connection is dropped, or
  SIGPIPE ends the daemon.  The web server may die anywhere in its calls; its
  end and its start again, and whoever starts the daemon again, are external.
  A part arrives whole or not at all.
* `LogTail` cuts a line into three pieces; `Log` says for each line what type,
  code and zone it has and which tokens its pieces reach, and the name server
  may stop writing after any piece.  `handle_string_log` counts tokens from the
  start of what was read: the rest of a line that was cut inside its first token
  (the date) has all its tokens in their places and is taken for a whole line;
  the rest of one that was cut later has another token where the view should be,
  which does not end in a colon.  The variable `sticky` says whether the C
  library keeps the end-of-file flag, as glibc does since 2.28 and the code
  (2015) does not expect.  The counters are those of the view of all lines.
* `History` numbers the queries; a row holds the set of those it counts.  A
  reply of the daemon has `RECORD_NUM` names at most, and every query may have a
  name of its own. (The replies for types and codes are not cut.  That daily
  rows and reports are cut at `RECORD_NUM` names once more is left out: they
  hold hours.)  The daemon is reduced to its counts since the last flush.
  Recycling may drop any of them before a query is counted; that the view being
  counted is kept is `InUseNotFreed` of `HouseKeeper`.  A flush whose caller
  gave up after three seconds may be executed later (`pending`, `flush_stats`).
  A report has two dates, the bounds of its queries; it holds the rows it has
  read, and takes less time than `run` sleeps, so that it meets one round of
  saves at most.

## The runs

| Run | Configuration | Bounds | Shows |
|---|---|---|---|
| `lru_list` | `MCLruList` | 3 nodes, 2 data | links, reachability, count, no leak, refinement of `LruSpec` |
| `house_keeper_safety` | `MCHouseKeeper` | 2 clients, 4 lines, 2 requests, 3 statistics | mutex, tree against list and count, totals against views |
| `house_keeper_live` | `MCHouseKeeperLive` | 1 client, 4 lines, 2 requests | every line read is counted and every request read is answered, unless the initialisation of the mutex raced; memory bound, with names that overrun |
| `heap_calls` | `HeapCalls` | heaps of up to 7, counts from 1 to 5, differences of 3 and more wrap | order, elements, `heap_index`, sorting; wrapping differences |
| `name_tree` | `MCNameTree` | 7 insertions, 5 names, heap of 4 | slots, heap and its order, top-N replies, refinement of `NameSpec`, recycling ends |
| `name_edge` | `MCNameTreeEdge` | | finding |
| `rb_tree` | `RbTree` | 10 keys | red-black rules, links, asserts, walk, sentinel |
| `mem_pool` | `MCMemPool` | 2 threads, 3 elements, 3 blocks | no sharing, nothing lost, NULL justified, calls return |
| `client` | `StatsClient` | 2 callers, 3 requests, 2 connections, 1 crash of the web server | own reply, refinement of `CallSpec`, what kills the daemon, calls return, threads of dropped connections end |
| `log_tail` | `MCLogTail` | 2 logs of 2 lines, 3 files | order, loss, what kills the daemon, replies, rotations noticed, reading goes on |
| `log_type` | `MCLogTailTypes` | | finding |
| `history` | `MCHistory` | 2 views, 2 queries, 4 rounds, 2 days, 3 dates, 1 failure or recycling | saved in one hour, nothing lost unnamed, long reports count no hour twice, and what they miss |

Why the bounds are enough.  Three list nodes give a first, an inner and a last
one, the cases the code tells apart.  Ten keys reach every branch of
`rbtree_delete_fixup` and every asymmetric case, and trees of five levels. Heaps
of seven have three full levels; the sort's special case at length two occurs on
the way, and counts from one to five with `SignBit` three give differences with
and without the sign bit.  In `MCHouseKeeper` the limit lets two young views
live together and not two older ones, and one total outgrow it alone, so that
dropping, trimming and the last view that may not be dropped all occur.
`MCHouseKeeperLive` has a lower limit, at which the four lines can fill a view
with entries that cannot be deleted until it outgrows its bound. `MCNameTree`
has one name more than the heap has room for and slots that are recycled while
they are in the heap.  A heap of three has no grandparents; with four and seven
insertions a name sinks below one seen twice, and the heap is full without that.
Three files let one rotation be missed and the next be noticed.  In `MCHistory`
four rounds with an hour of one round and a day of two hold two daily saves,
with hours before, between and behind them, and the three dates give reports
that begin or end before, between and after these; one failure is a late flush,
a restart or a lost reply in any of them; two queries are enough for two rows
that share one, a row that lacks one, and a reply of one name that leaves one
out. The lines of `MCLogTail` have a type and a code in and out of the tables, a
line without a zone, and cuts within the first token, before the code, before
the zone and within it; two lines of one type are counted together.  The two
views of `MCHistory` are symmetric: nothing in `History` tells views apart.
MaxLines, MaxRequests, MaxInserts, MaxBlocks, MaxCalls, MaxConn, MaxLine,
MaxFile, MaxQuery, MaxTimes, MaxDelay, MaxFail, MaxCrash, MaxLen and MaxCount
are bounds of the runs and nothing in the code.  Where a run ends for want of
these (or the log is no longer written, the daemon has died, or the calls are
over) the configuration says `CHECK_DEADLOCK FALSE`.  In `HouseKeeper` the qps
thread would go on for ever without lines and requests, unless it is stranded.

### Fairness

Threads run: each has weak fairness on its steps.  Getting a mutex is strongly
fair in `HouseKeeper`, `MemPool` and `StatsClient`: its holders leave it after a
bounded piece of work and sleep ten seconds or wait for input before they want
it again, so that a waiting thread gets its turn.  In `HouseKeeper` this holds
for threads that are not stranded only, and `futex_wake` has no fairness:
`AllServed` is claimed only where the initialisation did not race.  Nothing is
assumed of clients, the name server, rotations, failures and restarts.

### What the properties say

Most modules have a type invariant `TypeOK`.  Where a stronger invariant of the
module needs it (`PoolSound`, `LinksRight`, `OwnReply`, `InOrderOnce`,
`Accounted`) it is a conjunct of that; those of `LruList`, `HouseKeeper`, `RbTree`,
`MemPool`, `StatsClient`, `LogTail` and `History` are proved.

The list's refinement `ImplementsLruSpec` and the name tree's
`ImplementsNameSpec` say that the pointer and slot manipulations have the effect
an abstract list or counter has, and name the effect each call must have
(`CallsMatch`): a step that does nothing would also refine.  `KeepsOrder` states
exactly when `heap_insert` breaks the heap: it compares a parent with the old
entry of the hole, so that a new element rises one level at most.  In a name
tree a new name has the count one and stays below grandparents seen more often.
`HeapSound` says that nothing but such a name puts the heap out of order, `TopN`
what a reply is worth until then; afterwards an eviction need not take the name
seen least.  `CountOffByResidue` says how wrong the view tree's count is, and
`InUseNotFreed` what that costs: with a count too large, recycling frees the
view it is called for.  `MemoryBound` gives the distance by which the accounted
size exceeds `mem_uplimit`, and the one case in which there is none: one view is
left and nothing on its lists but the last line (`NothingToDrop`), the rest
being entries of overrun names, which grow with every such line.
`LostOnlyIfLate` names all that the log tail can lose, `KilledByLine` all that
kills it, `Accounted` and `InOneHour` all the ways in which a query is lost
from, or twice in, the history.  A query is lost when it came while its hour was
being saved, was dropped by recycling, was behind `RECORD_NUM` in its hour, when
a request for it was not answered, when a flush its caller had given up was
executed later, or when one of the two programs was started again.
`ReportMisses` says that an hour between the dates of a report that was saved
before the report was begun is missing from it in three cases only: its day was
saved while the report was read, the last day of some view was saved after it
without it, or the row of its day is stamped at or after the end of the report.
`ImplementsCallSpec` says that a request is executed once at most and, when its
caller got no answer, perhaps after later ones; `KilledByGivenUp` that nothing
in the exchange of requests and replies kills the daemon but a request whose
caller is gone (what its statistics may do to it is the subject of
`HouseKeeper`, `NameTree` and `LogTail`).  `RepliesMatch` relates the counters
to the lines all of whose tokens were read at once, however the log was cut into
reads.

## Findings

* **Names of 31 characters** (`name_edge`): accepted, overrun by one byte,
  never found again; each insertion adds an entry.
* **Unknown record types** (`log_type`): a comma is missing behind "SPF", so
  the twelfth entry of `RTYPE` is NULL, and a query whose type is not in the
  table ends the daemon where it should count as OTHER.

More oddities are part of properties that hold, which name them exactly:

* The count of a new view tree is never initialised and survives a flush:
  `CountOffByResidue` says by how much it is wrong, `InUseNotFreed` that a count
  too large, and nothing else, lets recycling free the view in use.
* A pool whose first malloc failed has an element count of zero and grows by
  nothing for ever after: the case `elem_count = 0` of `NullJustified`.
* `heap_replace_least` leaves the `heap_index` of the name it evicts, and a name
  with an index is taken for one in the heap: it never comes back into the top-N,
  however often it is seen (`TopN`).
* A new name that sinks (`sunk`) leaves the heap out of order for good: from then on
  names seen more often may be evicted before it and top-N replies are wrong
  (`KeepsOrder`, `HeapSound`).
* `heap_min_less_than` and `heap_replace_least` disagree on a count exactly 2^31
  away from the least: nothing is replaced (`Opposite` in `KeepsElements`).
* A line without an eighteenth token kills the daemon; the line in the comment of
  `handle_string_log` is one (`KilledByLine`).  A line that main reads up to the
  middle of its zone is counted for a view of that name (`RepliesMatch` leaves
  such lines out).  The rest of a line that was cut in its first token is
  counted, or kills the daemon, like a line (`Whole`, `KilledByLine`).
* Entries of names of 31 characters cannot be recycled: a view full of them is
  emptied of everything else at every line, and the memory they are accounted
  for grows without bound (`MemoryBound`).
* A thread that waits for the mutex while it is initialised may wait for ever
  (`AllServed`).
* A report over more than five days takes the hours since the last daily row of
  any view: a view nobody asked in the last hour of the day has no daily row,
  and its whole day is in no such report (`ReportMisses`; no failure is needed).
  One that ends within a day misses that day's hours before its end, as the
  day's row is stamped with the day's end; and one that begins after the last
  daily row counts the hours between that row and its beginning as well.
* `SetHandler.post` sets the path before it opens the database: when that fails,
  every later post is a "dup" and nothing is saved until the web server is
  started again (the state `dup` of `History`).

## What is proved

TLAPS proves these for every value of the constants.  Induction over data is out of
the provers' reach, but every use of it here is the existence of a least
counterexample, which well-foundedness of the naturals gives: each module that
needs it starts from a lemma on the least number with a property (`LeastIs`).

* `LruListProofs`: `TypeOK`, and `ListSound`, which joins `Linked`, `Reachable`,
  `CountIsLength` and `NoLeak`.  The inductive invariant is their conjunction
  with `Closing`, which says what holds while `lru_list_destroy` walks the list:
  the loop variable is the header, links stay inside the nodes that are left, no
  two of them meet and none leads back.  Without it the destruction of a list
  could not be shown to free everything.  `NullAssumption` is all it needs.
  `ImplementsLruSpec`: the list read from the links (`Order`) changes as
  `LruSpec` says with every call; its invariant adds that there is such a list
  (`HasOrder`).
* `HouseKeeperProofs`: `LockDiscipline` from `LockInv`, which counts: the
  threads inside are at most the mutex word plus one for the initialisation
  race; which threads are stranded matters to none of these proofs (`Steps`).
  `TypeOK`, `TreeMatchesLru` and `CountOffByResidue` from `TypeInv` and
  `TreeInv` over every recycling loop and flush, the loop of
  `view_tree_set_memsize` being treated as dropping a suffix of the list.
  `InUseNotFreed` from `UseInv`, which ties the view `log_handle` holds to the
  head of the LRU list, which recycling reaches last.  `MemoryBound` from
  `BoundInv`: the tree is within its bound before a line is counted and four
  units beyond it at most afterwards, or one view is left, with empty lists
  before and one name and one address after it (`Bare`); it needs what counting,
  dropping and trimming do to the sum over all views (its lemmas on sums), and
  `CostAssumption`.  `TotalsCover` from `CoverInv`: no key in the tree is too
  long (`NoLong`), the view that is counted is that of the line (`CountUse`),
  and a zone's views were counted no more often than its total, or once more
  between the two critical sections of a line (`Covered`).  It needs
  `ZoneAssumption`: a key is a view's or a zone's, and a view's key names its
  zone.
* `HeapProofs`, in three layers.  `LogHeap`: every loop of `log_heap.c` is a
  route through the array, each position the parent or a child of the last; that
  a route visits a position once and ends is shown for arrays of any length
  (`VisitedIs`, `RouteIs`), and from it what the array and the `heap_index`
  fields hold afterwards (`MovedIs`, `IndexedIs`), when it is in order
  (`SiftOrders`, `RiseOrders`) and that `heap_sort` sorts (`SortIs`).
  `HeapCalls`: all four properties for heaps of any size and counts of any
  width, from `HeapInv`.  `NameTree`: `PoolSound`, `HeapSound`, `TopN` and
  `ImplementsNameSpec` from `TreeInv`.  `SlotsKept` says that the slots of the
  tree and of the free list are the first ones of the pool, each once;
  `NamesKept` that a name that fits is in the tree once and that an overrun one
  was counted exactly once, since it cannot be found, so that it stays overrun;
  `HeapKept`, `HeapOnce` and `HeapOrder` what the heap is at any time, until
  names are recycled, and until a name sinks.  The last also says that a name
  with no `heap_index` was not seen more often than the root, which is why a
  full heap may leave it out; it is inductive because the count of the root
  never falls (`RootRises`).  The refinement maps each name to its place in the
  LRU list (`Shows`).  Needed are `NameAssumption`, `SizeAssumption` and
  `SignBitAssumption`, for `HeapCalls` also `CountAssumption`.
* `RbTreeProofs`: all three properties of `RbTree`, for any finite set of keys,
  from one invariant, `RedBlackTree`.  It is stated without paths: `sub[x]` is
  the set of the nodes below and at `x`, which `x` divides between its children
  by their keys (`Divided`), and `bh[x]` the number of black nodes on every path
  from `x` down (`Even`).  A rotation changes `sub` and `bh` at two nodes, so
  that a repair is argued about where it takes place.  Within an operation the
  invariant does not hold; what does is `Fixing` (one red node may be the root
  or have a red parent) in every round of `rbtree_insert_fixup`, and `Lacking`
  (one child is a black node short) in every round of `rbtree_delete_fixup`;
  both repairs end because a round goes up and `sub` has a highest node.
  `rbtree_delete` exchanges a node with two children for its successor by
  rewriting the pointers around both: this is shown to give the same tree with
  two nodes renamed (`SwapIs`), in which each is counted with the other's key
  until one of them is cut out (`Labels`, `CutShape`).  It also leaves the
  fields of that node as they are until the repair is over; the lemmas on
  `Aside` show that the repair never reads them.  That a loop does its work and
  ends is said once (`Loop`), and so is what a recursion over a tree yields
  (`Fold`). `KeyAssumption` is all it needs.
* `MemPoolProofs`: `TypeOK`, `Exclusive`, `FreeListExact`, `NullJustified` for
  any number of threads and any data written over the links.  The invariant
  adds mutual exclusion, what the local variables of a call still mean
  (`Locals`), what a pool that does not exist has (`Dead`), and that blocks are
  numbered without gaps (`Blocks`).  That a fresh block is threaded by
  `fill_free_list` needs the least element a subset does not hold: the lemma
  `Least`, from the well-foundedness of the naturals.
* `HistoryProofs`: all four properties of `History`, each from the part of the
  invariant it needs.  `Accounted` from `KeptInv`: what the flush of a round
  would throw away is saved, will be saved before it, or its request failed
  (`FlushSafe`); what recycling and late flushes throw away is named when they
  do. `InOneHour` from `OnceInv`: the daemon counts a query in one view
  (`Apart`), what is saved and still counted was not flushed (`SavedAgain`), and
  no row is of the future (`Past`).  `ReportedOnce` and `ReportMisses` from
  `ReportInv`. Its hard part is that two days of a view share no hour, since a
  day takes the hours of the last `ONE_DAY_TIME` by the clock and is saved by
  the count of rounds: `Behind` says that each day was saved in a round whose
  number is a multiple of the rounds of a day, and that each round since then
  took `FLUSH_TIME` at least.  The rest says what the queries of a report have
  read. `TimeAssumption` and `BoundAssumption` are needed; that a set of daily
  rows has a last one comes from the well-foundedness of the naturals.
* `StatsClientProofs`: `OwnReply`, `KilledByGivenUp` and the refinement
  `ImplementsCallSpec`, for any number of callers and connections.  All three
  follow from `ClientInv`.  `OneCall` says that the mutex excludes, `CallerSound`
  what a caller knows of the parts on its line at each step of its call,
  `ConnSound` that a connection holds one request at most, which is not executed
  yet and is the one under way or given up, and `LineSound` that a connection
  that will be used again is quiet.  The last is why no late reply is taken for
  another's, and it holds because every exception drops the connection.
  `Distinct` (no request is on two connections) makes a request executed once at
  most.  The lemma `Mapped` says what the mapping gives where at most one caller
  is in its call; with it each action is a step of `CallSpec` or a stutter.
  `BoundAssumption` is all it needs.
* `LogTailProofs`: all four safety properties of `LogTail`, for any log, any
  number of files and any rotations.  `InOrderOnce` from `TailInv`: a file holds
  the pieces written between two rotations one after another (`Contiguous`), a
  newer file newer pieces (`Ordered`), what is left to read is newer than what
  was handled (`Newer`), and main opens the log again only if its name stands
  for another file (`Opening`), although it compares inodes that it asked for by
  name.  `LostOnlyIfLate` adds that what is left of a file main has come to the
  end of came late (`AtEnd`).  `KilledByLine` follows from the handling of one
  line or rest of a line.  `RepliesMatch` from `CountSound`: the arrays count
  the lines of `Whole` by their index; a line is counted once because of
  `InOrderOnce`, and an index tells a name because no name is in a table twice.
  `BoundAssumption` and `LogAssumption` are needed.

Only model-checked: liveness (`AllServed`, `RecyclingEnds`, `CallsReturn`,
`ThreadsEnd`, `RotationNoticed`, `ReadsOn`), which rests on fairness and ENABLED.

## What is not modelled

* Message encoding: generated protobuf code.
* `zip_addr.c`, `log_utils.c`, and of `zip_socket.c` all but reading and
  writing: wrappers of system calls.
* `adlist.c`, `dig_radix_tree.c`, `dig_ring.h`: nothing calls them.
* The HTTP handlers other than `SetHandler`: each passes one query on and renders
  the answer.
* The rates (the count they come from is never incremented, so that they are
  constants), how replies are packed, the rates of network cards, the averages
  in the tables and how they are thinned for display.
* View names of exactly 64 characters, which overwrite a byte of a pointer.
* `return_all_views` allocates as many pointers as the view tree's count says and
  writes one for each view: a count that is too small, as old memory may leave it
  (`CountOffByResidue`), overruns that buffer.  The model's reply changes nothing.
* malloc failing outside the list and the pool, and lines longer than the
  read buffer.

## Plan

Done in this order: LRU list, house keeper, heap and name tree, red-black tree,
pool, client, log tail, history; then the tables of `log_view_stats.c` behind the
log tail, the two sends and the crash of the web server with `CallSpec`, wrapping
counts and the top-N reply, and the long reports; then the proofs about the
client, the history and the log tail; then those about the memory bound and the
totals of the house keeper, the refinement of the LRU list, the heap and the name
tree; last those about the red-black tree.  Still to do:

1. An abstract daemon (counts per view, flush, query) that `HouseKeeper`
   implements as long as nothing is recycled, and `History` composed with it and
   with `CallSpec` instead of its own failures.
2. The half-hour averages as windows on the clock, and the thinning of points.
