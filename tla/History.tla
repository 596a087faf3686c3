------------------------------ MODULE History ------------------------------
(***************************************************************************)
(* What becomes of the counts: StatsThread of log_server.py asks the       *)
(* daemon for them every five minutes, saves them to the tables of         *)
(* db_handler.py every hour and every day, and flushes the daemon, while a *)
(* handler of the web server reads a report of those tables.               *)
(*                                                                         *)
(* A query is a number, given in the order the daemon counts them, and a   *)
(* row holds the set of queries it counts: the rows of the top-N tables,   *)
(* where every query may have a name of its own.  (The rows of rcode and   *)
(* rtype are the same without the cut at RECORD_NUM.)  The row of a day    *)
(* and a report hold the hours they add up; that they are cut at           *)
(* RECORD_NUM names once more is left out.  The averages of every five and *)
(* thirty minutes and the deletion of rows older than ninety days are      *)
(* steps that may raise an exception; their data is left out.  Time is in  *)
(* units of which FLUSH_TIME and the other periods are multiples.          *)
(***************************************************************************)
EXTENDS Naturals, FiniteSets, FiniteSetsExt

CONSTANTS
  View,
  FLUSH_TIME, ONE_HOUR_TIME, ONE_DAY_TIME, RECORD_NUM, \* of log_server.py
  TIME_INTERVAL, \* of db_handler.py: a report of less reads the hourly rows only
  Dates,     \* bound: the dates reports are asked for
  MaxQuery,  \* bound: queries counted
  MaxTimes,  \* bound: rounds of StatsThread
  MaxDelay,  \* bound: what a round takes longer than FLUSH_TIME
  MaxFail    \* bound: failures of any kind, and recyclings

ASSUME TimeAssumption ==
  /\ FLUSH_TIME \in Nat \ {0}
  /\ ONE_HOUR_TIME \in Nat \ {0} /\ ONE_HOUR_TIME % FLUSH_TIME = 0
  /\ ONE_DAY_TIME \in Nat \ {0} /\ ONE_DAY_TIME % FLUSH_TIME = 0

ASSUME BoundAssumption ==
  /\ MaxQuery \in Nat /\ MaxTimes \in Nat /\ MaxDelay \in Nat /\ MaxFail \in Nat
  /\ Dates \subseteq Nat /\ RECORD_NUM \in Nat /\ TIME_INTERVAL \in Nat

VARIABLES
  counts,     \* the daemon: the queries it counted since the last flush, by view
  pending,    \* flushes whose caller gave up and that the daemon may still execute
  nquery,     \* queries so far
  pc,         \* where run is
  times, first, timestamp, views, \* of StatsThread
  today,      \* the clock
  todo,       \* the views left in the loop run is in
  hourly, daily,   \* rows of the hourly and of the daily tables
  uncommitted,     \* which of them are not committed
  report,     \* the report a handler is reading
  nfail,
  unflushed,  \* ghost: timestamps of saves that no flush followed
  noreply,    \* ghost: views the daemon was asked for in vain in this round
  missed,     \* ghost: queries that may be missing from the tables
  old         \* ghost: the rows there were when the report was begun

clock == <<today, times, first>>
tables == <<hourly, daily, uncommitted>>
ghosts == <<unflushed, noreply, missed>>
reader == <<report, old>>
vars == <<counts, pending, nquery, pc, clock, timestamp, views, todo, tables, nfail, ghosts, reader>>

NoReport == [at |-> "idle", view |-> {}, v_date |-> 0, v_end |-> 0, long |-> {},
             latest |-> 0, recent |-> {}]
NoRows == [hours |-> {}, days |-> {}]

Init ==
  /\ counts = [v \in View |-> {}] /\ pending = 0 /\ nquery = 0
  /\ pc = "off" /\ times = 0 /\ first = TRUE
  /\ today = ONE_DAY_TIME /\ timestamp = 0
  /\ views = {} /\ todo = {}
  /\ hourly = {} /\ daily = {} /\ uncommitted = {}
  /\ nfail = 0 /\ unflushed = {} /\ noreply = {} /\ missed = {}
  /\ report = NoReport /\ old = NoRows

Goto(l) == pc' = l
Fail == nfail < MaxFail /\ nfail' = nfail + 1

\* Seconds dropped, and the minutes to a multiple of five.
whole_point(t) == t - (t % FLUSH_TIME)

Every(period) == times % (period \div FLUSH_TIME) = 0

-----------------------------------------------------------------------------
(* The daemon.                                                             *)

\* Those of some queries that are in no hour's row.
Unsaved(ids) == {q \in ids : \A r \in hourly : q \notin r.ids}

Cleared == [v \in View |-> {}]
Counted == UNION {counts[v] : v \in View}

\* What the memory limit may leave of the counts: whole views and, if the count
\* of views is one, right or wrong, names of one of them are dropped.
Recycled == {left \in [View -> SUBSET Counted] : \A v \in View : left[v] \subseteq counts[v]}

\* log_handle recycles memory before it counts.  A query that comes while its
\* hour is being saved may not be saved.
query(v) ==
  /\ nquery < MaxQuery
  /\ nquery' = nquery + 1
  /\ \E left \in Recycled :
       /\ \/ left = counts /\ UNCHANGED nfail
          \/ left # counts /\ Fail
       /\ counts' = [left EXCEPT ![v] = @ \cup {nquery + 1}]
       /\ missed' = missed \cup Unsaved(UNION {counts[w] \ left[w] : w \in View})
                           \cup (IF pc \in {"averages", "hour", "flush"} THEN {nquery + 1} ELSE {})
  /\ UNCHANGED <<pending, pc, clock, timestamp, views, todo, tables, unflushed, noreply>>

\* A flush is executed whose caller gave up three seconds after sending it.
flush_stats ==
  /\ pending > 0 /\ pending' = pending - 1
  /\ counts' = Cleared
  /\ missed' = missed \cup Unsaved(Counted)
  /\ UNCHANGED <<nquery, pc, clock, timestamp, views, todo, tables, nfail, unflushed, noreply>>

restart_daemon ==
  /\ Fail
  /\ counts' = Cleared /\ pending' = 0
  /\ missed' = missed \cup Unsaved(Counted)
  /\ UNCHANGED <<nquery, pc, clock, timestamp, views, todo, tables, unflushed, noreply>>

-----------------------------------------------------------------------------
(* StatsThread.run.                                                        *)

\* SetHandler.post: the thread is started, or the database cannot be opened:
\* every later post finds the path set and is a "dup".
post ==
  /\ pc = "off"
  /\ \/ Goto("get_views") /\ UNCHANGED nfail
     \/ Goto("dup") /\ Fail
  /\ \E d \in 0 .. MaxDelay : today' = today + d
  /\ UNCHANGED <<counts, pending, nquery, times, first, timestamp, views, todo, tables, ghosts>>

\* Mutant: the views are asked for once.
get_views_Once ==
  /\ pc = "get_views"
  /\ \/ views' = (IF first THEN {v \in View : counts[v] # {}} ELSE views) /\ noreply' = {} /\ UNCHANGED nfail
     \/ views' = {} /\ noreply' = View /\ Fail
  /\ timestamp' = whole_point(today)
  /\ Goto("averages")
  /\ UNCHANGED <<counts, pending, nquery, clock, todo, tables, unflushed, missed>>

\* get_views, and the time of this round.
get_views ==
  /\ pc = "get_views"
  /\ \/ views' = {v \in View : counts[v] # {}} /\ noreply' = {} /\ UNCHANGED nfail
     \/ views' = {} /\ noreply' = View /\ Fail
  /\ timestamp' = whole_point(today)
  /\ Goto("averages")
  /\ UNCHANGED <<counts, pending, nquery, clock, todo, tables, unflushed, missed>>

\* Where run goes once the hour is dealt with.
AfterHour == IF Every(ONE_DAY_TIME) THEN "day" ELSE "commit"

\* save_five_minute_data and save_half_hour_data.
save_averages ==
  /\ pc = "averages"
  /\ todo' = views
  /\ Goto(IF first THEN "finally" ELSE IF Every(ONE_HOUR_TIME) THEN "hour" ELSE AfterHour)
  /\ UNCHANGED <<counts, pending, nquery, clock, timestamp, views, tables, nfail, ghosts>>

\* The names of a reply: as many of them as were asked for.
TopN(ids) == {top \in SUBSET ids : Cardinality(top) = Min({RECORD_NUM, Cardinality(ids)})}

\* The inserts of save_one_hour_data: a reply without names inserts nothing.
InsertHour(v, ids) ==
  LET rows == IF ids = {} THEN {} ELSE {[view |-> v, ts |-> timestamp, ids |-> ids]} IN
  /\ hourly' = hourly \cup rows
  /\ uncommitted' = uncommitted \cup rows

\* One view of save_one_hour_data; no answer looks like an answer without
\* names.
save_one_hour_data ==
  /\ pc = "hour"
  /\ \E v \in todo :
       /\ todo' = todo \ {v}
       /\ \/ \E top \in TopN(counts[v]) :
               /\ InsertHour(v, top)
               /\ missed' = missed \cup Unsaved(counts[v] \ top)
               /\ UNCHANGED <<nfail, noreply>>
          \/ InsertHour(v, {}) /\ noreply' = noreply \cup {v} /\ Fail /\ UNCHANGED missed
  /\ UNCHANGED <<counts, pending, nquery, pc, clock, timestamp, views, daily, unflushed>>

\* Mutant: a round that saves the day does not flush.
save_one_hour_data_return_Else ==
  /\ pc = "hour" /\ todo = {}
  /\ Goto(IF Every(ONE_DAY_TIME) THEN "day" ELSE "flush")
  /\ UNCHANGED <<counts, pending, nquery, clock, timestamp, views, todo, tables, nfail, ghosts>>

save_one_hour_data_return ==
  /\ pc = "hour" /\ todo = {}
  /\ Goto("flush")
  /\ UNCHANGED <<counts, pending, nquery, clock, timestamp, views, todo, tables, nfail, ghosts>>

\* The daemon is flushed, or the request is lost, or it is still waiting when
\* its caller gives up; run does not ask which.
flush_data ==
  /\ pc = "flush"
  /\ \/ /\ counts' = Cleared
        /\ missed' = missed \cup Unsaved(UNION {counts[v] : v \in noreply})
        /\ UNCHANGED <<pending, nfail, unflushed>>
     \/ /\ Fail /\ unflushed' = unflushed \cup {timestamp}
        /\ pending' \in {pending, pending + 1}
        /\ UNCHANGED <<counts, missed>>
  /\ todo' = views
  /\ Goto(AfterHour)
  /\ UNCHANGED <<nquery, clock, timestamp, views, tables, noreply>>

\* Mutant: the end of the day belongs to it.
OfLastDay_ToEnd(v) ==
  {r \in hourly : /\ r.view = v
                  /\ whole_point(today - ONE_DAY_TIME) <= r.ts /\ r.ts <= timestamp}

\* The hourly rows of one view from a day ago until now.
OfLastDay(v) ==
  {r \in hourly : /\ r.view = v
                  /\ whole_point(today - ONE_DAY_TIME) <= r.ts /\ r.ts < timestamp}

\* The inserts of save_one_day_data: a day without hours inserts nothing.
InsertDay(v, hours) ==
  LET rows == IF hours = {} THEN {} ELSE {[view |-> v, ts |-> timestamp, hours |-> hours]} IN
  /\ daily' = daily \cup rows
  /\ uncommitted' = uncommitted \cup rows

save_one_day_data ==
  /\ pc = "day"
  /\ \E v \in todo : todo' = todo \ {v} /\ InsertDay(v, OfLastDay(v))
  /\ UNCHANGED <<counts, pending, nquery, pc, clock, timestamp, views, hourly, nfail, ghosts>>

\* delete_data_long_ago and delete_data_longlong_ago end with a commit.
delete_data ==
  /\ pc = "day" /\ todo = {}
  /\ uncommitted' = {}
  /\ Goto("commit")
  /\ UNCHANGED <<counts, pending, nquery, clock, timestamp, views, todo, hourly, daily, nfail, ghosts>>

commit ==
  /\ pc = "commit"
  /\ uncommitted' = {}
  /\ Goto("finally")
  /\ UNCHANGED <<counts, pending, nquery, clock, timestamp, views, todo, hourly, daily, nfail, ghosts>>

NotFlushed == IF pc \in {"hour", "flush"} THEN unflushed \cup {timestamp} ELSE unflushed

\* A table raises an exception: the rest of the round is skipped.
raise ==
  /\ pc \in {"averages", "hour", "day", "commit"} /\ Fail
  /\ unflushed' = NotFlushed
  /\ Goto("finally")
  /\ UNCHANGED <<counts, pending, nquery, clock, timestamp, views, todo, tables, noreply, missed>>

\* A bound: a report takes less time than run sleeps.
finally ==
  /\ pc = "finally" /\ times < MaxTimes /\ report.at = "idle"
  /\ first' = FALSE /\ times' = times + 1
  /\ \E d \in 0 .. MaxDelay : today' = today + FLUSH_TIME + d
  /\ Goto("get_views")
  /\ UNCHANGED <<counts, pending, nquery, timestamp, views, todo, tables, nfail, ghosts>>

\* The web server is started again: what was not committed is gone.
restart ==
  /\ Fail /\ times < MaxTimes
  /\ hourly' = hourly \ uncommitted /\ daily' = daily \ uncommitted
  /\ uncommitted' = {}
  /\ missed' = missed \cup UNION {r.ids : r \in hourly \cap uncommitted}
  /\ unflushed' = NotFlushed
  /\ first' = TRUE /\ times' = 0
  /\ views' = {} /\ todo' = {} /\ noreply' = {} /\ timestamp' = 0
  /\ report' = NoReport /\ old' = NoRows
  /\ Goto("off")
  /\ UNCHANGED <<counts, pending, nquery, today>>

-----------------------------------------------------------------------------
(* A handler reads a report of a view, from v_date until before v_end, over *)
(* TIME_INTERVAL or more: get_rcode, get_rtype, get_ip_topn or             *)
(* get_domain_topn.  The lock is released between the queries, and rows    *)
(* not committed are visible to them.  (A shorter report is one query of   *)
(* the hourly rows.)                                                       *)

Latest == Max({d.ts : d \in daily} \cup {0})

\* The daily rows of the view between the dates.
get_long(v, v_date, v_end) ==
  /\ report.at = "idle" /\ v_date + TIME_INTERVAL <= v_end
  /\ report' = [NoReport EXCEPT !.at = "latest", !.view = {v}, !.v_date = v_date, !.v_end = v_end,
       !.long = {d \in daily : d.view = v /\ v_date <= d.ts /\ d.ts < v_end}]
  /\ old' = [hours |-> hourly, days |-> daily]

\* The time of the last daily row, of any view.
_get_latest_time ==
  /\ report.at = "latest"
  /\ report' = [report EXCEPT !.at = "recent", !.latest = Latest]
  /\ UNCHANGED old

\* Mutant: the hour at the end of the last day is left out.
get_recent_After ==
  /\ report.at = "recent"
  /\ report' = [report EXCEPT !.at = "union",
       !.recent = {r \in hourly : /\ r.view \in report.view
                                  /\ report.latest < r.ts /\ r.ts < report.v_end}]
  /\ UNCHANGED old

\* The hourly rows since then, until v_end.
get_recent ==
  /\ report.at = "recent"
  /\ report' = [report EXCEPT !.at = "union",
       !.recent = {r \in hourly : /\ r.view \in report.view
                                  /\ report.latest <= r.ts /\ r.ts < report.v_end}]
  /\ UNCHANGED old

_get_union_result ==
  /\ report.at = "union"
  /\ report' = NoReport /\ old' = NoRows

-----------------------------------------------------------------------------

run == \/ get_views \/ save_averages \/ save_one_hour_data \/ save_one_hour_data_return
       \/ flush_data \/ save_one_day_data \/ delete_data
       \/ commit \/ raise \/ finally

read == \/ \E v \in View, v_date, v_end \in Dates : get_long(v, v_date, v_end)
        \/ _get_latest_time \/ get_recent \/ _get_union_result

daemon == (\E v \in View : query(v)) \/ flush_stats \/ restart_daemon

Next == \/ (daemon \/ post \/ run) /\ UNCHANGED reader
        \/ read /\ UNCHANGED <<counts, pending, nquery, pc, clock, timestamp, views, todo, tables, nfail, ghosts>>
        \/ restart

Spec == Init /\ [][Next]_vars

-----------------------------------------------------------------------------
(* Properties.                                                             *)

Hour == [view : View, ts : Nat, ids : SUBSET (1 .. MaxQuery)]
Day == [view : View, ts : Nat, hours : SUBSET Hour]

\* Rows are stamped with multiples of five minutes.
TypeOK ==
  /\ counts \in [View -> SUBSET (1 .. MaxQuery)] /\ nquery \in 0 .. MaxQuery /\ pending \in Nat
  /\ pc \in {"off", "dup", "get_views", "averages", "hour", "flush", "day", "commit", "finally"}
  /\ times \in 0 .. MaxTimes /\ first \in BOOLEAN /\ today \in Nat /\ timestamp \in Nat
  /\ views \in SUBSET View /\ todo \in SUBSET View /\ noreply \in SUBSET View
  /\ hourly \in SUBSET Hour /\ daily \in SUBSET Day
  /\ uncommitted \in SUBSET (hourly \cup daily)
  /\ nfail \in 0 .. MaxFail /\ missed \in SUBSET (1 .. nquery)
  /\ \A t \in {timestamp} \cup unflushed \cup {r.ts : r \in hourly \cup daily} :
       t % FLUSH_TIME = 0

\* A query is in the rows of two hours only if the daemon was not flushed
\* between them: a table raised an exception, or the flush got lost.
InOneHour ==
  \A r, s \in hourly :
    r # s /\ r.ts <= s.ts /\ r.ids \cap s.ids # {} => r.ts \in unflushed

\* Every query is still in the daemon or in the row of an hour, unless it came
\* while its hour was being saved, was dropped to recycle memory, was not among
\* the first RECORD_NUM of its hour, a request for it was not answered, a flush
\* that its caller had given up threw it away, or one of the two programs was
\* started again.
Accounted ==
  /\ TypeOK
  /\ \A q \in (1 .. nquery) \ missed :
       \/ \E v \in View : q \in counts[v]
       \/ \E r \in hourly : q \in r.ids

\* A report counts no hour twice, however late the rounds are, whatever was
\* skipped, whenever the web server was started, and whatever StatsThread
\* saves between the queries of the report.
ReportedOnce ==
  report.at = "union" =>
    \A d \in report.long : /\ d.hours \cap report.recent = {}
                           /\ \A e \in report.long \ {d} : d.hours \cap e.hours = {}

\* The hours in a report.
Reported == report.recent \cup UNION {d.hours : d \in report.long}

\* An hour between the dates that was saved before the report was begun is
\* missing from it only if its day was saved while the report was read, if the
\* last day of some view was saved after it without it, or if the row of its
\* day is stamped at or after the end of the report.
ReportMisses ==
  report.at = "union" =>
    \A r \in old.hours \ Reported :
      r.view \in report.view /\ report.v_date <= r.ts /\ r.ts < report.v_end =>
        \/ \E d \in daily \ old.days : d.ts > r.ts
        \/ /\ \E d \in old.days : d.ts > r.ts
           /\ \A d \in old.days : r \notin d.hours
        \/ \E d \in old.days : r \in d.hours /\ report.v_end <= d.ts
=============================================================================
