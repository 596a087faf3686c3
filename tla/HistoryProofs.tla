--------------------------- MODULE HistoryProofs ---------------------------
(***************************************************************************)
(* Proofs about StatsThread and its tables for any views, periods and      *)
(* bounds.                                                                 *)
(***************************************************************************)
EXTENDS History, Integers, WellFoundedInduction, TLAPS

-----------------------------------------------------------------------------
(* whole_point.                                                            *)

\* A time is the number of periods before it and a rest.
LEMMA Division ==
  ASSUME NEW t \in Nat
  PROVE  /\ t \div FLUSH_TIME \in Int
         /\ t % FLUSH_TIME \in 0 .. FLUSH_TIME - 1
         /\ t = FLUSH_TIME * (t \div FLUSH_TIME) + (t % FLUSH_TIME)
  BY TimeAssumption

\* A whole number of periods has no rest, and any rest is smaller than one.
LEMMA Rest ==
  ASSUME NEW q \in Int, NEW r \in 0 .. FLUSH_TIME - 1, NEW p \in Int, NEW s \in 0 .. FLUSH_TIME - 1,
         FLUSH_TIME * q + r <= FLUSH_TIME * p + s
  PROVE  q <= p
<1> SUFFICES ASSUME q >= p + 1 PROVE FALSE
  OBVIOUS
<1>1. FLUSH_TIME * (q - (p + 1)) >= 0
  BY TimeAssumption
<1> QED
  BY <1>1, TimeAssumption

\* whole_point never goes back, and is a multiple of FLUSH_TIME.
LEMMA WholePoint ==
  ASSUME NEW a \in Nat, NEW b \in Nat, a <= b
  PROVE  whole_point(a) <= whole_point(b)
<1> DEFINE x == a \div FLUSH_TIME
           y == b \div FLUSH_TIME
<1>1. /\ x \in Int /\ a % FLUSH_TIME \in 0 .. FLUSH_TIME - 1
      /\ a = FLUSH_TIME * x + (a % FLUSH_TIME)
  BY Division
<1>2. /\ y \in Int /\ b % FLUSH_TIME \in 0 .. FLUSH_TIME - 1
      /\ b = FLUSH_TIME * y + (b % FLUSH_TIME)
  BY Division
<1>3. x <= y
  BY <1>1, <1>2, Rest
<1> HIDE DEF x, y
<1>4. FLUSH_TIME * (y - x) >= 0
  BY <1>1, <1>2, <1>3, TimeAssumption
<1> QED
  BY <1>1, <1>2, <1>4, TimeAssumption DEF whole_point

\* whole_point is a stamp, and not later than the time it is of.
LEMMA WholePointType ==
  ASSUME NEW a \in Nat
  PROVE  whole_point(a) \in Nat /\ whole_point(a) % FLUSH_TIME = 0 /\ whole_point(a) <= a
<1> DEFINE x == a \div FLUSH_TIME
<1>1. /\ x \in Nat /\ a % FLUSH_TIME \in 0 .. FLUSH_TIME - 1
      /\ a = FLUSH_TIME * x + (a % FLUSH_TIME)
  BY TimeAssumption
<1> HIDE DEF x
<1>2. whole_point(a) = FLUSH_TIME * x
  BY <1>1, TimeAssumption DEF whole_point
<1>3. FLUSH_TIME * x \in Nat
  BY <1>1, TimeAssumption
<1>4. (FLUSH_TIME * x) % FLUSH_TIME = 0
  <2> DEFINE w == FLUSH_TIME * x
             q == w \div FLUSH_TIME
             r == w % FLUSH_TIME
  <2>1. q \in Int /\ r \in 0 .. FLUSH_TIME - 1 /\ w = FLUSH_TIME * q + r
    BY <1>3, Division
  <2>2. q <= x /\ x <= q
    <3>1. 0 \in 0 .. FLUSH_TIME - 1 /\ x \in Int
      BY <1>1, TimeAssumption
    <3> HIDE DEF q, r
    <3>2. FLUSH_TIME * q + r <= FLUSH_TIME * x + 0 /\ FLUSH_TIME * x + 0 <= FLUSH_TIME * q + r
      BY <2>1, <1>3, TimeAssumption
    <3> QED
      BY <3>1, <3>2, <2>1, Rest
  <2> HIDE DEF q, r
  <2>3. q = x
    BY <2>1, <2>2, <1>1
  <2> QED
    BY <2>1, <2>3, <1>3 DEF r
<1> QED
  BY <1>1, <1>2, <1>3, <1>4, TimeAssumption

-----------------------------------------------------------------------------
(* Types.                                                                  *)

\* The times in rows and of saves are stamps.
Stamp == {t \in Nat : t % FLUSH_TIME = 0}

TypeInv ==
  /\ counts \in [View -> SUBSET (1 .. MaxQuery)] /\ nquery \in 0 .. MaxQuery /\ pending \in Nat
  /\ pc \in {"off", "dup", "get_views", "averages", "hour", "flush", "day", "commit", "finally"}
  /\ times \in 0 .. MaxTimes /\ first \in BOOLEAN /\ today \in Nat /\ timestamp \in Stamp
  /\ views \in SUBSET View /\ todo \in SUBSET View /\ noreply \in SUBSET View
  /\ hourly \in SUBSET [view : View, ts : Stamp, ids : SUBSET (1 .. MaxQuery)]
  /\ daily \in SUBSET [view : View, ts : Stamp, hours : SUBSET Hour]
  /\ uncommitted \in SUBSET (hourly \cup daily)
  /\ nfail \in 0 .. MaxFail /\ missed \in SUBSET (1 .. nquery)
  /\ unflushed \in SUBSET Stamp
  /\ \A v \in View : counts[v] \in SUBSET (1 .. nquery)
  /\ \A r \in hourly : r.ids \in SUBSET (1 .. nquery)

\* TypeInv adds to TypeOK that rows and counts hold queries that were counted.
LEMMA TypesCorrect == TypeInv => TypeOK
  BY DEF TypeInv, TypeOK, Stamp, Hour, Day

\* Recycling only drops.
LEMMA RecycledLess ==
  ASSUME NEW left \in Recycled
  PROVE  DOMAIN left = View /\ \A w \in View : left[w] \subseteq counts[w]
  BY DEF Recycled

\* What log_handle does to the counts.
LEMMA QueryStep ==
  ASSUME TypeInv, NEW v \in View, query(v)
  PROVE  /\ nquery' = nquery + 1 /\ nquery < MaxQuery
         /\ DOMAIN counts' = View
         /\ \A w \in View : counts'[w] \subseteq counts[w] \cup (IF w = v THEN {nquery + 1} ELSE {})
         /\ nquery + 1 \in counts'[v]
         /\ \A w \in View : \A q \in counts[w] :
              q \in counts'[w] \/ q \in missed' \/ \E r \in hourly : q \in r.ids
         /\ missed \subseteq missed' /\ missed' \subseteq 1 .. nquery + 1
         /\ pc \in {"averages", "hour", "flush"} => nquery + 1 \in missed'
         /\ nfail' = nfail \/ (nfail < MaxFail /\ nfail' = nfail + 1)
<1> DEFINE Busy == IF pc \in {"averages", "hour", "flush"} THEN {nquery + 1} ELSE {}
<1>1. PICK left \in Recycled :
        /\ \/ left = counts /\ UNCHANGED nfail
           \/ left # counts /\ Fail
        /\ counts' = [left EXCEPT ![v] = @ \cup {nquery + 1}]
        /\ missed' = missed \cup Unsaved(UNION {counts[w] \ left[w] : w \in View}) \cup Busy
  BY DEF query
<1>2. nquery' = nquery + 1 /\ nquery < MaxQuery
  BY DEF query
<1>3. DOMAIN left = View /\ \A w \in View : left[w] \subseteq counts[w]
  BY RecycledLess
<1>4. /\ DOMAIN counts' = View
      /\ \A w \in View : counts'[w] = IF w = v THEN left[w] \cup {nquery + 1} ELSE left[w]
  BY <1>1, <1>3
<1>5. \A w \in View : \A q \in counts[w] :
        q \in counts'[w] \/ q \in missed' \/ \E r \in hourly : q \in r.ids
  <2> SUFFICES ASSUME NEW w \in View, NEW q \in counts[w], q \notin left[w],
                      \A r \in hourly : q \notin r.ids
               PROVE  q \in missed'
    BY <1>4
  <2>1. q \in UNION {counts[x] \ left[x] : x \in View}
    OBVIOUS
  <2>2. q \in Unsaved(UNION {counts[x] \ left[x] : x \in View})
    BY <2>1 DEF Unsaved
  <2> QED
    BY <1>1, <2>2
<1>6. missed' \subseteq 1 .. nquery + 1
  <2>1. Unsaved(UNION {counts[w] \ left[w] : w \in View}) \subseteq 1 .. nquery
    BY DEF Unsaved, TypeInv
  <2>2. Busy \subseteq 1 .. nquery + 1
    BY BoundAssumption DEF TypeInv
  <2>3. missed \subseteq 1 .. nquery + 1 /\ 1 .. nquery \subseteq 1 .. nquery + 1
    BY BoundAssumption DEF TypeInv
  <2> HIDE DEF Busy
  <2> QED
    BY <1>1, <2>1, <2>2, <2>3
<1> QED
  BY <1>1, <1>2, <1>3, <1>4, <1>5, <1>6 DEF Fail

\* What a save of one view does.
LEMMA HourStep ==
  ASSUME TypeInv, save_one_hour_data
  PROVE  \E v \in todo, ids \in SUBSET (1 .. nquery) :
           /\ v \in View /\ todo' = todo \ {v} /\ InsertHour(v, ids) /\ ids \subseteq counts[v]
           /\ noreply \subseteq noreply' /\ noreply' \in SUBSET View
           /\ nfail' \in 0 .. MaxFail
           /\ missed \subseteq missed' /\ missed' \in SUBSET (1 .. nquery)
           /\ v \in noreply' \/ \A q \in counts[v] :
                q \in ids \/ q \in missed' \/ \E r \in hourly : q \in r.ids
<1>1. PICK v \in todo :
        /\ todo' = todo \ {v}
        /\ \/ \E top \in TopN(counts[v]) :
                /\ InsertHour(v, top)
                /\ missed' = missed \cup Unsaved(counts[v] \ top)
                /\ UNCHANGED <<nfail, noreply>>
           \/ InsertHour(v, {}) /\ noreply' = noreply \cup {v} /\ Fail /\ UNCHANGED missed
  BY DEF save_one_hour_data
<1>2. v \in View /\ counts[v] \subseteq 1 .. nquery
  BY DEF TypeInv
<1>3. CASE InsertHour(v, {}) /\ noreply' = noreply \cup {v} /\ Fail /\ UNCHANGED missed
  <2>1. nfail' \in 0 .. MaxFail
    BY <1>3, BoundAssumption DEF Fail, TypeInv
  <2> QED
    BY <1>1, <1>2, <1>3, <2>1 DEF TypeInv
<1>4. CASE \E top \in TopN(counts[v]) :
             /\ InsertHour(v, top)
             /\ missed' = missed \cup Unsaved(counts[v] \ top)
             /\ UNCHANGED <<nfail, noreply>>
  <2>1. PICK top \in TopN(counts[v]) :
          /\ InsertHour(v, top)
          /\ missed' = missed \cup Unsaved(counts[v] \ top)
          /\ UNCHANGED <<nfail, noreply>>
    BY <1>4
  <2>2. top \in SUBSET counts[v]
    BY DEF TopN
  <2>3. \A q \in counts[v] : q \in top \/ q \in missed' \/ \E r \in hourly : q \in r.ids
    BY <2>1 DEF Unsaved
  <2>4. missed' \in SUBSET (1 .. nquery) /\ missed \subseteq missed'
    BY <1>2, <2>1 DEF Unsaved, TypeInv
  <2> QED
    BY <1>1, <1>2, <2>1, <2>2, <2>3, <2>4 DEF TypeInv
<1> QED
  BY <1>1, <1>3, <1>4

\* Whatever empties the daemon keeps the types, and loses only what no hour has.
LEMMA ClearStep ==
  ASSUME TypeInv, flush_stats \/ restart_daemon
  PROVE  /\ counts' = Cleared /\ pending' \in Nat
         /\ missed \subseteq missed' /\ missed' \in SUBSET (1 .. nquery)
         /\ \A v \in View : \A q \in counts[v] : q \in missed' \/ \E r \in hourly : q \in r.ids
         /\ nfail' \in 0 .. MaxFail
         /\ UNCHANGED <<nquery, pc, clock, timestamp, views, todo, tables, unflushed, noreply>>
<1>1. /\ counts' = Cleared /\ missed' = missed \cup Unsaved(Counted)
      /\ UNCHANGED <<nquery, pc, clock, timestamp, views, todo, tables, unflushed, noreply>>
  BY DEF flush_stats, restart_daemon
<1>2. Unsaved(Counted) \subseteq 1 .. nquery
  BY DEF Unsaved, Counted, TypeInv
<1>3. \A v \in View : \A q \in counts[v] : q \in Unsaved(Counted) \/ \E r \in hourly : q \in r.ids
  BY DEF Unsaved, Counted
<1>4. pending' \in Nat /\ nfail' \in 0 .. MaxFail
  BY BoundAssumption DEF flush_stats, restart_daemon, Fail, TypeInv
<1> QED
  BY <1>1, <1>2, <1>3, <1>4 DEF TypeInv

\* The types hold when nothing is started.
LEMMA InitTypes == Init => TypeInv
<1> SUFFICES ASSUME Init PROVE TypeInv
  OBVIOUS
<1>1. 0 \in Stamp
  BY WholePointType DEF whole_point, Stamp
<1> QED
  BY <1>1, TimeAssumption, BoundAssumption DEF Init, TypeInv

\* Every step of the web server and of the daemon keeps the types.
LEMMA Typing == ASSUME TypeInv, [Next]_vars PROVE TypeInv'
<1> USE BoundAssumption, TimeAssumption DEF TypeInv, clock, tables, ghosts, Goto, Fail
<1>1. ASSUME NEW v \in View, query(v) PROVE TypeInv'
  <2>1. /\ nquery' = nquery + 1 /\ nquery < MaxQuery
        /\ DOMAIN counts' = View
        /\ \A w \in View : counts'[w] \subseteq counts[w] \cup (IF w = v THEN {nquery + 1} ELSE {})
        /\ missed' \subseteq 1 .. nquery + 1
        /\ nfail' = nfail \/ (nfail < MaxFail /\ nfail' = nfail + 1)
    BY <1>1, QueryStep
  <2>2. UNCHANGED <<pending, pc, clock, timestamp, views, todo, tables, unflushed, noreply>>
    BY <1>1 DEF query
  <2>3. \A w \in View : counts'[w] \in SUBSET (1 .. nquery')
    BY <2>1
  <2>4. counts' \in [View -> SUBSET (1 .. MaxQuery)]
    <3>1. \A w \in View : counts'[w] \in SUBSET (1 .. MaxQuery)
      BY <2>1, <2>3
    <3>2. counts' = [w \in View |-> counts'[w]]
      BY <1>1, <2>1 DEF query
    <3> QED
      BY <3>1, <3>2
  <2>5. nfail' \in 0 .. MaxFail /\ nquery' \in 0 .. MaxQuery
    BY <2>1
  <2>6. \A r \in hourly : r.ids \in SUBSET (1 .. nquery')
    BY <2>1
  <2> QED
    BY <2>1, <2>2, <2>3, <2>4, <2>5, <2>6
<1>2. CASE flush_stats \/ restart_daemon
  <2>1. /\ counts' = Cleared /\ pending' \in Nat
        /\ missed' \in SUBSET (1 .. nquery)
        /\ nfail' \in 0 .. MaxFail
        /\ UNCHANGED <<nquery, pc, clock, timestamp, views, todo, tables, unflushed, noreply>>
    BY <1>2, ClearStep
  <2>2. counts' \in [View -> SUBSET (1 .. MaxQuery)] /\ \A v \in View : counts'[v] \in SUBSET (1 .. nquery)
    BY <2>1 DEF Cleared
  <2> QED
    BY <2>1, <2>2
<1>3. CASE post
  BY <1>3 DEF post
<1>4. CASE get_views
  <2>1. whole_point(today) \in Stamp
    BY WholePointType DEF Stamp
  <2> QED
    BY <1>4, <2>1 DEF get_views
<1>5. CASE save_averages
  BY <1>5 DEF save_averages, AfterHour
<1>6. CASE save_one_hour_data
  <2>1. PICK v \in todo, ids \in SUBSET (1 .. nquery) :
          /\ todo' = todo \ {v} /\ InsertHour(v, ids)
          /\ noreply' \in SUBSET View /\ nfail' \in 0 .. MaxFail
          /\ missed' \in SUBSET (1 .. nquery)
    BY <1>6, HourStep
  <2>2. \A r \in hourly' : r \in hourly \/ r = [view |-> v, ts |-> timestamp, ids |-> ids]
    BY <2>1 DEF InsertHour
  <2>3. uncommitted' \in SUBSET (hourly' \cup daily)
    BY <2>1 DEF InsertHour
  <2>4. UNCHANGED <<counts, pending, nquery, pc, clock, timestamp, views, daily, unflushed>>
    BY <1>6 DEF save_one_hour_data
  <2>5. /\ hourly' \in SUBSET [view : View, ts : Stamp, ids : SUBSET (1 .. MaxQuery)]
        /\ \A r \in hourly' : r.ids \in SUBSET (1 .. nquery)
    <3>1. [view |-> v, ts |-> timestamp, ids |-> ids] \in [view : View, ts : Stamp, ids : SUBSET (1 .. MaxQuery)]
      OBVIOUS
    <3> QED
      BY <2>2, <3>1
  <2> QED
    BY <2>1, <2>3, <2>4, <2>5
<1>7. CASE save_one_hour_data_return
  BY <1>7 DEF save_one_hour_data_return
<1>8. CASE flush_data
  <2> DEFINE lost == Unsaved(UNION {counts[v] : v \in noreply})
  <2>1. lost \in SUBSET (1 .. nquery)
    BY DEF Unsaved
  <2>2. /\ nfail' \in 0 .. MaxFail /\ pending' \in Nat
        /\ missed' \in SUBSET (1 .. nquery)
        /\ unflushed' \in SUBSET Stamp
    <3>1. \/ /\ missed' = missed \cup lost
             /\ nfail' = nfail /\ unflushed' = unflushed /\ pending' = pending
          \/ /\ missed' = missed /\ nfail < MaxFail /\ nfail' = nfail + 1
             /\ unflushed' = unflushed \cup {timestamp} /\ pending' \in {pending, pending + 1}
      BY <1>8 DEF flush_data
    <3> HIDE DEF lost
    <3>2. nfail' \in 0 .. MaxFail /\ pending' \in Nat
      BY <3>1
    <3>3. missed' \in SUBSET (1 .. nquery)
      BY <2>1, <3>1
    <3>4. unflushed' \in SUBSET Stamp
      BY <3>1
    <3> QED
      BY <3>2, <3>3, <3>4
  <2>3. counts' \in {counts, Cleared}
    BY <1>8 DEF flush_data
  <2>4. /\ counts' \in [View -> SUBSET (1 .. MaxQuery)]
        /\ \A v \in View : counts'[v] \in SUBSET (1 .. nquery)
    BY <2>3 DEF Cleared
  <2> QED
    BY <1>8, <2>2, <2>4 DEF flush_data, AfterHour
<1>9. CASE save_one_day_data
  <2>1. PICK v \in todo : todo' = todo \ {v} /\ InsertDay(v, OfLastDay(v))
    BY <1>9 DEF save_one_day_data
  <2>2. OfLastDay(v) \in SUBSET Hour
    BY DEF OfLastDay, Hour, Stamp
  <2> DEFINE new == [view |-> v, ts |-> timestamp, hours |-> OfLastDay(v)]
  <2>3. new \in [view : View, ts : Stamp, hours : SUBSET Hour]
    BY <2>2
  <2>4. \/ daily' = daily /\ uncommitted' = uncommitted
        \/ daily' = daily \cup {new} /\ uncommitted' = uncommitted \cup {new}
    BY <2>1 DEF InsertDay
  <2> HIDE DEF new
  <2>5. /\ daily' \in SUBSET [view : View, ts : Stamp, hours : SUBSET Hour]
        /\ uncommitted' \in SUBSET (hourly \cup daily')
    BY <2>3, <2>4
  <2>6. UNCHANGED <<counts, pending, nquery, pc, clock, timestamp, views, hourly, nfail, ghosts>>
    BY <1>9 DEF save_one_day_data
  <2> QED
    BY <2>1, <2>5, <2>6
<1>10. CASE delete_data
  BY <1>10 DEF delete_data
<1>11. CASE commit
  BY <1>11 DEF commit
<1>12. CASE raise
  BY <1>12 DEF raise, NotFlushed
<1>13. CASE finally
  <2>1. times' \in 0 .. MaxTimes /\ today' \in Nat
    BY <1>13 DEF finally
  <2> QED
    BY <1>13, <2>1 DEF finally
<1>14. CASE read /\ UNCHANGED <<counts, pending, nquery, pc, clock, timestamp, views, todo, tables, nfail, ghosts>>
  BY <1>14
<1>15. CASE restart
  <2>1. 0 \in Stamp
    BY WholePointType DEF whole_point, Stamp
  <2> DEFINE lost == UNION {r.ids : r \in hourly \cap uncommitted}
  <2>2. lost \in SUBSET (1 .. nquery)
    OBVIOUS
  <2> QED
    <3>1. /\ nfail' \in 0 .. MaxFail /\ times' \in 0 .. MaxTimes
          /\ missed' \in SUBSET (1 .. nquery)
          /\ unflushed' \in SUBSET Stamp
      <4>1. /\ nfail < MaxFail /\ nfail' = nfail + 1 /\ times' = 0
            /\ missed' = missed \cup lost
            /\ unflushed' \in {unflushed, unflushed \cup {timestamp}}
        BY <1>15 DEF restart, NotFlushed
      <4> HIDE DEF lost
      <4>2. nfail' \in 0 .. MaxFail /\ times' \in 0 .. MaxTimes
        BY <4>1
      <4>3. missed' \in SUBSET (1 .. nquery)
        BY <4>1, <2>2
      <4>4. unflushed' \in SUBSET Stamp
        BY <4>1
      <4> QED
        BY <4>2, <4>3, <4>4
    <3>2. hourly' \in SUBSET hourly /\ daily' \in SUBSET daily /\ uncommitted' = {}
      BY <1>15 DEF restart
    <3>3. views' = {} /\ todo' = {} /\ noreply' = {} /\ timestamp' = 0 /\ pc' = "off" /\ first' = TRUE
      BY <1>15 DEF restart
    <3>4. UNCHANGED <<counts, pending, nquery, today>>
      BY <1>15 DEF restart
    <3> QED
      BY <2>1, <3>1, <3>2, <3>3, <3>4
<1>16. CASE UNCHANGED vars
  BY <1>16 DEF vars
<1> QED
  BY <1>1, <1>2, <1>3, <1>4, <1>5, <1>6, <1>7, <1>8, <1>9, <1>10, <1>11, <1>12, <1>13,
     <1>14, <1>15, <1>16 DEF Next, run, daemon

-----------------------------------------------------------------------------
(* No query is lost unnamed.                                               *)

Saved(q) == \E r \in hourly : q \in r.ids

Kept == \A q \in (1 .. nquery) \ missed : Saved(q) \/ \E v \in View : q \in counts[v]

\* What a flush would throw away is saved, will be saved before it, or is given
\* up: views that get_views did not name had no queries then.
FlushSafe ==
  /\ pc = "flush" => todo = {}
  /\ pc \in {"averages", "hour", "flush"} =>
       \A v \in View : \/ v \in noreply
                      \/ v \in (IF pc = "averages" THEN views ELSE todo)
                      \/ \A q \in counts[v] \ missed : Saved(q)

KeptInv == TypeInv /\ Kept /\ FlushSafe

\* At first there is no query to keep.
LEMMA InitKept == Init => KeptInv
  BY InitTypes, BoundAssumption DEF Init, KeptInv, Kept, FlushSafe

\* Every step keeps what the flush needs.
LEMMA KeptStep == ASSUME KeptInv, [Next]_vars PROVE Kept' /\ FlushSafe'
<1> USE BoundAssumption DEF KeptInv, Kept, FlushSafe, Saved, clock, tables, ghosts, Goto, Fail
<1> TypeInv /\ TypeInv'
  BY Typing
<1>1. ASSUME NEW v \in View, query(v) PROVE Kept' /\ FlushSafe'
  <2>1. UNCHANGED <<pc, views, todo, hourly, noreply>>
    BY <1>1 DEF query
  <2>2. /\ nquery' = nquery + 1
        /\ \A w \in View : counts'[w] \subseteq counts[w] \cup (IF w = v THEN {nquery + 1} ELSE {})
        /\ nquery + 1 \in counts'[v]
        /\ \A w \in View : \A q \in counts[w] : q \in counts'[w] \/ q \in missed' \/ Saved(q)
        /\ missed \subseteq missed'
        /\ pc \in {"averages", "hour", "flush"} => nquery + 1 \in missed'
    BY <1>1, QueryStep
  <2>3. Kept'
    <3> SUFFICES ASSUME NEW q \in (1 .. nquery') \ missed'
                 PROVE  Saved(q) \/ \E w \in View : q \in counts'[w]
      BY <2>1
    <3>1. q = nquery + 1 \/ q \in (1 .. nquery) \ missed
      BY <2>2 DEF TypeInv
    <3> QED
      BY <2>2, <3>1
  <2>4. FlushSafe'
    <3> SUFFICES ASSUME pc \in {"averages", "hour", "flush"}, NEW w \in View,
                        NEW q \in counts'[w] \ missed', \A x \in counts[w] \ missed : Saved(x)
                 PROVE  Saved(q)
      BY <2>1
    <3> QED
      BY <2>2
  <2> QED
    BY <2>3, <2>4
<1>2. CASE flush_stats \/ restart_daemon
  <2>1. /\ counts' = Cleared /\ missed \subseteq missed'
        /\ \A v \in View : \A q \in counts[v] : q \in missed' \/ Saved(q)
        /\ UNCHANGED <<nquery, pc, views, todo, hourly, noreply>>
    BY <1>2, ClearStep
  <2>2. \A v \in View : counts'[v] = {}
    BY <2>1 DEF Cleared
  <2> QED
    BY <2>1, <2>2
<1>3. CASE post
  BY <1>3 DEF post
<1>4. CASE get_views
  BY <1>4 DEF get_views
<1>5. CASE save_averages
  BY <1>5 DEF save_averages, AfterHour
<1>6. CASE save_one_hour_data
  <2>1. PICK v \in todo, ids \in SUBSET (1 .. nquery) :
          /\ todo' = todo \ {v} /\ InsertHour(v, ids) /\ ids \subseteq counts[v]
          /\ noreply \subseteq noreply' /\ missed \subseteq missed'
          /\ v \in noreply' \/ \A q \in counts[v] : q \in ids \/ q \in missed' \/ Saved(q)
    BY <1>6, HourStep
  <2>2. hourly \subseteq hourly' /\ UNCHANGED <<counts, nquery, pc>> /\ pc = "hour"
    BY <1>6, <2>1 DEF save_one_hour_data, InsertHour
  <2>3. \A q \in ids : Saved(q)'
    BY <2>1 DEF InsertHour
  <2>4. \A q : Saved(q) => Saved(q)'
    BY <2>2
  <2>5. Kept'
    BY <2>1, <2>2, <2>4
  <2>6. FlushSafe'
    <3> SUFFICES ASSUME NEW w \in View, w \notin noreply', w \notin todo',
                        NEW q \in counts[w] \ missed'
                 PROVE  Saved(q)'
      BY <2>2
    <3>1. CASE w = v
      BY <2>1, <2>3, <2>4, <3>1
    <3>2. CASE w # v
      BY <2>1, <2>2, <2>4, <3>2
    <3> QED
      BY <3>1, <3>2
  <2> QED
    BY <2>5, <2>6
<1>7. CASE save_one_hour_data_return
  BY <1>7 DEF save_one_hour_data_return
<1>8. CASE flush_data
  <2>1. CASE /\ counts' = Cleared
             /\ missed' = missed \cup Unsaved(UNION {counts[v] : v \in noreply})
    <3>1. \A v \in noreply : \A q \in counts[v] : q \in missed' \/ Saved(q)
      BY <2>1 DEF Unsaved
    <3>2. missed \subseteq missed'
      BY <2>1
    <3>3. \A q \in (1 .. nquery) \ missed' : Saved(q)
      BY <1>8, <3>1, <3>2 DEF flush_data, TypeInv
    <3> QED
      BY <1>8, <3>3 DEF flush_data, AfterHour
  <2>2. CASE UNCHANGED <<counts, missed>>
    BY <1>8, <2>2 DEF flush_data, AfterHour
  <2> QED
    BY <1>8, <2>1, <2>2 DEF flush_data
<1>9. CASE save_one_day_data
  BY <1>9 DEF save_one_day_data
<1>10. CASE delete_data
  BY <1>10 DEF delete_data
<1>11. CASE commit
  BY <1>11 DEF commit
<1>12. CASE raise
  BY <1>12 DEF raise
<1>13. CASE finally
  BY <1>13 DEF finally
<1>14. CASE read /\ UNCHANGED <<counts, pending, nquery, pc, clock, timestamp, views, todo, tables, nfail, ghosts>>
  BY <1>14
<1>15. CASE restart
  <2>1. /\ missed \subseteq missed' /\ \A r \in hourly : r \in hourly' \/ r.ids \subseteq missed'
        /\ pc' = "off" /\ UNCHANGED <<counts, pending, nquery>>
    BY <1>15 DEF restart
  <2> QED
    BY <2>1
<1>16. CASE UNCHANGED vars
  BY <1>16 DEF vars
<1> QED
  BY <1>1, <1>2, <1>3, <1>4, <1>5, <1>6, <1>7, <1>8, <1>9, <1>10, <1>11, <1>12, <1>13,
     <1>14, <1>15, <1>16 DEF Next, run, daemon

\* Every query is in the daemon or in a row, unless a named event lost it:
\* the hourly save, the flush and the commit of log_server.py:53-64.
THEOREM AccountedTheorem == Spec => []Accounted
<1>1. KeptInv /\ [Next]_vars => KeptInv'
  BY Typing, KeptStep DEF KeptInv
<1>2. KeptInv => Accounted
  BY TypesCorrect DEF KeptInv, Kept, Saved, Accounted
<1> QED
  BY InitKept, <1>1, <1>2, PTL DEF Spec

-----------------------------------------------------------------------------
(* No query is in two hours without a reason.                              *)

\* The daemon counts a query in one view.
Apart == \A v, w \in View : v # w => counts[v] \cap counts[w] = {}

\* What is saved and still counted is of a save that no flush followed, or of
\* the one that is being made.
SavedAgain ==
  \A r \in hourly, v \in View :
    r.ids \cap counts[v] # {} =>
      \/ r.ts \in unflushed
      \/ pc \in {"hour", "flush"} /\ r.ts = timestamp /\ r.view = v /\ v \notin todo

\* No row is of the future.
Past ==
  /\ \A r \in hourly : r.ts <= whole_point(today)
  /\ pc \in {"averages", "hour", "flush"} => timestamp = whole_point(today)

OnceInv == TypeInv /\ Apart /\ SavedAgain /\ Past /\ InOneHour

\* At first there is neither a row nor a query.
LEMMA InitOnce == Init => OnceInv
  BY InitTypes DEF Init, OnceInv, Apart, SavedAgain, Past, InOneHour

\* The daemon counts a new query in one view.
LEMMA ApartStep == ASSUME TypeInv, Apart, [Next]_vars PROVE Apart'
<1> USE DEF Apart
<1>1. ASSUME NEW v \in View, query(v) PROVE Apart'
  <2>1. \A w \in View : counts'[w] \subseteq counts[w] \cup (IF w = v THEN {nquery + 1} ELSE {})
    BY <1>1, QueryStep
  <2>2. \A w \in View : nquery + 1 \notin counts[w]
    BY BoundAssumption DEF TypeInv
  <2> QED
    BY <2>1, <2>2
<1>2. CASE flush_stats \/ restart_daemon
  <2>1. \A w \in View : counts'[w] = {}
    BY <1>2, ClearStep DEF Cleared
  <2> QED
    BY <2>1
<1>3. CASE flush_data
  <2>1. counts' = counts \/ \A w \in View : counts'[w] = {}
    BY <1>3 DEF flush_data, Cleared
  <2> QED
    BY <2>1
<1>4. CASE \/ post \/ get_views \/ save_averages \/ save_one_hour_data \/ save_one_hour_data_return
           \/ save_one_day_data \/ delete_data \/ commit \/ raise \/ finally \/ restart
           \/ UNCHANGED vars
  <2>1. counts' = counts
    BY <1>4 DEF post, get_views, save_averages, save_one_hour_data, save_one_hour_data_return,
       save_one_day_data, delete_data, commit, raise, finally, restart, vars
  <2> QED
    BY <2>1
<1>5. CASE read /\ UNCHANGED <<counts, pending, nquery, pc, clock, timestamp, views, todo, tables, nfail, ghosts>>
  BY <1>5
<1> QED
  BY <1>1, <1>2, <1>3, <1>4, <1>5 DEF Next, run, daemon

\* No step saves a row of the future, and the clock does not go back.
LEMMA PastStep == ASSUME TypeInv, Past, [Next]_vars PROVE Past'
<1> USE DEF Past, clock, tables, ghosts, Goto
<1>1. /\ whole_point(today) \in Nat
      /\ \A d \in Nat : whole_point(today) <= whole_point(today + d) /\ whole_point(today + d) \in Nat
  <2>1. whole_point(today) \in Nat
    BY WholePointType DEF TypeInv
  <2>2. ASSUME NEW d \in Nat
        PROVE  whole_point(today) <= whole_point(today + d) /\ whole_point(today + d) \in Nat
    <3>1. today \in Nat /\ today + d \in Nat /\ today <= today + d
      BY DEF TypeInv
    <3> QED
      BY <3>1, WholePoint, WholePointType
  <2> QED
    BY <2>1, <2>2
<1>2. \A r \in hourly : r.ts \in Nat
  BY DEF TypeInv, Stamp
<1>3. ASSUME NEW d \in Nat, today' = today + d, hourly' = hourly, pc' \notin {"averages", "hour", "flush"}
      PROVE  Past'
  <2>1. whole_point(today)' = whole_point(today + d)
    BY <1>3 DEF whole_point
  <2> QED
    BY <1>1, <1>2, <1>3, <2>1
<1>4. ASSUME today' = today PROVE whole_point(today)' = whole_point(today)
  BY <1>4 DEF whole_point
<1>5. CASE post
  <2>1. PICK d \in 0 .. MaxDelay : today' = today + d
    BY <1>5 DEF post
  <2>2. d \in Nat
    BY <2>1, BoundAssumption
  <2> QED
    BY <1>3, <1>5, <2>1, <2>2 DEF post
<1>6. CASE finally
  <2>1. PICK d \in 0 .. MaxDelay : today' = today + FLUSH_TIME + d
    BY <1>6 DEF finally
  <2>2. FLUSH_TIME + d \in Nat /\ today' = today + (FLUSH_TIME + d)
    BY <2>1, BoundAssumption, TimeAssumption DEF TypeInv
  <2> QED
    BY <1>3, <1>6, <2>2 DEF finally
<1>7. CASE get_views
  BY <1>4, <1>7 DEF get_views
<1>8. CASE save_one_hour_data
  <2>1. UNCHANGED <<today, timestamp, pc>> /\ pc = "hour"
    BY <1>8 DEF save_one_hour_data
  <2>2. \A r \in hourly' : r \in hourly \/ r.ts = timestamp
    <3>1. PICK v \in todo, ids \in SUBSET (1 .. nquery) : InsertHour(v, ids)
      BY <1>8, HourStep
    <3> QED
      BY <3>1 DEF InsertHour
  <2> QED
    BY <1>1, <1>4, <2>1, <2>2
<1>9. CASE \/ \E v \in View : query(v)
           \/ flush_stats \/ restart_daemon \/ save_averages \/ save_one_hour_data_return \/ flush_data
           \/ save_one_day_data \/ delete_data \/ commit \/ raise \/ restart \/ UNCHANGED vars
  <2>1. today' = today /\ hourly' \subseteq hourly
    BY <1>9 DEF query, flush_stats, restart_daemon, save_averages, save_one_hour_data_return, flush_data,
       save_one_day_data, delete_data, commit, raise, restart, vars
  <2>2. pc' \in {"averages", "hour", "flush"} =>
          pc \in {"averages", "hour", "flush"} /\ timestamp' = timestamp
    BY <1>9 DEF query, flush_stats, restart_daemon, save_averages, save_one_hour_data_return, flush_data, AfterHour,
       save_one_day_data, delete_data, commit, raise, restart, vars
  <2> QED
    BY <1>4, <2>1, <2>2
<1>10. CASE read /\ UNCHANGED <<counts, pending, nquery, pc, clock, timestamp, views, todo, tables, nfail, ghosts>>
  BY <1>4, <1>10
<1> QED
  BY <1>5, <1>6, <1>7, <1>8, <1>9, <1>10 DEF Next, run, daemon

\* Every step keeps the reason why a query may be saved again.
LEMMA SavedAgainStep == ASSUME OnceInv, [Next]_vars PROVE SavedAgain'
<1> USE DEF OnceInv, clock, tables, ghosts, Goto
<1> SUFFICES ASSUME NEW r \in hourly', NEW v \in View, r.ids \cap counts'[v] # {}
             PROVE  \/ r.ts \in unflushed'
                    \/ /\ pc' \in {"hour", "flush"} /\ r.ts = timestamp' /\ r.view = v
                       /\ v \notin todo'
  BY DEF SavedAgain
<1>1. ASSUME NEW w \in View, query(w) PROVE r.ids \cap counts[v] # {} /\ r \in hourly
  <2>1. hourly' = hourly
    BY <1>1 DEF query
  <2>2. counts'[v] \subseteq counts[v] \cup {nquery + 1}
    BY <1>1, QueryStep
  <2>3. nquery + 1 \notin r.ids
    BY <2>1, BoundAssumption DEF TypeInv
  <2> QED
    BY <2>1, <2>2, <2>3
<1>2. ASSUME r \in hourly, r.ids \cap counts[v] # {}
      PROVE  \/ r.ts \in unflushed
             \/ pc \in {"hour", "flush"} /\ r.ts = timestamp /\ r.view = v /\ v \notin todo
  BY <1>2 DEF SavedAgain
<1>3. CASE \E w \in View : query(w)
  BY <1>1, <1>2, <1>3 DEF query
<1>4. CASE flush_stats \/ restart_daemon
  <2>1. counts'[v] = {}
    BY <1>4, ClearStep DEF Cleared
  <2> QED
    BY <2>1
<1>5. CASE post \/ get_views \/ save_averages \/ save_one_day_data \/ delete_data \/ commit \/ finally
  <2>1. /\ UNCHANGED <<counts, hourly, unflushed>>
        /\ pc \notin {"hour", "flush"}
    BY <1>5 DEF post, get_views, save_averages, save_one_day_data, delete_data, commit, finally
  <2> QED
    BY <1>2, <2>1
<1>6. CASE save_one_hour_data
  <2>1. PICK w \in todo :
          /\ todo' = todo \ {w}
          /\ \E ids \in SUBSET counts[w] : InsertHour(w, ids)
    BY <1>6, HourStep
  <2>2. UNCHANGED <<counts, pc, timestamp, unflushed>> /\ pc = "hour"
    BY <1>6 DEF save_one_hour_data
  <2>3. r \in hourly \/ (r.view = w /\ r.ts = timestamp /\ r.ids \subseteq counts[w])
    BY <2>1 DEF InsertHour
  <2>4. CASE r \in hourly
    BY <1>2, <2>1, <2>2, <2>4
  <2>5. CASE r.view = w /\ r.ts = timestamp /\ r.ids \subseteq counts[w]
    <3>1. v = w
      BY <2>1, <2>2, <2>5 DEF Apart, TypeInv
    <3> QED
      BY <2>1, <2>2, <2>5, <3>1
  <2> QED
    BY <2>3, <2>4, <2>5
<1>7. CASE save_one_hour_data_return
  BY <1>2, <1>7 DEF save_one_hour_data_return
<1>8. CASE flush_data
  <2>1. CASE counts' = Cleared
    BY <2>1 DEF Cleared
  <2>2. CASE unflushed' = unflushed \cup {timestamp} /\ counts' = counts
    BY <1>2, <1>8, <2>2 DEF flush_data
  <2> QED
    BY <1>8, <2>1, <2>2 DEF flush_data
<1>9. CASE raise
  BY <1>2, <1>9 DEF raise, NotFlushed
<1>10. CASE restart
  <2>1. r \in hourly /\ counts' = counts /\ unflushed' = NotFlushed
    BY <1>10 DEF restart
  <2> QED
    BY <1>2, <2>1 DEF NotFlushed
<1>11. CASE read /\ UNCHANGED <<counts, pending, nquery, pc, clock, timestamp, views, todo, tables, nfail, ghosts>>
  BY <1>2, <1>11
<1>12. CASE UNCHANGED vars
  BY <1>2, <1>12 DEF vars
<1> QED
  BY <1>3, <1>4, <1>5, <1>6, <1>7, <1>8, <1>9, <1>10, <1>11, <1>12 DEF Next, run, daemon

\* A save only repeats queries of a save that no flush followed.
LEMMA InOneHourStep == ASSUME OnceInv, [Next]_vars PROVE InOneHour'
<1> USE DEF OnceInv, clock, tables, ghosts, Goto
<1>1. unflushed \subseteq unflushed'
  BY DEF Next, run, daemon, query, flush_stats, restart_daemon, post, get_views, save_averages, save_one_hour_data,
     save_one_hour_data_return, flush_data, save_one_day_data, delete_data, commit, raise,
     finally, restart, NotFlushed, vars
<1>2. CASE hourly' \subseteq hourly
  BY <1>1, <1>2 DEF InOneHour
<1>3. CASE save_one_hour_data
  <2> PICK v \in todo, ids \in SUBSET (1 .. nquery) : InsertHour(v, ids) /\ ids \subseteq counts[v]
    BY <1>3, HourStep
  <2>1. InsertHour(v, ids) /\ ids \subseteq counts[v]
    OBVIOUS
  <2>2. /\ pc = "hour" /\ v \in View
        /\ timestamp = whole_point(today) /\ timestamp \in Nat
    BY <1>3, <2>1 DEF save_one_hour_data, Past, TypeInv, Stamp
  <2>3. \A r \in hourly : r.ts \in Nat /\ r.ts <= timestamp
    BY <2>2 DEF Past, TypeInv, Stamp
  <2>4. \A r \in hourly : r.ids \cap counts[v] # {} => r.ts \in unflushed
    BY <2>1, <2>2 DEF SavedAgain
  <2>5. \A r \in hourly' : r \in hourly \/ r = [view |-> v, ts |-> timestamp, ids |-> ids]
    BY <2>1 DEF InsertHour
  <2> SUFFICES ASSUME NEW r \in hourly', NEW s \in hourly',
                      r # s, r.ts <= s.ts, r.ids \cap s.ids # {}
               PROVE  r.ts \in unflushed
    BY <1>1 DEF InOneHour
  <2>6. CASE r \in hourly /\ s \in hourly
    BY <2>6 DEF InOneHour
  <2>7. CASE r \in hourly /\ s.ids \subseteq counts[v]
    BY <2>4, <2>7
  <2>8. CASE s \in hourly /\ r.ids \subseteq counts[v] /\ r.ts = timestamp
    <3>1. s.ts \in unflushed
      BY <2>4, <2>8
    <3>2. s.ts = timestamp
      BY <2>2, <2>3, <2>8
    <3> QED
      BY <2>8, <3>1, <3>2
  <2> QED
    BY <2>5, <2>6, <2>7, <2>8
<1> QED
  BY <1>2, <1>3 DEF Next, run, daemon, query, flush_stats, restart_daemon, post, get_views, save_averages,
     save_one_hour_data_return, flush_data, save_one_day_data, delete_data, commit, raise,
     finally, restart, vars

\* A query is in the rows of two hours only if no flush followed the first of
\* them: the save and the flush of log_server.py:53-55.
THEOREM InOneHourTheorem == Spec => []InOneHour
<1>1. OnceInv /\ [Next]_vars => OnceInv'
  BY Typing, ApartStep, SavedAgainStep, PastStep, InOneHourStep DEF OnceInv
<1>2. OnceInv => InOneHour
  BY DEF OnceInv
<1> QED
  BY InitOnce, <1>1, <1>2, PTL DEF Spec

-----------------------------------------------------------------------------
(* No hour is in two days.                                                 *)

\* The greatest of bounded times.
LEMMA MaxIs ==
  ASSUME NEW S \in SUBSET Nat, S # {}, NEW b \in Nat, \A x \in S : x <= b
  PROVE  Max(S) \in S /\ \A x \in S : x <= Max(S)
<1> DEFINE T == {n \in Nat : b - n \in S}
<1>1. T \subseteq Nat /\ T # {}
  <2>1. PICK x \in S : TRUE
    OBVIOUS
  <2>2. b - x \in T
    BY <2>1
  <2> QED
    BY <2>2
<1>2. PICK m \in T : \A n \in T : ~ (<<n, m>> \in OpToRel(<, Nat))
  <2> HIDE DEF T
  <2> QED
    BY <1>1, NatLessThanWellFounded, WFMin
<1>3. \A n \in T : ~ (n < m)
  BY <1>2 DEF OpToRel
<1>4. b - m \in S /\ \A x \in S : b - m >= x
  <2>1. ASSUME NEW x \in S PROVE b - m >= x
    <3>1. b - x \in T /\ b - x \in Nat /\ m \in Nat /\ x \in Nat
      OBVIOUS
    <3>2. ~ (b - x < m)
      BY <3>1, <1>3
    <3> HIDE DEF T
    <3> QED
      BY <3>1, <3>2
  <2> QED
    BY <2>1, <1>2
<1>5. Max(S) \in S /\ \A y \in S : Max(S) >= y
  BY <1>4 DEF Max
<1> QED
  BY <1>5

\* Two rounds that save a day are at least a day's rounds apart.
LEMMA Multiples ==
  ASSUME NEW K \in Nat \ {0}, NEW n \in Nat, NEW m \in Nat, n % K = 0, m % K = 0, n < m
  PROVE  m - n >= K
<1>1. n = K * (n \div K) /\ m = K * (m \div K) /\ n \div K \in Int /\ m \div K \in Int
  OBVIOUS
<1> DEFINE a == n \div K
           b == m \div K
<1> HIDE DEF a, b
<1>2. n = K * a /\ m = K * b /\ a \in Int /\ b \in Int
  BY <1>1 DEF a, b
<1>3. b - a >= 1
  <2> SUFFICES ASSUME a - b >= 0 PROVE FALSE
    BY <1>2
  <2>1. K * (a - b) >= 0
    BY <1>2
  <2> QED
    BY <1>2, <2>1
<1>4. K * (b - a - 1) >= 0
  BY <1>2, <1>3
<1> QED
  BY <1>2, <1>4

\* The rounds of a day.
DayRounds == ONE_DAY_TIME \div FLUSH_TIME

\* They take a day at least.
LEMMA DayIs == DayRounds \in Nat \ {0} /\ ONE_DAY_TIME = FLUSH_TIME * DayRounds
<1>1. /\ DayRounds \in Nat
      /\ ONE_DAY_TIME = FLUSH_TIME * DayRounds
  BY TimeAssumption DEF DayRounds
<1>2. DayRounds # 0
  BY <1>1, TimeAssumption
<1> QED
  BY <1>1, <1>2

\* The clock and the rounds of StatsThread.
Rounds ==
  /\ today >= ONE_DAY_TIME /\ timestamp <= today
  /\ pc \in {"off", "dup"} => first
  /\ first => pc \notin {"hour", "flush", "day", "commit"}
  /\ pc = "day" => Every(ONE_DAY_TIME)

\* A day is saved in a round whose number is a multiple of DayRounds, and each
\* round since then took FLUSH_TIME at least.  After a restart the rounds begin
\* again and any day was saved before.
Behind ==
  \A d \in daily :
    \E n \in 0 .. times :
      /\ n % DayRounds = 0
      /\ d.ts + FLUSH_TIME * (times - n) <= today
      /\ ~ first /\ pc \in {"get_views", "averages", "hour", "flush"} => n < times
      /\ pc = "day" => n < times \/ (d.ts = timestamp /\ d.view \notin todo)

\* The hours of a day are of its view and before it.
InDay == \A d \in daily : \A r \in d.hours : r.view = d.view /\ r.ts < d.ts

\* Two days of a view have no hour in common.
DaysApart == \A d, e \in daily : d # e /\ d.view = e.view => d.hours \cap e.hours = {}

DayInv == TypeInv /\ Rounds /\ Behind /\ InDay /\ DaysApart

\* At first no day is saved.
LEMMA InitDay == Init => DayInv
  BY InitTypes, TimeAssumption DEF Init, DayInv, Rounds, Behind, InDay, DaysApart

\* Every step keeps the clock and the number of the round together.
LEMMA RoundsStep == ASSUME TypeInv, Rounds, [Next]_vars PROVE Rounds'
<1> USE TimeAssumption, BoundAssumption DEF Rounds, TypeInv, Stamp, clock, tables, ghosts, Goto
<1>1. CASE post
  <2>1. today' \in Nat /\ today <= today' /\ timestamp' = timestamp /\ first' = first
    BY <1>1 DEF post
  <2> QED
    BY <1>1, <2>1 DEF post
<1>2. CASE get_views
  <2>1. whole_point(today) <= today /\ whole_point(today) \in Nat
    BY WholePointType
  <2> QED
    BY <1>2, <2>1 DEF get_views
<1>3. CASE save_averages
  BY <1>3 DEF save_averages, AfterHour, Every
<1>4. CASE flush_data
  BY <1>4 DEF flush_data, AfterHour, Every
<1>5. CASE finally
  <2>1. today' \in Nat /\ today <= today' /\ timestamp' = timestamp
    BY <1>5 DEF finally
  <2> QED
    BY <1>5, <2>1 DEF finally
<1>6. CASE restart
  BY <1>6 DEF restart
<1>7. CASE \/ \E v \in View : query(v)
           \/ flush_stats \/ restart_daemon \/ save_one_hour_data \/ save_one_hour_data_return
           \/ save_one_day_data \/ delete_data \/ commit \/ raise \/ UNCHANGED vars
  <2>1. UNCHANGED <<today, timestamp, first, times>>
    BY <1>7 DEF query, flush_stats, restart_daemon, save_one_hour_data, save_one_hour_data_return,
       save_one_day_data, delete_data, commit, raise, vars
  <2>2. \/ pc' = pc
        \/ pc' = "flush" /\ pc = "hour"
        \/ pc' = "commit" /\ pc = "day"
        \/ pc' = "finally"
    BY <1>7 DEF query, flush_stats, restart_daemon, save_one_hour_data, save_one_hour_data_return,
       save_one_day_data, delete_data, commit, raise, vars
  <2> QED
    BY <2>1, <2>2 DEF Every
<1>8. CASE read /\ UNCHANGED <<counts, pending, nquery, pc, clock, timestamp, views, todo, tables, nfail, ghosts>>
  BY <1>8 DEF Every
<1> QED
  BY <1>1, <1>2, <1>3, <1>4, <1>5, <1>6, <1>7, <1>8 DEF Next, run, daemon

\* Rounds that passed took no negative time.
LEMMA Passed ==
  ASSUME NEW m \in Nat, NEW n \in 0 .. m
  PROVE  /\ FLUSH_TIME * (m - n) \in Nat
         /\ FLUSH_TIME * (m + 1 - n) = FLUSH_TIME * (m - n) + FLUSH_TIME
<1>1. m - n \in Nat
  OBVIOUS
<1> QED
  BY <1>1, TimeAssumption

\* Each day falls behind the clock by the rounds since then.
LEMMA BehindStep == ASSUME TypeInv, Rounds, Behind, [Next]_vars PROVE Behind'
<1> USE DEF clock, tables, ghosts, Goto
<1> /\ today \in Nat /\ timestamp \in Nat /\ times \in Nat
    /\ \A d \in daily : d.ts \in Nat
  BY BoundAssumption DEF TypeInv, Stamp
<1>1. ASSUME daily' \subseteq daily, times' = times, today' \in Nat, today <= today',
             ~ first' /\ pc' \in {"get_views", "averages", "hour", "flush"} =>
               ~ first /\ pc \in {"get_views", "averages", "hour", "flush"},
             pc' = "day" => \/ ~ first /\ pc \in {"get_views", "averages", "hour", "flush"}
                            \/ pc = "day" /\ timestamp' = timestamp /\ todo' \subseteq todo
      PROVE  Behind'
  <2> SUFFICES ASSUME NEW d \in daily'
               PROVE  \E n \in 0 .. times :
                        /\ n % DayRounds = 0
                        /\ d.ts + FLUSH_TIME * (times - n) <= today'
                        /\ ~ first' /\ pc' \in {"get_views", "averages", "hour", "flush"} => n < times
                        /\ pc' = "day" => n < times \/ (d.ts = timestamp' /\ d.view \notin todo')
    BY <1>1 DEF Behind, DayRounds
  <2>1. PICK n \in 0 .. times :
          /\ n % DayRounds = 0
          /\ d.ts + FLUSH_TIME * (times - n) <= today
          /\ ~ first /\ pc \in {"get_views", "averages", "hour", "flush"} => n < times
          /\ pc = "day" => n < times \/ (d.ts = timestamp /\ d.view \notin todo)
    BY <1>1 DEF Behind
  <2>2. d.ts + FLUSH_TIME * (times - n) <= today'
    <3>1. FLUSH_TIME * (times - n) \in Nat /\ d.ts \in Nat
      BY <1>1, Passed
    <3> QED
      BY <3>1, <2>1, <1>1
  <2> QED
    BY <2>1, <2>2, <1>1
<1>2. CASE post
  <2>1. today' \in Nat /\ today <= today'
    BY <1>2, BoundAssumption DEF post
  <2>2. first' = first /\ first
    BY <1>2 DEF post, Rounds
  <2> QED
    BY <1>1, <1>2, <2>1, <2>2 DEF post
<1>3. CASE save_averages
  BY <1>1, <1>3 DEF save_averages, AfterHour
<1>4. CASE flush_data
  BY <1>1, <1>4 DEF flush_data, AfterHour, Rounds
<1>5. CASE get_views \/ save_one_hour_data_return \/ delete_data \/ commit \/ raise
  <2>1. UNCHANGED <<daily, times, today, first>>
    BY <1>5 DEF get_views, save_one_hour_data_return, delete_data, commit, raise
  <2>2. pc' \in {"get_views", "averages", "hour", "flush"} => pc \in {"get_views", "averages", "hour", "flush"}
    BY <1>5 DEF get_views, save_one_hour_data_return, delete_data, commit, raise
  <2>3. pc' # "day"
    BY <1>5 DEF get_views, save_one_hour_data_return, delete_data, commit, raise
  <2> QED
    BY <1>1, <2>1, <2>2, <2>3
<1>6. CASE (\E v \in View : query(v)) \/ flush_stats \/ restart_daemon \/ save_one_hour_data \/ UNCHANGED vars
  <2>1. UNCHANGED <<daily, times, today, first, pc, timestamp>> /\ todo' \subseteq todo
    BY <1>6 DEF query, flush_stats, restart_daemon, save_one_hour_data, vars
  <2> QED
    BY <1>1, <2>1
<1>7. CASE read /\ UNCHANGED <<counts, pending, nquery, pc, clock, timestamp, views, todo, tables, nfail, ghosts>>
  BY <1>1, <1>7
<1>8. CASE save_one_day_data
  <2>1. /\ pc = "day" /\ UNCHANGED <<times, today, first, pc, timestamp>> /\ todo' \subseteq todo
        /\ \A d \in daily' : d \in daily \/ (d.ts = timestamp /\ d.view \notin todo')
    BY <1>8 DEF save_one_day_data, InsertDay
  <2>2. times % DayRounds = 0
    BY <2>1 DEF Rounds, Every, DayRounds
  <2> SUFFICES ASSUME NEW d \in daily'
               PROVE  \E n \in 0 .. times :
                        /\ n % DayRounds = 0
                        /\ d.ts + FLUSH_TIME * (times - n) <= today
                        /\ n < times \/ (d.ts = timestamp /\ d.view \notin todo')
    BY <2>1 DEF Behind, DayRounds
  <2>3. CASE d \in daily
    <3>1. PICK n \in 0 .. times :
            /\ n % DayRounds = 0
            /\ d.ts + FLUSH_TIME * (times - n) <= today
            /\ n < times \/ (d.ts = timestamp /\ d.view \notin todo)
      BY <2>1, <2>3 DEF Behind
    <3> QED
      BY <3>1, <2>1
  <2>4. CASE d.ts = timestamp /\ d.view \notin todo'
    <3>1. d.ts + FLUSH_TIME * (times - times) <= today /\ times \in 0 .. times
      BY <2>4, TimeAssumption DEF Rounds
    <3> QED
      BY <3>1, <2>2, <2>4
  <2> QED
    BY <2>1, <2>3, <2>4
<1>9. CASE finally
  <2>1. PICK e \in 0 .. MaxDelay : today' = today + FLUSH_TIME + e
    BY <1>9 DEF finally
  <2>2. daily' = daily /\ times' = times + 1 /\ pc' = "get_views"
    BY <1>9 DEF finally
  <2> SUFFICES ASSUME NEW d \in daily
               PROVE  \E n \in 0 .. times + 1 :
                        /\ n % DayRounds = 0
                        /\ d.ts + FLUSH_TIME * (times + 1 - n) <= today'
                        /\ n < times + 1
    BY <2>2 DEF Behind, DayRounds
  <2>3. PICK n \in 0 .. times : n % DayRounds = 0 /\ d.ts + FLUSH_TIME * (times - n) <= today
    BY DEF Behind
  <2>4. /\ FLUSH_TIME * (times - n) \in Nat
        /\ FLUSH_TIME * (times + 1 - n) = FLUSH_TIME * (times - n) + FLUSH_TIME
    BY Passed
  <2>5. d.ts + FLUSH_TIME * (times + 1 - n) <= today'
    <3> DEFINE p == FLUSH_TIME * (times - n)
    <3>1. p \in Nat /\ d.ts \in Nat /\ d.ts + p <= today /\ FLUSH_TIME * (times + 1 - n) = p + FLUSH_TIME
      BY <2>3, <2>4
    <3> HIDE DEF p
    <3> QED
      BY <3>1, <2>1, TimeAssumption, BoundAssumption
  <2>6. n \in 0 .. times + 1 /\ n < times + 1
    OBVIOUS
  <2> QED
    BY <2>3, <2>5, <2>6
<1>10. CASE restart
  <2>1. daily' \subseteq daily /\ times' = 0 /\ today' = today /\ pc' = "off"
    BY <1>10 DEF restart
  <2> SUFFICES ASSUME NEW d \in daily
               PROVE  0 % DayRounds = 0 /\ d.ts + FLUSH_TIME * (0 - 0) <= today
    BY <2>1 DEF Behind, DayRounds
  <2>2. PICK n \in 0 .. times : d.ts + FLUSH_TIME * (times - n) <= today
    BY DEF Behind
  <2>3. d.ts <= today
    <3>1. FLUSH_TIME * (times - n) \in Nat /\ d.ts \in Nat
      BY Passed
    <3> QED
      BY <3>1, <2>2
  <2> QED
    BY <2>3, DayIs, TimeAssumption
<1> QED
  BY <1>2, <1>3, <1>4, <1>5, <1>6, <1>7, <1>8, <1>9, <1>10 DEF Next, run, daemon

\* The hours of the day that is being saved are its own: those of the last day
\* of the view were taken a day before at least.
LEMMA NewDay ==
  ASSUME DayInv, pc = "day", NEW v \in todo
  PROVE  /\ \A r \in OfLastDay(v) : r.view = v /\ r.ts < timestamp
         /\ \A d \in daily : d.view = v => d.hours \cap OfLastDay(v) = {}
<1> USE DEF DayInv
<1>1. \A r \in OfLastDay(v) : r.view = v /\ r.ts < timestamp
  BY DEF OfLastDay
<1>2. ASSUME NEW d \in daily, d.view = v PROVE d.hours \cap OfLastDay(v) = {}
  <2>1. /\ times \in Nat /\ times % DayRounds = 0
        /\ today \in Nat /\ today - ONE_DAY_TIME \in Nat
        /\ d.ts \in Nat /\ d.ts % FLUSH_TIME = 0
    BY TimeAssumption, BoundAssumption DEF Rounds, TypeInv, Stamp, Every, DayRounds
  <2>2. PICK n \in 0 .. times :
          n % DayRounds = 0 /\ d.ts + FLUSH_TIME * (times - n) <= today /\ n < times
    BY <1>2 DEF Behind
  <2>3. times - n >= DayRounds
    <3>1. DayRounds \in Nat \ {0} /\ n \in Nat
      BY DayIs, <2>1
    <3> QED
      BY <3>1, <2>1, <2>2, Multiples
  <2>4. d.ts + ONE_DAY_TIME <= today
    <3> DEFINE m == times - n
    <3>1. m \in Nat /\ m >= DayRounds /\ DayRounds \in Nat
      BY <2>1, <2>3, DayIs
    <3>2. FLUSH_TIME * (m - DayRounds) >= 0 /\ FLUSH_TIME \in Nat
      <4> HIDE DEF m
      <4> QED
        BY <3>1, TimeAssumption
    <3>3. d.ts + FLUSH_TIME * m <= today
      BY <2>2
    <3> HIDE DEF m
    <3>4. FLUSH_TIME * m >= ONE_DAY_TIME /\ FLUSH_TIME * m \in Nat
      BY <3>1, <3>2, DayIs
    <3> QED
      BY <3>3, <3>4, <2>1, TimeAssumption
  <2>5. d.ts <= whole_point(today - ONE_DAY_TIME)
    <3>1. whole_point(d.ts) <= whole_point(today - ONE_DAY_TIME)
      <4>1. d.ts <= today - ONE_DAY_TIME
        BY <2>1, <2>4, TimeAssumption
      <4> QED
        BY <4>1, <2>1, WholePoint
    <3>2. whole_point(d.ts) = d.ts
      BY <2>1 DEF whole_point
    <3> QED
      BY <3>1, <3>2
  <2>6. \A r \in OfLastDay(v) : d.ts <= r.ts /\ r.ts \in Nat
    <3>1. whole_point(today - ONE_DAY_TIME) \in Nat
      BY <2>1, WholePointType
    <3> QED
      BY <2>1, <2>5, <3>1 DEF OfLastDay, TypeInv, Stamp
  <2> QED
    BY <2>1, <2>6 DEF InDay
<1> QED
  BY <1>1, <1>2

\* Every step keeps the days apart.
LEMMA DaysApartStep == ASSUME DayInv, [Next]_vars PROVE InDay' /\ DaysApart'
<1> USE DEF DayInv, InDay, DaysApart
<1>1. CASE daily' \subseteq daily
  BY <1>1
<1>2. CASE save_one_day_data
  <2>1. pc = "day"
    BY <1>2 DEF save_one_day_data
  <2>2. PICK v \in todo :
          daily' \subseteq daily \cup {[view |-> v, ts |-> timestamp, hours |-> OfLastDay(v)]}
    BY <1>2 DEF save_one_day_data, InsertDay
  <2> DEFINE new == [view |-> v, ts |-> timestamp, hours |-> OfLastDay(v)]
  <2>3. /\ \A r \in OfLastDay(v) : r.view = v /\ r.ts < timestamp
        /\ \A d \in daily : d.view = v => d.hours \cap OfLastDay(v) = {}
    BY <2>1, NewDay
  <2>4. new.view = v /\ new.ts = timestamp /\ new.hours = OfLastDay(v)
    OBVIOUS
  <2> HIDE DEF new
  <2>5. daily' \subseteq daily \cup {new}
    BY <2>2 DEF new
  <2> QED
    BY <2>3, <2>4, <2>5
<1> QED
  BY <1>1, <1>2 DEF Next, run, daemon, clock, tables, query, flush_stats, restart_daemon, post, get_views, save_averages,
     save_one_hour_data, InsertHour, save_one_hour_data_return, flush_data, delete_data, commit, raise,
     finally, restart, vars

-----------------------------------------------------------------------------
(* What a report reads.                                                    *)

RowOfHour == [view : View, ts : Stamp, ids : SUBSET (1 .. MaxQuery)]
RowOfDay == [view : View, ts : Stamp, hours : SUBSET Hour]

ReportType ==
  /\ report \in [at : {"idle", "latest", "recent", "union"}, view : SUBSET View,
                 v_date : Nat, v_end : Nat, long : SUBSET RowOfDay, latest : Nat, recent : SUBSET RowOfHour]
  /\ old.hours \subseteq RowOfHour

\* Whether the report asks for the day d.
Asked(d) == report.v_date <= d.ts /\ d.ts < report.v_end

\* The daily rows of the view are those there were, and rows stay.
Begun ==
  report.at # "idle" =>
    /\ \E v \in View : report.view = {v} /\ report.long = {d \in old.days : d.view = v /\ Asked(d)}
    /\ old.hours \subseteq hourly /\ old.days \subseteq daily

\* The time it found is of a daily row, and not before any of those there were.
LatestFound ==
  report.at \in {"recent", "union"} =>
    /\ report.latest = 0 \/ \E d \in daily : d.ts = report.latest
    /\ \A d \in old.days : d.ts <= report.latest

\* The hourly rows are those since then.
RecentRead ==
  report.at = "union" =>
    /\ \A r \in report.recent : report.latest <= r.ts
    /\ \A r \in old.hours :
         r.view \in report.view /\ report.latest <= r.ts /\ r.ts < report.v_end => r \in report.recent

ReaderInv == ReportType /\ Begun /\ LatestFound /\ RecentRead

\* No report is begun at first.
LEMMA InitReader == Init => ReaderInv
  BY DEF Init, ReaderInv, ReportType, Begun, LatestFound, RecentRead, NoReport, NoRows

\* The last of the daily rows.
LEMMA LatestIs ==
  ASSUME TypeInv, Rounds, Behind
  PROVE  /\ Latest \in Nat
         /\ Latest = 0 \/ \E d \in daily : d.ts = Latest
         /\ \A d \in daily : d.ts <= Latest
<1> DEFINE S == {d.ts : d \in daily} \cup {0}
<1>1. \A d \in daily : d.ts \in Nat /\ d.ts <= today
  <2> SUFFICES ASSUME NEW d \in daily PROVE d.ts \in Nat /\ d.ts <= today
    OBVIOUS
  <2>1. PICK n \in 0 .. times : d.ts + FLUSH_TIME * (times - n) <= today
    BY DEF Behind
  <2>2. FLUSH_TIME * (times - n) \in Nat /\ d.ts \in Nat /\ today \in Nat
    BY Passed, BoundAssumption DEF TypeInv, Stamp
  <2> QED
    BY <2>1, <2>2
<1>2. S \subseteq Nat /\ S # {} /\ today \in Nat /\ \A x \in S : x <= today
  BY <1>1 DEF TypeInv
<1>3. Max(S) \in S /\ \A x \in S : x <= Max(S)
  <2> HIDE DEF S
  <2> QED
    BY <1>2, MaxIs
<1> QED
  BY <1>2, <1>3 DEF Latest

\* Neither a step of the programs nor one of the handler spoils the report.
LEMMA ReaderStep ==
  ASSUME DayInv, ReaderInv, [Next]_vars
  PROVE  ReaderInv'
<1> USE DEF ReaderInv
<1>1. ASSUME UNCHANGED reader, hourly \subseteq hourly', daily \subseteq daily' PROVE ReaderInv'
  BY <1>1 DEF reader, ReportType, Begun, Asked, LatestFound, RecentRead
<1>2. ASSUME report' = NoReport, old' = NoRows PROVE ReaderInv'
  BY <1>2 DEF NoReport, NoRows, ReportType, Begun, Asked, LatestFound, RecentRead
<1>3. CASE (daemon \/ post \/ run) /\ UNCHANGED reader
  <2>1. hourly \subseteq hourly' /\ daily \subseteq daily'
    BY <1>3 DEF run, daemon, tables, query, flush_stats, restart_daemon, post, get_views, save_averages, save_one_hour_data,
       InsertHour, save_one_hour_data_return, flush_data, save_one_day_data, InsertDay, delete_data,
       commit, raise, finally
  <2> QED
    BY <1>1, <1>3, <2>1
<1>4. ASSUME NEW v \in View, NEW from \in Dates, NEW until \in Dates, get_long(v, from, until),
             UNCHANGED tables
      PROVE  ReaderInv'
  <2> DEFINE long == {d \in daily : d.view = v /\ from <= d.ts /\ d.ts < until}
  <2>1. /\ report' = [NoReport EXCEPT !.at = "latest", !.view = {v}, !.v_date = from, !.v_end = until,
                                      !.long = long]
        /\ old' = [hours |-> hourly, days |-> daily]
        /\ UNCHANGED <<hourly, daily>>
    BY <1>4 DEF get_long, tables
  <2>2. report' = [at |-> "latest", view |-> {v}, v_date |-> from, v_end |-> until, long |-> long,
                   latest |-> 0, recent |-> {}]
    BY <2>1 DEF NoReport
  <2>3. hourly \subseteq RowOfHour /\ daily \subseteq RowOfDay
    BY DEF DayInv, TypeInv, RowOfHour, RowOfDay
  <2>4. ReportType'
    <3>1. long \in SUBSET RowOfDay /\ {v} \in SUBSET View /\ from \in Nat /\ until \in Nat
      BY <2>3, BoundAssumption
    <3>2. report' \in [at : {"idle", "latest", "recent", "union"}, view : SUBSET View,
                       v_date : Nat, v_end : Nat, long : SUBSET RowOfDay, latest : Nat, recent : SUBSET RowOfHour]
      BY <2>2, <3>1
    <3>3. old'.hours = hourly
      BY <2>1
    <3> QED
      BY <2>3, <3>2, <3>3 DEF ReportType
  <2>5. Begun'
    <3>1. report'.view = {v} /\ report'.v_date = from /\ report'.v_end = until /\ report'.long = long
      BY <2>2
    <3>2. old'.days = daily /\ old'.hours = hourly
      BY <2>1
    <3> QED
      BY <2>1, <3>1, <3>2 DEF Begun, Asked
  <2>6. report'.at = "latest"
    BY <2>2
  <2> QED
    BY <2>4, <2>5, <2>6 DEF LatestFound, RecentRead
<1>5. CASE _get_latest_time /\ UNCHANGED tables
  <2>1. /\ report.at = "latest"
        /\ report' = [report EXCEPT !.at = "recent", !.latest = Latest]
        /\ UNCHANGED <<old, hourly, daily>>
    BY <1>5 DEF _get_latest_time, tables
  <2>2. /\ Latest \in Nat
        /\ Latest = 0 \/ \E d \in daily : d.ts = Latest
        /\ \A d \in daily : d.ts <= Latest
    BY LatestIs DEF DayInv
  <2>3. /\ report'.at = "recent" /\ report'.latest = Latest /\ report'.view = report.view
        /\ report'.long = report.long /\ report'.recent = report.recent
        /\ report'.v_date = report.v_date /\ report'.v_end = report.v_end
    BY <2>1 DEF ReportType
  <2>4. ReportType'
    BY <2>1, <2>2 DEF ReportType, RowOfHour, RowOfDay, Hour
  <2>5. Begun'
    BY <2>1, <2>3 DEF Begun, Asked
  <2>6. LatestFound'
    BY <2>1, <2>2, <2>3 DEF LatestFound, Begun
  <2> QED
    BY <2>3, <2>4, <2>5, <2>6 DEF RecentRead
<1>6. CASE get_recent /\ UNCHANGED tables
  <2>1. /\ report.at = "recent"
        /\ report' = [report EXCEPT !.at = "union",
             !.recent = {r \in hourly : /\ r.view \in report.view
                                        /\ report.latest <= r.ts /\ r.ts < report.v_end}]
        /\ UNCHANGED <<old, hourly, daily>>
    BY <1>6 DEF get_recent, tables
  <2>2. /\ report'.at = "union" /\ report'.latest = report.latest /\ report'.view = report.view
        /\ report'.long = report.long
        /\ report'.v_date = report.v_date /\ report'.v_end = report.v_end
        /\ report'.recent = {r \in hourly : /\ r.view \in report.view
                                            /\ report.latest <= r.ts /\ r.ts < report.v_end}
    BY <2>1 DEF ReportType
  <2>3. hourly \subseteq RowOfHour /\ report.latest \in Nat /\ \A r \in hourly : r.ts \in Nat
    BY DEF DayInv, TypeInv, RowOfHour, ReportType, Stamp
  <2>4. ReportType'
    <3>1. report'.recent \subseteq RowOfHour
      BY <2>2, <2>3
    <3> QED
      BY <2>1, <2>2, <3>1 DEF ReportType, RowOfHour, RowOfDay, Hour
  <2>5. Begun'
    BY <2>1, <2>2 DEF Begun, Asked
  <2>6. LatestFound'
    BY <2>1, <2>2 DEF LatestFound
  <2>7. RecentRead'
    BY <2>1, <2>2, <2>3 DEF RecentRead, Begun
  <2> QED
    BY <2>4, <2>5, <2>6, <2>7
<1>7. CASE _get_union_result
  BY <1>2, <1>7 DEF _get_union_result
<1>8. CASE restart
  BY <1>2, <1>8 DEF restart
<1>9. CASE UNCHANGED vars
  BY <1>1, <1>9 DEF vars, tables, reader
<1> QED
  BY <1>3, <1>4, <1>5, <1>6, <1>7, <1>8, <1>9 DEF Next, read

ReportInv == DayInv /\ ReaderInv

\* Every state of the system keeps the days apart and the report sound.
LEMMA ReportInvariant == Spec => []ReportInv
<1>1. Init => ReportInv
  BY InitDay, InitReader DEF ReportInv
<1>2. ReportInv /\ [Next]_vars => ReportInv'
  BY Typing, RoundsStep, BehindStep, DaysApartStep, ReaderStep DEF ReportInv, DayInv
<1> QED
  BY <1>1, <1>2, PTL DEF Spec

\* A report counts no hour twice: the windows of db_handler.py:118-136, the
\* rounds of log_server.py:36-74 and the three queries of
\* db_handler.py:207-250.
THEOREM ReportedOnceTheorem == Spec => []ReportedOnce
<1>1. ReportInv => ReportedOnce
  <2> SUFFICES ASSUME ReportInv, report.at = "union", NEW d \in report.long
               PROVE  /\ d.hours \cap report.recent = {}
                      /\ \A e \in report.long \ {d} : d.hours \cap e.hours = {}
    BY DEF ReportedOnce
  <2> USE DEF ReportInv, DayInv, ReaderInv
  <2>1. PICK v \in View : report.long = {e \in old.days : e.view = v /\ Asked(e)}
    BY DEF Begun
  <2>2. old.days \subseteq daily
    BY DEF Begun
  <2>3. ASSUME NEW r \in d.hours, r \in report.recent PROVE FALSE
    <3>1. d \in daily /\ d \in old.days
      BY <2>1, <2>2
    <3>2. r.ts < d.ts /\ d.ts <= report.latest /\ report.latest <= r.ts
      BY <2>3, <3>1 DEF InDay, LatestFound, RecentRead
    <3>3. r.ts \in Nat /\ d.ts \in Nat /\ report.latest \in Nat
      BY <2>3, <3>1 DEF ReportType, RowOfHour, Stamp, TypeInv
    <3> QED
      BY <3>2, <3>3
  <2>4. \A e \in report.long \ {d} : d.hours \cap e.hours = {}
    BY <2>1, <2>2 DEF DaysApart
  <2> QED
    BY <2>3, <2>4
<1> QED
  BY <1>1, ReportInvariant, PTL

\* What a report misses between its dates, it misses because of a day that was
\* saved while it was read, or without the hour, or that is stamped after the
\* report ends: the bounds of db_handler.py:118-136, and the query of
\* db_handler.py:234-241, which asks for the last day of any view.
THEOREM ReportMissesTheorem == Spec => []ReportMisses
<1>1. ReportInv => ReportMisses
  <2> SUFFICES ASSUME ReportInv, report.at = "union",
                      NEW r \in old.hours, r \notin Reported, r.view \in report.view,
                      report.v_date <= r.ts, r.ts < report.v_end,
                      \A d \in old.days : r \in d.hours => ~ (report.v_end <= d.ts)
               PROVE  \/ \E d \in daily \ old.days : d.ts > r.ts
                      \/ /\ \E d \in old.days : d.ts > r.ts
                         /\ \A d \in old.days : r \notin d.hours
    BY DEF ReportMisses
  <2> USE DEF ReportInv, DayInv, ReaderInv
  <2>1. PICK v \in View : /\ report.view = {v}
                          /\ report.long = {e \in old.days : e.view = v /\ Asked(e)}
    BY DEF Begun
  <2>2. r.ts \in Nat /\ report.latest \in Nat /\ report.v_date \in Nat /\ report.v_end \in Nat
    BY DEF ReportType, RowOfHour, Stamp
  <2>3. r.ts < report.latest
    <3>1. r \notin report.recent
      BY DEF Reported
    <3>2. ~ (report.latest <= r.ts)
      BY <3>1 DEF RecentRead
    <3> QED
      BY <2>2, <3>2
  <2>4. PICK d \in daily : d.ts = report.latest
    BY <2>2, <2>3 DEF LatestFound
  <2>5. ASSUME NEW e \in old.days, r \in e.hours PROVE FALSE
    <3>1. e \in daily /\ e.ts \in Nat
      BY DEF Begun, TypeInv, Stamp
    <3>2. e.view = v /\ r.ts < e.ts
      BY <3>1, <2>1, <2>5 DEF InDay
    <3>3. Asked(e)
      BY <2>2, <2>5, <3>1, <3>2 DEF Asked
    <3> QED
      BY <2>1, <2>5, <3>2, <3>3 DEF Reported
  <2>6. d.ts > r.ts
    BY <2>2, <2>3, <2>4
  <2> QED
    BY <2>4, <2>5, <2>6
<1> QED
  BY <1>1, ReportInvariant, PTL
=============================================================================
