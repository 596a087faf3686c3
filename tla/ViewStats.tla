------------------------------ MODULE ViewStats ------------------------------
(***************************************************************************)
(* The tables of log_view_stats.c: the index of a record type or response  *)
(* code, the counters, and the replies made from them.  Arrays begin at 0. *)
(***************************************************************************)
EXTENDS Integers, Sequences, SequencesExt

RCODE_MAX_NUM == 7
RTYPE_MAX_NUM == 12

RCODE == <<"NOERROR", "FORMATERR", "SERVFAIL", "NXDOMAIN", "NOTIMP", "REFUSED", "OTHER">>

\* "SPF" and "SRV" are one string, for want of a comma; the twelfth entry is
\* NULL.
RTYPE == <<"A", "MX", "AAAA", "CNAME", "NS", "SOA", "TXT", "SPFSRV", "DNAME", "NAPTR", "OTHER">>

\* Mutant: what is not in the table counts as the first entry.
IndexIn_First(table, max, s) ==
  IF Contains(table, s) THEN SelectInSeq(table, LAMBDA e : e = s) - 1 ELSE 0

\* The place of s; the last one if s is not in the table; -1 if the search
\* comes to a NULL, and strcmp to its end.
IndexIn(table, max, s) ==
  IF Contains(table, s) THEN SelectInSeq(table, LAMBDA e : e = s) - 1
  ELSE IF Len(table) < max THEN -1 ELSE max - 1

rcode_index(s) == IndexIn(RCODE, RCODE_MAX_NUM, s)
rtype_index(s) == IndexIn(RTYPE, RTYPE_MAX_NUM, s)

NoCounts == [rtype |-> [i \in 0 .. RTYPE_MAX_NUM - 1 |-> 0],
             rcode |-> [i \in 0 .. RCODE_MAX_NUM - 1 |-> 0]]

\* view_stats_rtype_increment and view_stats_rcode_increment: an index out of
\* bounds counts for nothing.
Incremented(array, i) == IF i \in DOMAIN array THEN [array EXCEPT ![i] = @ + 1] ELSE array

\* A reply: the names whose count is not zero, with their counts.
_view_stats_result1(array, table) ==
  {<<table[i + 1], array[i]>> : i \in {j \in DOMAIN array : array[j] # 0}}
=============================================================================
