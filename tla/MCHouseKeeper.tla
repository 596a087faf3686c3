--------------------------- MODULE MCHouseKeeper ---------------------------
(* HouseKeeper for TLC: two views of one zone, and a view whose name is    *)
(* too long, so that its lines count for the total alone.  The costs and   *)
(* the limit are such that two young views fit together, two older ones do *)
(* not, and the total alone outgrows the limit when it knows three names.  *)
(* n3 is a name that overruns its field.                                   *)
EXTENDS HouseKeeper, TLC

CONSTANTS v1, v2, long, total, star, n1, n2, n3, s1, s2, s3, c1, c2

MCKey == {v1, v2, long, total}
MCName == {n1, n2, n3}
MCStat == {s1, s2, s3}
MCAsked == {v1, star}

LineOf(v, n) == [view |-> v, total |-> total, name |-> n, ip |-> n]
MCLine == {LineOf(v1, n1), LineOf(v2, n1)} \cup {LineOf(long, n) : n \in MCName}

\* A few names again and again, most of them for the total alone, until it is
\* full of entries that cannot be deleted.
MCFewLines == {LineOf(v1, n1), LineOf(long, n1), LineOf(long, n3)}

\* Old contents of the count field: too small, or zero by chance.
MCGarbage == {-1, 0}

MCSymmetry == Permutations(MCStat) \cup Permutations({c1, c2})
=============================================================================
