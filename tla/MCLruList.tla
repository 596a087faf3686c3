----------------------------- MODULE MCLruList -----------------------------
(* LruList for TLC: three addresses are enough for a first, an inner and a *)
(* last node, so that every case of delete and move_to_first occurs; two   *)
(* data values tell the entry remove_tail returns from the others.         *)
EXTENDS LruList

CONSTANTS n1, n2, n3, d1, d2

MCNode == {n1, n2, n3}
MCData == {d1, d2}
=============================================================================
