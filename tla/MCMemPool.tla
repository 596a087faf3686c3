----------------------------- MODULE MCMemPool -----------------------------
(***************************************************************************)
(* Two threads; pools of one element, which may grow to three, and of two. *)
(***************************************************************************)
EXTENDS MemPool

CONSTANTS t1, t2

MCThread == {t1, t2}
MCSize == {0, 1}
MCJunk == {NULL, 1}
=============================================================================
