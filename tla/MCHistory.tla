----------------------------- MODULE MCHistory -----------------------------
(***************************************************************************)
(* Two views, which nothing tells apart.                                   *)
(***************************************************************************)
EXTENDS History, TLC

CONSTANTS all, local

MCView == {all, local}
MCSymmetry == Permutations(MCView)
=============================================================================
