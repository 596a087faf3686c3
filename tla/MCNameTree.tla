----------------------------- MODULE MCNameTree -----------------------------
(* NameTree for TLC: names are interchangeable, a slot is known by its     *)
(* number.  A name takes two units of memory.                              *)
EXTENDS NameTree, TLC

Symmetry == Permutations(Name)
=============================================================================
