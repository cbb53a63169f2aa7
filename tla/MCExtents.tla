----------------------------- MODULE MCExtents ------------------------------
(* Small programs for Extents. *)
EXTENDS Extents, TLC

CONSTANTS handler, level, x1, x2, x3, f1, f2, none

MCSymmetry == Permutations(Val) \union Permutations(Fun)
=============================================================================
