---------------------------- MODULE MCGoBuildCache ----------------------------
(***************************************************************************)
(* Instances of GoBuildCache for TLC.                                      *)
(***************************************************************************)
EXTENDS GoBuildCache, TLC

CONSTANTS p1, p2, p3, r1, r2, r3, r4

RecSymmetry == Permutations(Rec)
ProcRecSymmetry == Permutations(Proc) \cup Permutations(Rec)
=============================================================================
