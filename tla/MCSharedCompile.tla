--------------------------- MODULE MCSharedCompile ---------------------------
(***************************************************************************)
(* Instances of SharedCompile for TLC.                                     *)
(***************************************************************************)
EXTENDS SharedCompile, TLC

CONSTANTS c1, c2, c3
=============================================================================
