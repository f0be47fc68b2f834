----------------------------- MODULE MCLspProxy -----------------------------
(***************************************************************************)
(* Instances of LspProxy for TLC.                                          *)
(***************************************************************************)
EXTENDS LspProxy

CONSTANTS d1, d2, o1, o2, r1
=============================================================================
