---------------------------- MODULE MCWatchSession ----------------------------
(***************************************************************************)
(* Instances of WatchSession for TLC; all parameters are set in the        *)
(* configurations.                                                         *)
(***************************************************************************)
EXTENDS WatchSession
=============================================================================
