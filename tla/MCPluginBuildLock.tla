-------------------------- MODULE MCPluginBuildLock --------------------------
(***************************************************************************)
(* Instances of PluginBuildLock for TLC.                                   *)
(***************************************************************************)
EXTENDS PluginBuildLock, TLC

CONSTANTS p1, p2, p3, g1, g2, g3, g4, here, there

\* All processes on one machine.
OneHost == [p \in Proc |-> here]

\* The last process works on a shared cache from another machine.
TwoHosts == [p \in Proc |-> IF p = p2 THEN there ELSE here]

GenSymmetry == Permutations(Gen)
ProcGenSymmetry == Permutations(Proc) \cup Permutations(Gen)
=============================================================================
