---------------------------- MODULE MCOrchestrator ----------------------------
(* Instances of Orchestrator for TLC.                                      *)
EXTENDS Orchestrator, TLC

CONSTANTS i1, i2, i3

\* Every action treats the invocations alike.
Symmetry == Permutations(Invocation)
=============================================================================
