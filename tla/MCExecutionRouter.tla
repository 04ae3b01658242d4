-------------------------- MODULE MCExecutionRouter --------------------------
(***************************************************************************)
(* Model-checking instance of ExecutionRouter: two event classes, one of   *)
(* them the default, one unknown byte, a trail of two records.             *)
(***************************************************************************)
EXTENDS ExecutionRouter, TLC

\* "ff" is the byte no class is mapped to.
MCVerifierMap ==
    [v \in Verifiers \ {"ff", "empty"} |-> IF v = "00" THEN "governance" ELSE "telemetry"]

Symmetry == Permutations(Threads)
=============================================================================
