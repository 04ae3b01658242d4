--------------------------- MODULE MCMutationGate ---------------------------
(***************************************************************************)
(* Model-checking instance of MutationGate: a window of three and five     *)
(* requests, so that the window slides and a proposal is judged twice.     *)
(***************************************************************************)
EXTENDS MutationGate
=============================================================================
