--------------------------- MODULE MCEpochFailsafe ---------------------------
(***************************************************************************)
(* Model-checking instance of EpochFailsafe.  MaxLog and MaxIngested bound *)
(* the activations and the events written.                                 *)
(***************************************************************************)
EXTENDS EpochFailsafe
=============================================================================
