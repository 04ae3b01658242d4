---------------------------- MODULE MCCoreMatrix ----------------------------
(***************************************************************************)
(* Model-checking instance of CoreMatrix.  RegionLen = 11 is two entries   *)
(* of five units and one unit over, the remainder of the real region.      *)
(***************************************************************************)
EXTENDS CoreMatrix
=============================================================================
