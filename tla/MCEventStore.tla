---------------------------- MODULE MCEventStore ----------------------------
(***************************************************************************)
(* Model-checking instance of EventStore.  EventIds bounds the number of   *)
(* appends that get as far as hashing.                                     *)
(***************************************************************************)
EXTENDS EventStore, TLC

\* Streams, ids and calls are interchangeable.
Symmetry == Permutations(EventIds) \cup Permutations(Appenders) \cup Permutations(Streams)
=============================================================================
