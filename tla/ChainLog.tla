----------------------------- MODULE ChainLog ------------------------------
(***************************************************************************)
(* The state every log of src/aegis-cl-psi shares and the one way it grows.*)
(* `kind' names the file whose log is running (the files do not interact,  *)
(* so one log at a time is general), `log' is its vector of entries and    *)
(* `aux' what the struct keeps beside it: a window, a map per peer, the    *)
(* last value seen, or nothing.                                            *)
(***************************************************************************)
EXTENDS Arithmetic

CONSTANTS
    MaxLen,     \* bound: entries of a log without a window
    WindowLen   \* bound: entries of a log with a window

ASSUME BoundsAssumption ==
    MaxLen \in Nat \ {0} /\ WindowLen \in Nat \ {0}

VARIABLES kind, log, aux

vars == <<kind, log, aux>>

\* An entry's hash covers all of its fields.
Push(data, next_aux) ==
    /\ log' = ChainPush(log, data, DOMAIN data)
    /\ aux' = next_aux
    /\ UNCHANGED kind

\* The log of the file k, with room for one more entry.
Of(k) == kind = k /\ Len(log) < MaxLen
WindowOf(k) == kind = k /\ Len(log) < WindowLen

\* epoch_end is handed in by the caller and only stored.
Epoch == Len(log) + 1

-----------------------------------------------------------------------------
(* The queries of the logs: a column, its total, mean, largest value. *)
Column(l, f) == [i \in DOMAIN l |-> l[i].data[f]]
total(l, f) == Total(Column(l, f))
average(l, f) == Mean(Column(l, f))
largest(l, f) == Max({0} \cup Range(Column(l, f)))
count(l, f, v) == Cardinality({ i \in DOMAIN l : l[i].data[f] = v })
=============================================================================
