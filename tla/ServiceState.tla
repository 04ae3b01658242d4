---------------------------- MODULE ServiceState ----------------------------
(***************************************************************************)
(* What the services of src/aegis-cl-psi have in common.  Each keeps a map *)
(* of its own (`st') and one hash-chained log, or a log per peer (`logs'). *)
(* They run one at a time (`kind'): in the crate none of them calls        *)
(* another, and every method takes &mut self.                              *)
(*                                                                         *)
(* A service has one action per method that changes state, refusals        *)
(* included; `calls' is the history of those calls with what they          *)
(* returned, for the properties.                                           *)
(***************************************************************************)
EXTENDS Arithmetic, SequencesExt

CONSTANT Scope  \* per service: the peer ids, message ids (nonces, bytes) and
                \* epochs it is called with, and how often it is called (bounds)

ASSUME ScopeAssumption ==
    \A k \in DOMAIN Scope :
      /\ Scope[k].calls \in Nat /\ Scope[k].peers \subseteq Nat \ {0}
      /\ Scope[k].ids \subseteq Nat \ {0} /\ Scope[k].epochs \subseteq Nat
      /\ \A set \in {Scope[k].peers, Scope[k].ids, Scope[k].epochs} : IsFiniteSet(set)

VARIABLES kind, calls, logs, st

vars == <<kind, calls, logs, st>>

Peers == Scope[kind].peers
Ids == Scope[kind].ids
Epochs == Scope[kind].epochs

Serve(k) == kind = k /\ Len(calls) < Scope[k].calls

Return(op, args, result) ==
    /\ calls' = Append(calls, [op |-> op, args |-> args, result |-> result])
    /\ UNCHANGED kind

\* The fields of a record under its hash.  Some services store beside it what
\* they derive: utilisation and budget, the synchroniser's distance, a rate,
\* peak and trough of a momentum, an alert's trend, a message's payload and
\* tag, an audit's subsystem.
Hashed(data) ==
    CASE kind = "bandwidth_tracker" -> 1..5
      [] kind = "epoch_synchronizer" -> {1, 2, 4}
      [] kind = "backpressure_monitor" -> {1, 2, 3, 5}
      [] kind = "entropy_budget" -> {2, 3}
      [] kind \in {"momentum_tracker", "alert_engine", "gossip_scheduler", "quorum_drift"} -> 1..3
      [] kind \in {"message_authenticator", "epoch_auditor"} -> 1..4
      [] OTHER -> DOMAIN data

LogOf(owner) == Get(logs, owner, << >>)
Chained(owner, data) == Put(logs, owner, ChainPush(LogOf(owner), data, Hashed(data)))
LastRecord(owner) == LogOf(owner)[Len(LogOf(owner))].data

\* The members of a set in a total order: each stands behind those before it.
\* (SetToSortSeq says the same and tries every function from 1..n to the set.)
Sorted(set, Before(_, _)) ==
    [n \in 1..Cardinality(set) |->
       CHOOSE a \in set : Cardinality({ b \in set : Before(b, a) }) = n - 1]

\* One record per key, in the order of the keys.
ChainedInOrder(owner, keys, Before(_, _), Data(_)) ==
    Put(logs, owner, FoldLeft(LAMBDA l, k : ChainPush(l, Data(k), Hashed(Data(k))),
                              LogOf(owner), Sorted(keys, Before)))

Without(map, k) == [x \in DOMAIN map \ {k} |-> map[x]]
Dropping(map, ks) == [x \in DOMAIN map \ ks |-> map[x]]

-----------------------------------------------------------------------------
(* The history, for the properties. *)

\* The calls of one operation, by index.
Made(op) == { i \in DOMAIN calls : calls[i].op = op }
Arg(i, n) == calls[i].args[n]
Got(i, result) == calls[i].result = result
Between(i, j) == (i + 1)..(j - 1)

\* The records of a log with value v in field f, and that field of all.
Records(owner, f, v) == SelectSeq(LogOf(owner), LAMBDA r : r.data[f] = v)
FieldOf(log, f) == [n \in DOMAIN log |-> log[n].data[f]]
=============================================================================
