--------------------------- MODULE ExecutionRouter ---------------------------
(***************************************************************************)
(* The execution router (router.py): registration until seal, then route() *)
(* from any number of threads.  The sequence number is drawn under the     *)
(* lock; classification, the handler and _append_audit run without it, and *)
(* _append_audit is a check, a slice, an assignment and an append on a     *)
(* shared list, with a thread switch possible between them.                *)
(*                                                                         *)
(* An event is what routing tells apart: its verifier byte, whether it     *)
(* exceeds the schema's sizes, whether the handler raises.                 *)
(***************************************************************************)
EXTENDS Naturals, Sequences, FiniteSets

CONSTANTS Threads,        \* threads that call route
          Classes,        \* event classes with a schema (SCHEMAS)
          VERIFIER_MAP,   \* verifier byte -> event class
          Verifiers,      \* verifier bytes an event can carry, "empty" included
          DefaultClass,   \* EventClass.GOVERNANCE
          MAX_AUDIT_TRAIL,
          MaxRoutes       \* bound: calls of route

ASSUME RouterAssumption ==
    /\ IsFiniteSet(Threads)
    /\ DOMAIN VERIFIER_MAP \subseteq Verifiers \ {"empty"}
    /\ \A v \in DOMAIN VERIFIER_MAP : VERIFIER_MAP[v] \in Classes
    /\ DefaultClass \in Classes
    /\ MAX_AUDIT_TRAIL \in Nat \ {0, 1}
    /\ MaxRoutes \in Nat

VARIABLES handlers,   \* classes with a registered handler
          sealed,
          sequence,   \* _sequence: the next number
          audit,      \* _audit: the list self._audit refers to
          call,       \* call[t]: what thread t is doing in route
          decided,    \* history: decisions whose _append_audit finished
          overlapped  \* history: two calls were inside route at the same time

router_vars == <<handlers, sealed, sequence, audit, call, decided, overlapped>>

NoClass == "none"
NoCall == [at |-> "idle"]
Outcomes == {"ROUTED", "REJECTED", "ERROR"}
Records == [sequence : Nat, verifier : Verifiers, outcome : Outcomes]

RouterTypeOK ==
    /\ handlers \subseteq Classes
    /\ sealed \in BOOLEAN
    /\ sequence \in Nat
    /\ audit \in Seq(Records)
    /\ DOMAIN call = Threads
    /\ \A t \in Threads :
          \/ call[t] = NoCall
          \/ call[t].at = "routing" /\ call[t].sequence \in Nat
          \/ call[t].at \in {"audit", "append"} /\ call[t].record \in Records
          \/ /\ call[t].at = "assign"
             /\ call[t].record \in Records
             /\ call[t].slice \in Seq(Records)
    /\ decided \in Seq(Records)
    /\ overlapped \in BOOLEAN

RouterInit ==
    /\ handlers = {}
    /\ sealed = FALSE
    /\ sequence = 0
    /\ audit = << >>
    /\ call = [t \in Threads |-> NoCall]
    /\ decided = << >>
    /\ overlapped = FALSE

\* The threads inside route.
Busy == {t \in Threads : call[t] # NoCall}

\* register raises when sealed or when the class has a handler.
register(c) ==
    /\ ~sealed
    /\ c \notin handlers
    /\ handlers' = handlers \cup {c}
    /\ UNCHANGED <<sealed, sequence, audit, call, decided, overlapped>>

seal ==
    /\ ~sealed
    /\ sealed' = TRUE
    /\ UNCHANGED <<handlers, sequence, audit, call, decided, overlapped>>

\* Mutant: the counter is advanced only when the call ends.
DrawSequenceLate(t) ==
    /\ call[t] = NoCall
    /\ sealed
    /\ sequence < MaxRoutes
    /\ sequence' = Len(decided) + 1
    /\ call' = [call EXCEPT ![t] = [at |-> "routing", sequence |-> Len(decided)]]
    /\ overlapped' = (overlapped \/ Busy # {})
    /\ UNCHANGED <<handlers, sealed, audit, decided>>

\* route: the number is drawn under the lock.
DrawSequence(t) ==
    /\ call[t] = NoCall
    /\ sealed
    /\ sequence < MaxRoutes
    /\ sequence' = sequence + 1
    /\ call' = [call EXCEPT ![t] = [at |-> "routing", sequence |-> sequence]]
    /\ overlapped' = (overlapped \/ Busy # {})
    /\ UNCHANGED <<handlers, sealed, audit, decided>>

\* _classify: an empty verifier is a governance event, an unknown byte none.
classify(v) ==
    IF v = "empty" THEN DefaultClass
    ELSE IF v \in DOMAIN VERIFIER_MAP THEN VERIFIER_MAP[v] ELSE NoClass

\* route's decision about an event.
Outcome(v, oversized, raises) ==
    CASE classify(v) = NoClass      -> "REJECTED"
      [] oversized                  -> "REJECTED"
      [] classify(v) \notin handlers -> "REJECTED"
      [] raises                     -> "ERROR"
      [] OTHER                      -> "ROUTED"

\* Mutant: the reason ends up where the outcome belongs.
Dispatch_reason(t, v, oversized, raises) ==
    /\ call[t].at = "routing"
    /\ call' = [call EXCEPT ![t] =
                  [at     |-> "audit",
                   record |-> [sequence |-> call[t].sequence, verifier |-> v,
                               outcome  |-> IF classify(v) = NoClass
                                            THEN "UNKNOWN_EVENT_CLASS"
                                            ELSE Outcome(v, oversized, raises)]]]
    /\ UNCHANGED <<handlers, sealed, sequence, audit, decided, overlapped>>

\* route classifies, validates and calls the handler.
Dispatch(t, v, oversized, raises) ==
    /\ call[t].at = "routing"
    /\ call' = [call EXCEPT ![t] =
                  [at     |-> "audit",
                   record |-> [sequence |-> call[t].sequence, verifier |-> v,
                               outcome  |-> Outcome(v, oversized, raises)]]]
    /\ UNCHANGED <<handlers, sealed, sequence, audit, decided, overlapped>>

LastN(s, n) == IF Len(s) <= n THEN s ELSE SubSeq(s, Len(s) - n + 1, Len(s))

\* Mutant: keeps the oldest records instead of the newest.
CheckCapacityKeepOldest(t) ==
    /\ call[t].at = "audit"
    /\ call' = [call EXCEPT ![t] =
                  IF Len(audit) >= MAX_AUDIT_TRAIL
                  THEN [at |-> "assign", record |-> call[t].record,
                        slice |-> SubSeq(audit, 1, MAX_AUDIT_TRAIL - 1)]
                  ELSE [at |-> "append", record |-> call[t].record]]
    /\ UNCHANGED <<handlers, sealed, sequence, audit, decided, overlapped>>

\* Mutant: evicts only past the limit, and one record at a time.
CheckCapacityOffByOne(t) ==
    /\ call[t].at = "audit"
    /\ call' = [call EXCEPT ![t] =
                  IF Len(audit) > MAX_AUDIT_TRAIL
                  THEN [at |-> "assign", record |-> call[t].record,
                        slice |-> LastN(audit, Len(audit) - 1)]
                  ELSE [at |-> "append", record |-> call[t].record]]
    /\ UNCHANGED <<handlers, sealed, sequence, audit, decided, overlapped>>

\* _append_audit: at capacity the newest MAX - 1 records are copied.
CheckCapacity(t) ==
    /\ call[t].at = "audit"
    /\ call' = [call EXCEPT ![t] =
                  IF Len(audit) >= MAX_AUDIT_TRAIL
                  THEN [at |-> "assign", record |-> call[t].record,
                        slice |-> LastN(audit, MAX_AUDIT_TRAIL - 1)]
                  ELSE [at |-> "append", record |-> call[t].record]]
    /\ UNCHANGED <<handlers, sealed, sequence, audit, decided, overlapped>>

\* self._audit = <the copy>
AssignSlice(t) ==
    /\ call[t].at = "assign"
    /\ audit' = call[t].slice
    /\ call' = [call EXCEPT ![t] = [at |-> "append", record |-> call[t].record]]
    /\ UNCHANGED <<handlers, sealed, sequence, decided, overlapped>>

\* self._audit.append(record), and route returns.
AppendRecord(t) ==
    /\ call[t].at = "append"
    /\ audit' = Append(audit, call[t].record)
    /\ decided' = Append(decided, call[t].record)
    /\ call' = [call EXCEPT ![t] = NoCall]
    /\ UNCHANGED <<handlers, sealed, sequence, overlapped>>

RouterNext ==
    \/ \E c \in Classes : register(c)
    \/ seal
    \/ \E t \in Threads :
        \/ DrawSequence(t)
        \/ \E v \in Verifiers, oversized, raises \in BOOLEAN :
              Dispatch(t, v, oversized, raises)
        \/ CheckCapacity(t)
        \/ AssignSlice(t)
        \/ AppendRecord(t)

RouterSpec == RouterInit /\ [][RouterNext]_router_vars

-----------------------------------------------------------------------------
\* The number a call in flight holds.
Holds(t) == IF call[t].at = "routing" THEN call[t].sequence ELSE call[t].record.sequence

\* Every number below the counter is held by exactly one call in flight or one
\* recorded decision: none is given out twice, none is skipped.
SequencesUnique ==
    LET recorded == {decided[i].sequence : i \in DOMAIN decided}
        held     == {Holds(t) : t \in Busy}
    IN  /\ recorded \cup held = 0..(sequence - 1)
        /\ Len(decided) + Cardinality(Busy) = sequence

\* The trail grows past its limit by at most the other threads that passed the
\* capacity check before one of them appended.
AuditBounded == Len(audit) <= MAX_AUDIT_TRAIL + Cardinality(Threads) - 1

\* As long as calls never overlapped, which is how the bridge's one thread runs
\* them, the trail is exactly the newest decisions in the order they were made;
\* when they did, it still exceeds its limit by at most one per further thread.
AuditIsRecent ==
    /\ ~overlapped /\ Busy = {} => audit = LastN(decided, MAX_AUDIT_TRAIL)
    /\ AuditBounded

\* What the router says: it is thread-safe and records all decisions, evicting
\* only the oldest, so the newest ones are in the trail when no call is running.
AuditKeepsRecent ==
    LET recent == LastN(decided, MAX_AUDIT_TRAIL)
    IN  Busy = {} => \A i \in DOMAIN recent : \E j \in DOMAIN audit : audit[j] = recent[i]
=============================================================================
