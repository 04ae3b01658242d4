--------------------------- MODULE EpochFailsafe ---------------------------
(***************************************************************************)
(* The epoch failsafe (epoch_failsafe.py, EpochFailsafeController) and the *)
(* ingestion it is meant to stop (core_matrix.py, process_event).          *)
(*                                                                         *)
(* The controller's methods run under its own lock, but process_event,     *)
(* which holds the matrix lock, reads failsafe.state without that lock.    *)
(* _activate_quarantine passes through QUARANTINE before it settles on     *)
(* RECOVERING or FROZEN, so it is two steps here: a reader can see the     *)
(* state in between, and an event admitted earlier can be written later.   *)
(*                                                                         *)
(* A snapshot is its epoch_id and whether its bytes still have the hash it *)
(* stores.  Snapshots in memory are immutable; the copy in an exported     *)
(* checkpoint can be damaged.                                              *)
(***************************************************************************)
EXTENDS Naturals, Sequences, FiniteSets

CONSTANTS FailureThreshold,  \* _failure_threshold: failures before quarantine
          EpochIds,          \* epoch identifiers a snapshot can carry
          NoSnapshot,        \* None
          Ingesters,         \* threads that call process_event
          MaxLog,            \* bound: failsafe log entries
          MaxIngested        \* bound: events written

ASSUME FailureThresholdAssumption == FailureThreshold \in Nat \ {0}
ASSUME NoSnapshotAssumption == NoSnapshot \notin [epoch_id : EpochIds, intact : BOOLEAN]

VARIABLES state,       \* _state
          epoch_n,     \* _epoch_n, the active buffer's snapshot
          epoch_n1,    \* _epoch_n1, the one before it
          failures,    \* _consecutive_failures
          corruption,  \* _corruption_count
          log,         \* _failsafe_log
          saved,       \* the checkpoint export_checkpoint wrote last
          admitted,    \* threads past the failsafe check of process_event
          ingested,    \* events written by process_event
          late,        \* history: events written since the failsafe last settled
          torn         \* history: the log is not that of the counts, since an import
                       \* stopped between the two

controller == <<state, epoch_n, epoch_n1, failures, corruption, log, torn>>
ingestion  == <<admitted, ingested, late>>
failsafe_vars == <<state, epoch_n, epoch_n1, failures, corruption, log, saved,
                  admitted, ingested, late, torn>>

Snapshots == [epoch_id : EpochIds, intact : BOOLEAN]
Buffers   == Snapshots \cup {NoSnapshot}
States    == {"active", "quarantine", "recovering", "frozen"}

FailsafeTypeOK ==
    /\ state \in States
    /\ epoch_n \in Buffers
    /\ epoch_n1 \in Buffers
    /\ failures \in Nat
    /\ corruption \in Nat
    /\ log \in Seq([fallback : Buffers, recovered : BOOLEAN])
    /\ saved \subseteq [state : States, epoch_n : Buffers, epoch_n1 : Buffers,
                        failures : Nat, corruption : Nat,
                        log : Seq([fallback : Buffers, recovered : BOOLEAN]),
                        torn : BOOLEAN]
    /\ admitted \subseteq Ingesters
    /\ ingested \in Nat
    /\ late \in Nat
    /\ torn \in BOOLEAN

\* The controller's lock is free: no thread is inside _activate_quarantine.
LockFree == state # "quarantine"

-----------------------------------------------------------------------------
FailsafeInit ==
    /\ state = "active"
    /\ epoch_n = NoSnapshot
    /\ epoch_n1 = NoSnapshot
    /\ failures = 0
    /\ corruption = 0
    /\ log = << >>
    /\ saved = {}
    /\ admitted = {}
    /\ ingested = 0
    /\ late = 0
    /\ torn = FALSE

\* Mutant: registers a snapshot without its hash.
set_epoch_unhashed(id) ==
    /\ LockFree
    /\ epoch_n1' = epoch_n
    /\ epoch_n' = [epoch_id |-> id]
    /\ UNCHANGED <<state, failures, corruption, log, torn, saved, ingestion>>

\* The recovery worker registers a snapshot; the buffers shift.
set_epoch_snapshot(id) ==
    /\ LockFree
    /\ epoch_n1' = epoch_n
    /\ epoch_n' = [epoch_id |-> id, intact |-> TRUE]
    /\ UNCHANGED <<state, failures, corruption, log, torn, saved, ingestion>>

\* Mutant: one failure too late.
report_agent_failure_late ==
    /\ LockFree
    /\ Len(log) < MaxLog
    /\ failures' = failures + 1
    /\ state' = IF failures > FailureThreshold THEN "quarantine" ELSE state
    /\ UNCHANGED <<epoch_n, epoch_n1, corruption, log, torn, saved, ingestion>>

\* An agent failure; at the threshold the quarantine begins (lock kept).
report_agent_failure ==
    /\ LockFree
    /\ Len(log) < MaxLog
    /\ failures' = failures + 1
    /\ state' = IF failures + 1 >= FailureThreshold THEN "quarantine" ELSE state
    /\ UNCHANGED <<epoch_n, epoch_n1, corruption, log, torn, saved, ingestion>>

\* _verify_snapshot_integrity of a buffer that may be empty; the consensus
\* rounds of _quick_consensus repeat the same comparison.
Usable(snapshot) == snapshot # NoSnapshot /\ snapshot.intact

\* Mutant: looks at the older buffer only.
select_fallback_older == IF Usable(epoch_n1) THEN epoch_n1 ELSE NoSnapshot

\* _select_fallback_snapshot: the newest snapshot whose hash verifies.
select_fallback_snapshot ==
    IF Usable(epoch_n) THEN epoch_n
    ELSE IF Usable(epoch_n1) THEN epoch_n1 ELSE NoSnapshot

\* Mutant: returns early when there is nothing to fall back to.
SettleOnlyIfValid ==
    /\ state = "quarantine"
    /\ Usable(select_fallback_snapshot)
    /\ log' = Append(log, [fallback |-> select_fallback_snapshot, recovered |-> TRUE])
    /\ state' = "recovering"
    /\ failures' = 0
    /\ late' = 0
    /\ UNCHANGED <<corruption, epoch_n, epoch_n1, torn, saved, admitted, ingested>>

\* The rest of _activate_quarantine: choose and verify the fallback, record
\* the activation, settle, release the lock.
SettleQuarantine ==
    /\ state = "quarantine"
    /\ LET fallback == select_fallback_snapshot
           valid    == Usable(fallback)
       IN  /\ log' = Append(log, [fallback |-> fallback, recovered |-> valid])
           /\ state' = IF valid THEN "recovering" ELSE "frozen"
           /\ corruption' = IF valid THEN corruption ELSE corruption + 1
           /\ failures' = IF valid THEN 0 ELSE failures
    /\ late' = 0
    /\ UNCHANGED <<epoch_n, epoch_n1, torn, saved, admitted, ingested>>

\* The supervisor resumes ingestion; a FROZEN controller ignores it.
reset_after_recovery ==
    /\ LockFree
    /\ state # "frozen"
    /\ state' = "active"
    /\ failures' = 0
    /\ late' = 0
    /\ UNCHANGED <<epoch_n, epoch_n1, corruption, log, torn, saved, admitted, ingested>>

\* export_checkpoint, under the lock; the newest export is the one on disk.
export_checkpoint ==
    /\ LockFree
    /\ saved' = {[state |-> state, epoch_n |-> epoch_n, epoch_n1 |-> epoch_n1,
                  failures |-> failures, corruption |-> corruption, log |-> log,
                  torn |-> torn]}
    /\ UNCHANGED <<controller, ingestion>>

\* The buffer as it is read back: damaged or as it was exported.
ReadBack(buffer, damaged) ==
    IF buffer = NoSnapshot THEN NoSnapshot
    ELSE [buffer EXCEPT !.intact = @ /\ ~damaged]

\* Mutant: trusts the hashes of the file.
Verifies_trusting(buffer) == TRUE

\* _parse_snap does not turn a present snapshot into None.
Verifies(buffer) == buffer = NoSnapshot \/ Usable(buffer)

\* Mutant: the corruption count is not restored with the log.
import_forgetting_corruption(damage, raisesAt) ==
    /\ LockFree
    /\ \E cp \in saved :
        /\ state' = cp.state
        /\ failures' = cp.failures
        /\ log' = cp.log
        /\ torn' = cp.torn
        /\ late' = 0
    /\ UNCHANGED <<epoch_n, epoch_n1, corruption, saved, admitted, ingested>>

\* import_checkpoint: refuses a snapshot that fails verification.  The fields
\* are assigned one after the other and what the file holds can stop that
\* half-way: EpochState(...) does not know the state ("state"), with only the
\* buffers replaced, or an entry of the failsafe_log lacks a field ("log"),
\* with all replaced but the log.
import_checkpoint(damage, raisesAt) ==
    /\ LockFree
    /\ \E cp \in saved :
        LET n  == ReadBack(cp.epoch_n, "epoch_n" \in damage)
            n1 == ReadBack(cp.epoch_n1, "epoch_n1" \in damage)
        IN  /\ Verifies(n) /\ Verifies(n1)
            /\ epoch_n' = n
            /\ epoch_n1' = n1
            /\ IF raisesAt = "state"
               THEN UNCHANGED <<state, failures, corruption, log, torn, late>>
               ELSE /\ state' = cp.state
                    /\ failures' = cp.failures
                    /\ corruption' = cp.corruption
                    /\ log' = IF raisesAt = "log" THEN log ELSE cp.log
                    /\ torn' = (raisesAt = "log" \/ cp.torn)
                    /\ late' = 0
    /\ UNCHANGED <<saved, admitted, ingested>>

\* Mutant: RECOVERING does not gate events.
AdmitEventUnlessFrozen(t) ==
    /\ admitted = {}
    /\ ingested < MaxIngested
    /\ state # "frozen"
    /\ admitted' = {t}
    /\ UNCHANGED <<controller, saved, ingested, late>>

\* process_event takes the matrix lock and reads failsafe.state.  FROZEN and
\* RECOVERING return at once and change nothing.
AdmitEvent(t) ==
    /\ admitted = {}
    /\ ingested < MaxIngested
    /\ state \notin {"frozen", "recovering"}
    /\ admitted' = {t}
    /\ UNCHANGED <<controller, saved, ingested, late>>

\* The rest of process_event: M1, M2 and M3 are written, the lock released.
WriteEvent(t) ==
    /\ t \in admitted
    /\ admitted' = {}
    /\ ingested' = ingested + 1
    /\ late' = IF state \in {"frozen", "recovering"} THEN late + 1 ELSE late
    /\ UNCHANGED <<controller, saved>>

FailsafeNext ==
    \/ \E id \in EpochIds : set_epoch_snapshot(id)
    \/ report_agent_failure
    \/ SettleQuarantine
    \/ reset_after_recovery
    \/ export_checkpoint
    \/ \E damage \in SUBSET {"epoch_n", "epoch_n1"},
          raisesAt \in {"nowhere", "state", "log"} : import_checkpoint(damage, raisesAt)
    \/ \E t \in Ingesters : AdmitEvent(t) \/ WriteEvent(t)

Fairness ==
    /\ WF_failsafe_vars(SettleQuarantine)
    /\ \A t \in Ingesters : WF_failsafe_vars(WriteEvent(t))

FailsafeSpec == FailsafeInit /\ [][FailsafeNext]_failsafe_vars

FairSpec == FailsafeSpec /\ Fairness

-----------------------------------------------------------------------------
\* Whenever the lock is free, the failure count has reached the threshold
\* exactly when the controller is FROZEN: no cascade passes the threshold
\* without a quarantine, and no frozen controller forgets why it froze.
FrozenAtThreshold == LockFree => (state = "frozen" <=> failures >= FailureThreshold)

\* Every unrecoverable activation is counted once and logged, across resets
\* and restored checkpoints, until an import stops inside the log: then the
\* count is the file's and the log still the controller's own, and so they
\* stay, in what is exported too, until a sound checkpoint is restored whole.
CorruptionCountMatchesLog ==
    ~torn => corruption = Cardinality({i \in DOMAIN log : ~log[i].recovered})

\* Neither a fallback nor a buffer is ever a snapshot whose bytes do not have
\* its hash, although checkpoints on disk can be damaged.
FallbacksIntact ==
    /\ \A b \in {epoch_n, epoch_n1} \ {NoSnapshot} : b.intact
    /\ \A i \in DOMAIN log :
          log[i].fallback \in Snapshots => log[i].fallback.intact

\* A quarantine freezes the controller only when no epoch was ever registered
\* or restored; one good snapshot in either buffer is enough to recover.
FreezesOnlyWithoutSnapshot ==
    [][state = "quarantine" /\ state' = "frozen"
         => epoch_n = NoSnapshot /\ epoch_n1 = NoSnapshot]_failsafe_vars

\* After the failsafe settled on RECOVERING or FROZEN at most one event, the
\* one process_event had admitted before, is still written.
AtMostOneLateEvent == state \in {"recovering", "frozen"} => late <= 1

\* A quarantine always settles: ingestion is not left in the half-open state.
QuarantineSettles == (state = "quarantine") ~> (state \in {"recovering", "frozen"})

\* What _activate_quarantine says of itself: quarantine halts all ingestion.
QuarantineHaltsIngestion ==
    [][state = "quarantine" => admitted' \subseteq admitted]_failsafe_vars
=============================================================================
