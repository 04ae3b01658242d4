----------------------------- MODULE CoreMatrix -----------------------------
(***************************************************************************)
(* The core matrix behind the bridge, its checkpoint file and the life of  *)
(* the bridge process: core_matrix.py (M1, process_event), ledger_persist  *)
(* .py (save_checkpoint, load_checkpoint) and bridge.py (run_bridge).      *)
(*                                                                         *)
(* M1 is a circular log over a byte region.  The unit of length is 8       *)
(* bytes: an entry is EntryLen = 5 units, its sequence number and four     *)
(* units of payload hash, and the region is a multiple of EntryLen plus    *)
(* one (2^31 bytes are 53687091 entries of 40 bytes and 8 bytes over), so  *)
(* entries of later eras are not aligned with those of earlier ones.       *)
(* A payload stands for its length; hashes are collision free.  M2 and M3  *)
(* are written and never read back; they are left out.  The failsafe is    *)
(* ACTIVE (module EpochFailsafe).                                          *)
(***************************************************************************)
EXTENDS Integers, Sequences

CONSTANTS RegionLen,          \* len(_m1_region)
          EntryLen,           \* one unit of sequence, EntryLen - 1 of hash
          EpochLength,        \* events per epoch (100)
          Payloads,           \* payloads, each identified with its length
          NoFile,             \* no checkpoint on disk
          MaxSequence,        \* bound on the sequence counter
          MaxSplits           \* bound on the interrupts between era and number

ASSUME LayoutAssumption ==
    /\ EntryLen \in Nat \ {0, 1}
    /\ RegionLen \in Nat /\ RegionLen >= EntryLen
    /\ EpochLength \in Nat \ {0}
    /\ Payloads \subseteq Nat
    /\ MaxSequence \in Nat /\ MaxSplits \in Nat

VARIABLES process,   \* "down", "up" or "stopping" (shutdown handler runs)
          sequence,  \* _sequence
          epoch,     \* _epoch
          era,       \* _era
          processed, \* _total_processed
          m1,        \* _m1_region
          event,     \* the event process_event is working on, and its step
          disk,      \* the checkpoint file
          save,      \* the checkpoint save_checkpoint is writing, or NoFile
          overcounted \* history: passes the era counts twice, since an interrupt
                     \* came between the era and the number of an event

counters == <<sequence, epoch, era, processed, overcounted>>
vars == <<process, sequence, epoch, era, processed, m1, event, disk, save, overcounted>>

Cells   == 0..(RegionLen - 1)
Zero    == <<"zero">>
SeqCell(n)     == <<"sequence", n>>
HashCell(p, i) == <<"hash", p, i>>
DataCell(p)    == <<"payload", p>>

NoEvent == [step |-> "none"]

_m1_era_capacity == RegionLen \div EntryLen

write_head(n) == (n * EntryLen) % RegionLen

\* The bytes of entry n of the region, cut off where the region ends.
EntryAt(region, n) ==
    LET h    == write_head(n)
        last == IF h + EntryLen <= RegionLen THEN EntryLen ELSE RegionLen - h
    IN  [i \in 1..last |-> region[h + i - 1]]

\* Mutant: writes without checking that the entry fits.
M1_unchecked(region, p, n) ==
    [c \in 0..(write_head(n) + EntryLen + p - 1) \cup Cells |->
        IF c >= write_head(n) /\ c < write_head(n) + EntryLen
        THEN HashCell(p, c - write_head(n)) ELSE Zero]

\* M1: sequence, payload hash and payload at the write head; nothing at all
\* when they do not fit before the end of the region.
M1(region, p, n) ==
    LET h == write_head(n)
    IN  IF h + EntryLen + p > RegionLen THEN region
        ELSE [c \in Cells |->
                CASE c = h                                       -> SeqCell(n)
                  [] c \in (h + 1)..(h + EntryLen - 1)           -> HashCell(p, c - h)
                  [] c \in (h + EntryLen)..(h + EntryLen + p - 1) -> DataCell(p)
                  [] OTHER                                       -> region[c]]

\* The era the events up to sequence n are in: one per pass over the region.
EraOf(n) == IF n = 0 THEN 0 ELSE (n - 1) \div _m1_era_capacity

TypeOK ==
    /\ process \in {"down", "up", "stopping"}
    /\ sequence \in 0..MaxSequence
    /\ epoch \in Nat
    /\ era \in Nat
    /\ processed \in 0..MaxSequence
    /\ overcounted \in Nat
    /\ DOMAIN m1 = Cells
    /\ event \in {NoEvent} \cup [step : {"M1", "count"}, payload : Payloads]
    /\ \A cp \in {disk, save} \ {NoFile} :
          /\ cp.sequence \in 0..MaxSequence
          /\ cp.epoch \in Nat /\ cp.era \in Nat /\ cp.overcounted \in Nat

-----------------------------------------------------------------------------
Fresh ==
    /\ sequence' = 0
    /\ epoch' = 0
    /\ era' = 0
    /\ processed' = 0
    /\ overcounted' = 0
    /\ m1' = [c \in Cells |-> Zero]

Init ==
    /\ process = "down"
    /\ sequence = 0
    /\ epoch = 0
    /\ era = 0
    /\ processed = 0
    /\ overcounted = 0
    /\ m1 = [c \in Cells |-> Zero]
    /\ event = NoEvent
    /\ disk = NoFile
    /\ save = NoFile

\* Mutant: the wrap is noticed one event late.
BeginEventLateWrap(p) ==
    /\ process = "up"
    /\ event = NoEvent
    /\ sequence < MaxSequence
    /\ era' = IF sequence > 0 /\ sequence % _m1_era_capacity = 1 THEN era + 1 ELSE era
    /\ event' = [step |-> "M1", payload |-> p]
    /\ UNCHANGED <<process, sequence, epoch, processed, overcounted, m1, disk, save>>

\* process_event takes the lock and notices that M1 wraps.
BeginEvent(p) ==
    /\ process = "up"
    /\ event = NoEvent
    /\ sequence < MaxSequence
    /\ era' = IF sequence > 0 /\ sequence % _m1_era_capacity = 0 THEN era + 1 ELSE era
    /\ event' = [step |-> "M1", payload |-> p]
    /\ UNCHANGED <<process, sequence, epoch, processed, overcounted, m1, disk, save>>

\* M1 writes the entry and the counter advances.
WriteEntry ==
    /\ event.step = "M1"
    /\ m1' = M1(m1, event.payload, sequence)
    /\ sequence' = sequence + 1
    /\ event' = [event EXCEPT !.step = "count"]
    /\ UNCHANGED <<process, epoch, era, processed, overcounted, disk, save>>

\* Mutant: one epoch per event from the first full epoch on.
FinishEventEager ==
    /\ event.step = "count"
    /\ processed' = processed + 1
    /\ epoch' = IF processed' >= EpochLength THEN epoch + 1 ELSE epoch
    /\ event' = NoEvent
    /\ UNCHANGED <<process, sequence, era, overcounted, m1, disk, save>>

\* The rest of process_event: metrics, epoch calibration, answer, unlock.
FinishEvent ==
    /\ event.step = "count"
    /\ processed' = processed + 1
    /\ epoch' = IF processed' % EpochLength = 0 THEN epoch + 1 ELSE epoch
    /\ event' = NoEvent
    /\ UNCHANGED <<process, sequence, era, overcounted, m1, disk, save>>

-----------------------------------------------------------------------------
\* _last_m1_entry: the entry of the most recent event.
_last_m1_entry ==
    IF sequence = 0 THEN [i \in 1..EntryLen |-> Zero] ELSE EntryAt(m1, sequence - 1)

Checkpoint == [sequence |-> sequence, epoch |-> epoch, era |-> era,
               entry |-> _last_m1_entry, overcounted |-> overcounted]

\* Mutant: copies the counters without the lock.
BeginSaveUnlocked ==
    /\ process \in {"up", "stopping"}
    /\ save = NoFile
    /\ save' = Checkpoint
    /\ UNCHANGED <<process, counters, m1, event, disk>>

\* save_checkpoint, from POST /checkpoint, the telemetry stream's autosave or
\* the shutdown handler: a copy under the lock, then the temporary file.
BeginSave ==
    /\ process \in {"up", "stopping"}
    /\ event = NoEvent
    /\ save = NoFile
    /\ save' = Checkpoint
    /\ UNCHANGED <<process, counters, m1, event, disk>>

\* What follows a save: the server goes on, a stopping process ends.
AfterSave ==
    IF process = "stopping"
    THEN process' = "down" /\ Fresh
    ELSE UNCHANGED <<process, counters, m1>>

\* fsync done, os.replace makes the temporary file the checkpoint.
ReplaceCheckpoint ==
    /\ save # NoFile
    /\ disk' = save
    /\ save' = NoFile
    /\ AfterSave
    /\ UNCHANGED <<event>>

\* Writing fails: the temporary file is removed, the checkpoint stays.
FailSave ==
    /\ save # NoFile
    /\ save' = NoFile
    /\ AfterSave
    /\ UNCHANGED <<event, disk>>

-----------------------------------------------------------------------------
\* load_checkpoint accepts the file (version and integrity hash are those of
\* the save that wrote it).
Loadable(cp) == Len(cp.entry) = EntryLen

\* Mutant: writes the entry to the slot of the next event.
Restored_next(cp) ==
    [c \in Cells |->
        LET i == c - write_head(cp.sequence) + 1
        IN  IF cp.sequence > 0 /\ i \in 1..EntryLen THEN cp.entry[i] ELSE Zero]

\* The region after load_checkpoint wrote the last entry back.
Restored(cp) ==
    [c \in Cells |->
        LET i == c - write_head(cp.sequence - 1) + 1
        IN  IF cp.sequence > 0 /\ i \in 1..EntryLen THEN cp.entry[i] ELSE Zero]

\* Mutant: the checkpoint is not restored.
RestartFromZero ==
    /\ process = "down"
    /\ process' = "up"
    /\ Fresh
    /\ UNCHANGED <<event, disk, save>>

\* run_bridge: a new process restores the checkpoint if there is one; a
\* CheckpointError is logged and the bridge starts from nothing.
Restart ==
    /\ process = "down"
    /\ process' = "up"
    /\ IF disk # NoFile /\ Loadable(disk)
       THEN /\ sequence' = disk.sequence
            /\ epoch' = disk.epoch
            /\ era' = disk.era
            /\ processed' = 0
            /\ overcounted' = disk.overcounted
            /\ m1' = Restored(disk)
       ELSE Fresh
    /\ UNCHANGED <<event, disk, save>>

\* The process is killed.
Crash ==
    /\ process # "down"
    /\ process' = "down"
    /\ Fresh
    /\ event' = NoEvent
    /\ save' = NoFile
    /\ UNCHANGED <<disk>>

\* The event being worked on has raised the era and has no number yet.
Split ==
    event.step = "M1" /\ sequence > 0 /\ sequence % _m1_era_capacity = 0

\* KeyboardInterrupt leaves serve_forever, also from inside a handler, which
\* then does not go on: an event stays as far as it came, its entry in M1 or
\* not, a save leaves the checkpoint.  The shutdown handler saves next.
Interrupt ==
    /\ process = "up"
    /\ Split => overcounted < MaxSplits
    /\ process' = "stopping"
    /\ event' = NoEvent
    /\ save' = NoFile
    /\ overcounted' = IF Split THEN overcounted + 1 ELSE overcounted
    /\ \/ m1' = m1
       \/ event.step = "M1" /\ m1' = M1(m1, event.payload, sequence)
    /\ UNCHANGED <<sequence, epoch, era, processed, disk>>

Next ==
    \/ \E p \in Payloads : BeginEvent(p)
    \/ WriteEntry
    \/ FinishEvent
    \/ BeginSave
    \/ ReplaceCheckpoint
    \/ FailSave
    \/ Restart
    \/ Crash
    \/ Interrupt

Spec == Init /\ [][Next]_vars

-----------------------------------------------------------------------------
Between == event = NoEvent

\* Between events the era counts the passes over the region, whatever crashes,
\* failed saves and restores came before, and beyond them exactly the times an
\* interrupt came after the era was raised and before the event had its number:
\* the shutdown handler saves that era, and the event of the next life raises it
\* again.
EraMatchesSequence == Between => era = EraOf(sequence) + overcounted

\* The epoch counter never runs ahead of the events that were numbered, also
\* when the events of several lives of the process are added up.
EpochNeverAhead == Between => epoch * EpochLength <= sequence

\* Between events era, epoch and sequence belong together, although they are
\* assigned one by one and restored from a file that a crash may have aged.
CountersAgree == EraMatchesSequence /\ EpochNeverAhead

\* The counters of the checkpoint on disk belong together, although handlers are
\* interrupted in the middle of an event and the shutdown handler saves what
\* they left: the era is that of the number and of the interrupts that split the
\* two, the epoch not ahead.  The next life of the process starts from it.
CheckpointIsCut ==
    \A cp \in {disk, save} \ {NoFile} :
        /\ cp.era = EraOf(cp.sequence) + cp.overcounted
        /\ cp.epoch * EpochLength <= cp.sequence

\* A restart that loads the checkpoint finds the entry it saved under the
\* number it had: the next event is chained to the same bytes.
RestartResumesChain ==
    [][/\ process = "down" /\ process' = "up"
       /\ disk # NoFile /\ sequence' > 0
       => EntryAt(m1', sequence' - 1) = disk.entry]_vars

\* A running process never numbers an event like one the checkpoint on disk
\* covers: a crash takes back only the numbers given out since the last save.
DurableNumbersKept ==
    process = "up" /\ disk # NoFile /\ Loadable(disk) => sequence >= disk.sequence

\* What ledger_persist says: the most recent entry is all that is needed to
\* resume after a restart, so a checkpoint that was written can be loaded.
CheckpointLoads == disk # NoFile => Loadable(disk)
=============================================================================
