---------------------------- MODULE MatrixProofs ----------------------------
(***************************************************************************)
(* Proofs about the matrix and its failsafe: CoreMatrix, for any layout,   *)
(* epoch length, payloads and number of events, and EpochFailsafe, for any *)
(* failure threshold, any set of epoch identifiers and any number of       *)
(* ingesting threads.                                                      *)
(*                                                                         *)
(* The counters belong together between events only; IInv says what they   *)
(* are at every step of process_event, so that the events of one life of   *)
(* the process, those of the lives before it and a checkpoint of any age   *)
(* add up.  FrozenAtThreshold is not inductive by itself: a checkpoint on  *)
(* disk can become the controller's state again, so what FailsafeIInv says *)
(* of the controller it also says of the checkpoint, and a quarantine that *)
(* has begun must be known to have reached the threshold.                  *)
(***************************************************************************)
EXTENDS CoreMatrix, EpochFailsafe, FiniteSetTheorems, SequenceTheorems, TLAPS

\* The event that was numbered and is not yet counted.
Uncounted == IF event.step = "count" THEN 1 ELSE 0

\* An event is worked on only by a running process, a save only by one that
\* has not ended, and no event is counted that was not numbered.
Progress ==
    /\ event # NoEvent => process = "up"
    /\ event.step = "M1" => sequence < MaxSequence
    /\ processed + Uncounted <= sequence
    /\ save # NoFile => process # "down"

\* The era is ahead by the event being written and by those an interrupt split,
\* the epoch by none, also when this life's events continue an epoch an earlier
\* life began.
Numbers ==
    /\ era = EraOf(IF event.step = "M1" THEN sequence + 1 ELSE sequence) + overcounted
    /\ epoch * EpochLength + (processed % EpochLength) + Uncounted <= sequence

\* No checkpoint is ahead of the process it may be loaded into.
Kept ==
    /\ process # "down" /\ disk # NoFile /\ Loadable(disk) => disk.sequence <= sequence
    /\ save # NoFile => save.sequence <= sequence

\* A checkpoint's entry has the cells its number says, up to the region's end.
CellsOf(n) ==
    IF write_head(n) + EntryLen <= RegionLen THEN EntryLen ELSE RegionLen - write_head(n)
EntryOf(cp) ==
    cp.sequence > 0 =>
        /\ cp.entry = [i \in 1..CellsOf(cp.sequence - 1) |-> cp.entry[i]]
        /\ Len(cp.entry) = CellsOf(cp.sequence - 1)
Entries == \A cp \in {disk, save} \ {NoFile} : EntryOf(cp)

\* The inductive invariant, and the part of it that leaves the counters out.
Base == TypeOK /\ Progress /\ Kept /\ Entries
IInv == Base /\ Numbers /\ CheckpointIsCut

-----------------------------------------------------------------------------
(* Division, and the layout of the region. *)

\* A number is c times its quotient and its remainder.
LEMMA Divide ==
  ASSUME NEW c \in Nat \ {0}, NEW n \in Nat
  PROVE  n = c * (n \div c) + (n % c) /\ n % c \in 0..(c - 1) /\ n \div c \in Nat
  OBVIOUS

\* No other quotient and remainder give the number.
LEMMA DivideUnique ==
  ASSUME NEW c \in Nat \ {0}, NEW q \in Int, NEW r \in 0..(c - 1)
  PROVE  (c * q + r) \div c = q /\ (c * q + r) % c = r
  OBVIOUS

\* Counting one further.
LEMMA ModNext ==
  ASSUME NEW c \in Nat \ {0}, NEW n \in Nat
  PROVE  (n + 1) % c = IF n % c = c - 1 THEN 0 ELSE (n % c) + 1
  <1> DEFINE q == n \div c
             r == n % c
  <1>1. n = c * q + r /\ r \in 0..(c - 1) /\ q \in Nat
    BY Divide
  <1> HIDE DEF q, r
  <1>2. CASE r = c - 1
    <2>1. n + 1 = c * (q + 1) + 0
      BY <1>1, <1>2
    <2>2. q + 1 \in Int /\ 0 \in 0..(c - 1)
      BY <1>1
    <2>3. (n + 1) % c = 0
      BY <2>1, <2>2, DivideUnique
    <2>4. QED
      BY <1>2, <2>3 DEF r
  <1>3. CASE r # c - 1
    <2>1. n + 1 = c * q + (r + 1) /\ r + 1 \in 0..(c - 1) /\ q \in Int
      BY <1>1, <1>3
    <2>2. (n + 1) % c = r + 1
      BY <2>1, DivideUnique
    <2>3. QED
      BY <1>3, <2>2 DEF r
  <1>4. QED
    BY <1>2, <1>3

\* The quotient goes up where the remainder is 0.
LEMMA DivNext ==
  ASSUME NEW c \in Nat \ {0}, NEW n \in Nat \ {0}
  PROVE  n \div c = IF n % c = 0 THEN ((n - 1) \div c) + 1 ELSE (n - 1) \div c
  OBVIOUS

\* The region holds an entry, and the write head is in it.
LEMMA Layout ==
  /\ _m1_era_capacity \in Nat \ {0}
  /\ \A n \in Nat : write_head(n) \in 0..(RegionLen - 1) /\ CellsOf(n) \in 1..EntryLen
  <1>1. /\ EntryLen \in Nat \ {0, 1} /\ RegionLen \in Nat \ {0} /\ RegionLen >= EntryLen
    BY LayoutAssumption
  <1>2. RegionLen \div EntryLen \in Nat \ {0}
    <2>1. /\ RegionLen = EntryLen * (RegionLen \div EntryLen) + (RegionLen % EntryLen)
          /\ RegionLen % EntryLen \in 0..(EntryLen - 1) /\ RegionLen \div EntryLen \in Nat
      BY <1>1, Divide
    <2>2. CASE RegionLen \div EntryLen = 0
      BY <1>1, <2>1, <2>2
    <2>3. QED
      BY <2>1, <2>2
  <1>3. ASSUME NEW n \in Nat
        PROVE  write_head(n) \in 0..(RegionLen - 1) /\ CellsOf(n) \in 1..EntryLen
    <2>1. n * EntryLen \in Nat
      BY <1>1
    <2>2. write_head(n) \in 0..(RegionLen - 1)
      BY <1>1, <2>1, Divide DEF write_head
    <2>3. QED
      BY <1>1, <2>2 DEF CellsOf
  <1>4. QED
    BY <1>2, <1>3 DEF _m1_era_capacity

-----------------------------------------------------------------------------
(* Types, and where an event and a save can be. *)

\* The initial state has the types, and nothing is under way.
LEMMA InitType == Init => TypeOK /\ Progress
  BY LayoutAssumption DEF Init, TypeOK, Progress, Uncounted, NoEvent, Cells

\* Every step keeps the types, and what is under way with the process.
LEMMA NextType ==
  ASSUME TypeOK, Progress, [Next]_vars
  PROVE  TypeOK' /\ Progress'
  <1>0. MaxSequence \in Nat
    BY LayoutAssumption
  <1>1. ASSUME NEW p \in Payloads, BeginEvent(p)
        PROVE  TypeOK' /\ Progress'
    BY <1>1 DEF BeginEvent, TypeOK, Progress, Uncounted, NoEvent, Cells
  <1>2. CASE WriteEntry
    <2>1. event \in [step : {"M1", "count"}, payload : Payloads]
      BY <1>2 DEF WriteEntry, TypeOK, NoEvent
    <2>2. DOMAIN m1' = Cells
      BY <1>2 DEF WriteEntry, M1, TypeOK
    <2>3. /\ event' \in [step : {"M1", "count"}, payload : Payloads] /\ event'.step = "count"
          /\ event # NoEvent
      BY <1>2, <2>1 DEF WriteEntry, NoEvent
    <2>4. sequence' \in 0..MaxSequence
      BY <1>0, <1>2 DEF WriteEntry, TypeOK, Progress
    <2>5. TypeOK'
      BY <1>2, <2>2, <2>3, <2>4 DEF WriteEntry, TypeOK, Cells
    <2>6. processed + 1 <= sequence + 1
      BY <1>2 DEF WriteEntry, TypeOK, Progress, Uncounted
    <2>7. Progress'
      BY <1>2, <2>3, <2>6 DEF WriteEntry, Progress, Uncounted
    <2>8. QED
      BY <2>5, <2>7
  <1>3. CASE FinishEvent
    <2>1. processed + 1 <= sequence /\ event # NoEvent
      BY <1>3 DEF FinishEvent, Progress, Uncounted, NoEvent
    <2>2. processed' \in 0..MaxSequence /\ epoch' \in Nat
      BY <1>0, <1>3, <2>1 DEF FinishEvent, TypeOK
    <2>3. QED
      BY <1>3, <2>1, <2>2 DEF FinishEvent, TypeOK, Progress, Uncounted, NoEvent, Cells
  <1>4. CASE BeginSave
    BY <1>4 DEF BeginSave, Checkpoint, TypeOK, Progress, Uncounted, NoEvent, counters, Cells
  <1>5. ASSUME Fresh, process' = "down", event' = NoEvent, save' = NoFile,
               disk' \in {disk, save}
        PROVE  TypeOK' /\ Progress'
    BY <1>0, <1>5 DEF Fresh, TypeOK, Progress, Uncounted, NoEvent, Cells
  <1>6. ASSUME UNCHANGED <<process, counters, m1, event>>, save' = NoFile,
               disk' \in {disk, save}
        PROVE  TypeOK' /\ Progress'
    BY <1>6 DEF counters, TypeOK, Progress, Uncounted, Cells
  <1>7. CASE ReplaceCheckpoint \/ FailSave
    <2>1. save' = NoFile /\ disk' \in {disk, save} /\ event' = event /\ AfterSave
      BY <1>7 DEF ReplaceCheckpoint, FailSave
    <2>2. CASE process = "stopping"
      <3>1. event = NoEvent
        BY <2>2 DEF Progress
      <3>2. QED
        BY <1>5, <2>1, <2>2, <3>1 DEF AfterSave
    <2>3. CASE process # "stopping"
      BY <1>6, <2>1, <2>3 DEF AfterSave
    <2>4. QED
      BY <2>2, <2>3
  <1>8. CASE Restart
    <2>1. event = NoEvent
      BY <1>8 DEF Restart, Progress
    <2>2. CASE disk # NoFile /\ Loadable(disk)
      <3>1. /\ sequence' = disk.sequence /\ epoch' = disk.epoch /\ era' = disk.era
            /\ overcounted' = disk.overcounted /\ processed' = 0 /\ m1' = Restored(disk)
            /\ process' = "up" /\ UNCHANGED <<event, disk, save>>
        BY <1>8, <2>2 DEF Restart
      <3>2. /\ disk.sequence \in 0..MaxSequence /\ disk.epoch \in Nat /\ disk.era \in Nat
            /\ disk.overcounted \in Nat
        BY <2>2 DEF TypeOK
      <3>3. DOMAIN m1' = Cells
        BY <3>1 DEF Restored
      <3>4. TypeOK'
        BY <1>0, <3>1, <3>2, <3>3 DEF TypeOK, Cells
      <3>5. Progress'
        BY <1>0, <2>1, <3>1, <3>2 DEF Progress, Uncounted, NoEvent
      <3>6. QED
        BY <3>4, <3>5
    <2>3. CASE ~(disk # NoFile /\ Loadable(disk))
      <3>1. Fresh /\ process' = "up" /\ UNCHANGED <<event, disk, save>>
        BY <1>8, <2>3 DEF Restart
      <3>2. QED
        BY <1>0, <2>1, <3>1 DEF Fresh, TypeOK, Progress, Uncounted, NoEvent, Cells
    <2>4. QED
      BY <2>2, <2>3
  <1>9. CASE Crash
    BY <1>5, <1>9 DEF Crash
  <1>10. CASE Interrupt
    <2>1. processed <= sequence
      BY <1>10 DEF Progress, Uncounted, TypeOK
    <2>2. DOMAIN m1' = Cells
      BY <1>10 DEF Interrupt, M1, TypeOK
    <2>3. overcounted' \in Nat
      BY <1>10 DEF Interrupt, TypeOK
    <2>4. TypeOK'
      BY <1>10, <2>2, <2>3 DEF Interrupt, TypeOK, NoEvent, Cells
    <2>5. Progress'
      BY <1>10, <2>1 DEF Interrupt, Progress, Uncounted, NoEvent, TypeOK
    <2>6. QED
      BY <2>4, <2>5
  <1>11. CASE UNCHANGED vars
    BY <1>11 DEF vars, TypeOK, Progress, Uncounted, Cells
  <1>12. QED
    BY <1>1, <1>2, <1>3, <1>4, <1>7, <1>8, <1>9, <1>10, <1>11 DEF Next

-----------------------------------------------------------------------------
(* The checkpoint and the numbers it covers. *)

\* Every step keeps the checkpoints behind the process: a save that completes
\* is one this process began, and a restart begins where the file says.
LEMMA NextKept ==
  ASSUME TypeOK, Progress, Kept, [Next]_vars
  PROVE  Kept'
  <1>1. sequence \in Nat /\ \A cp \in {disk, save} \ {NoFile} : cp.sequence \in Nat
    BY LayoutAssumption DEF TypeOK
  <1>2. ASSUME sequence' = sequence \/ sequence' = sequence + 1,
               process' # "down" => process # "down",
               UNCHANGED <<disk, save>>
        PROVE  Kept'
    BY <1>1, <1>2 DEF Kept, Loadable
  <1>3. CASE \/ (\E p \in Payloads : BeginEvent(p)) \/ WriteEntry \/ FinishEvent
             \/ UNCHANGED vars
    BY <1>2, <1>3 DEF BeginEvent, WriteEntry, FinishEvent, vars
  <1>4. CASE BeginSave
    BY <1>1, <1>4 DEF BeginSave, Checkpoint, counters, Kept, Loadable
  <1>5. CASE ReplaceCheckpoint
    <2>1. CASE process = "stopping"
      BY <1>5, <2>1 DEF ReplaceCheckpoint, AfterSave, Kept
    <2>2. CASE process # "stopping"
      BY <1>5, <2>2 DEF ReplaceCheckpoint, AfterSave, counters, Kept
    <2>3. QED
      BY <2>1, <2>2
  <1>6. CASE FailSave
    <2>1. CASE process = "stopping"
      BY <1>6, <2>1 DEF FailSave, AfterSave, Kept
    <2>2. CASE process # "stopping"
      BY <1>6, <2>2 DEF FailSave, AfterSave, counters, Kept, Loadable
    <2>3. QED
      BY <2>1, <2>2
  <1>7. CASE Restart
    <2>1. save = NoFile /\ save' = NoFile /\ disk' = disk
      BY <1>7 DEF Restart, Progress
    <2>2. disk # NoFile /\ Loadable(disk) => sequence' = disk.sequence
      BY <1>7 DEF Restart
    <2>3. QED
      BY <1>1, <2>1, <2>2 DEF Kept, Loadable
  <1>8. CASE Crash
    BY <1>8 DEF Crash, Kept
  <1>9. CASE Interrupt
    BY <1>9 DEF Interrupt, Kept, Loadable
  <1>10. QED
    BY <1>3, <1>4, <1>5, <1>6, <1>7, <1>8, <1>9 DEF Next

\* A function on the first n numbers is a sequence of length n.
LEMMA LenOfFunction ==
  ASSUME NEW n \in Nat, NEW t, t = [i \in 1..n |-> t[i]]
  PROVE  Len(t) = n
  <1>1. t \in [1..n -> { t[i] : i \in 1..n }]
    OBVIOUS
  <1>2. t \in Seq({ t[i] : i \in 1..n })
    BY <1>1, SeqDef
  <1>3. Len(t) \in Nat /\ DOMAIN t = 1..Len(t) /\ DOMAIN t = 1..n
    BY <1>1, <1>2, LenProperties
  <1>4. QED
    BY <1>3

\* The matrix hands save_checkpoint as many cells as there are to its entry.
LEMMA CheckpointEntry ==
  ASSUME TypeOK
  PROVE  EntryOf(Checkpoint)
  <1> SUFFICES ASSUME sequence > 0
               PROVE  /\ _last_m1_entry
                           = [i \in 1..CellsOf(sequence - 1) |-> _last_m1_entry[i]]
                      /\ Len(_last_m1_entry) = CellsOf(sequence - 1)
    BY DEF EntryOf, Checkpoint
  <1>1. sequence - 1 \in Nat /\ sequence # 0
    BY LayoutAssumption DEF TypeOK
  <1>2. CellsOf(sequence - 1) \in Nat
    BY <1>1, Layout
  <1>3. _last_m1_entry
          = [i \in 1..CellsOf(sequence - 1) |-> m1[write_head(sequence - 1) + i - 1]]
    BY <1>1 DEF _last_m1_entry, EntryAt, CellsOf
  <1>4. _last_m1_entry = [i \in 1..CellsOf(sequence - 1) |-> _last_m1_entry[i]]
    BY <1>3
  <1>5. QED
    BY <1>2, <1>4, LenOfFunction

\* Every step keeps a checkpoint's entry one of the region's.
LEMMA NextEntries ==
  ASSUME TypeOK, Entries, [Next]_vars
  PROVE  Entries'
  <1>1. CASE BeginSave
    <2>1. save' = Checkpoint /\ disk' = disk
      BY <1>1 DEF BeginSave
    <2>2. EntryOf(Checkpoint)
      BY CheckpointEntry
    <2>3. \A cp \in {disk', save'} \ {NoFile} : EntryOf(cp)
      BY <2>1, <2>2 DEF Entries
    <2>4. QED
      BY <2>3 DEF Entries, EntryOf, CellsOf, write_head
  <1>2. CASE ~BeginSave
    <2>1. {disk', save'} \ {NoFile} \subseteq {disk, save} \ {NoFile}
      BY <1>2 DEF Next, BeginEvent, WriteEntry, FinishEvent, ReplaceCheckpoint, FailSave,
                  Restart, Crash, Interrupt, vars
    <2>2. \A cp \in {disk', save'} \ {NoFile} : EntryOf(cp)
      BY <2>1 DEF Entries
    <2>3. QED
      BY <2>2 DEF Entries, EntryOf, CellsOf, write_head
  <1>3. QED
    BY <1>1, <1>2

\* A checkpoint that loads puts its entry back where its number says.
LEMMA RestoredEntry ==
  ASSUME NEW cp, cp.sequence \in Nat \ {0}, EntryOf(cp), Loadable(cp)
  PROVE  EntryAt(Restored(cp), cp.sequence - 1) = cp.entry
  <1> DEFINE n == cp.sequence - 1
             h == write_head(n)
  <1>1. /\ n \in Nat /\ h \in 0..(RegionLen - 1) /\ EntryLen \in Nat /\ RegionLen \in Nat
        /\ cp.sequence > 0
    BY Layout, LayoutAssumption
  <1>2. CellsOf(n) = EntryLen /\ cp.entry = [i \in 1..EntryLen |-> cp.entry[i]]
    BY <1>1 DEF EntryOf, Loadable
  <1>3. h + EntryLen <= RegionLen
    BY <1>1, <1>2 DEF CellsOf
  <1>4. EntryAt(Restored(cp), n) = [i \in 1..EntryLen |-> Restored(cp)[h + i - 1]]
    BY <1>3 DEF EntryAt
  <1>5. ASSUME NEW i \in 1..EntryLen
        PROVE  Restored(cp)[h + i - 1] = cp.entry[i]
    <2>1. h + i - 1 \in Cells /\ (h + i - 1) - h + 1 = i
      BY <1>1, <1>3 DEF Cells
    <2>2. QED
      BY <1>1, <2>1 DEF Restored
  <1>6. QED
    BY <1>2, <1>4, <1>5

-----------------------------------------------------------------------------
(* The counters. *)

\* The era of the event after n, as BeginEvent computes it from n's.
LEMMA EraNext ==
  ASSUME NEW n \in Nat
  PROVE  EraOf(n + 1) = IF n > 0 /\ n % _m1_era_capacity = 0 THEN EraOf(n) + 1 ELSE EraOf(n)
  <1> DEFINE c == _m1_era_capacity
  <1>1. c \in Nat \ {0}
    BY Layout
  <1>2. EraOf(n + 1) = n \div c
    BY DEF EraOf
  <1> HIDE DEF c
  <1>3. CASE n = 0
    <2>1. 0 \div c = 0
      BY <1>1, Z3
    <2>2. QED
      BY <1>2, <1>3, <2>1 DEF EraOf, c
  <1>4. CASE n # 0
    <2>1. n \div c = IF n % c = 0 THEN ((n - 1) \div c) + 1 ELSE (n - 1) \div c
      BY <1>1, <1>4, DivNext
    <2>2. EraOf(n) = (n - 1) \div c
      BY <1>4 DEF EraOf, c
    <2>3. QED
      BY <1>2, <1>4, <2>1, <2>2 DEF c
  <1>5. QED
    BY <1>3, <1>4

\* Eras are numbers.
LEMMA EraIsNat ==
  ASSUME NEW n \in Nat
  PROVE  EraOf(n) \in Nat
  <1>1. _m1_era_capacity \in Nat \ {0}
    BY Layout
  <1>2. CASE n = 0
    BY <1>2 DEF EraOf
  <1>3. CASE n # 0
    <2>1. n - 1 \in Nat
      BY <1>3
    <2>2. QED
      BY <1>1, <1>3, <2>1, Divide DEF EraOf
  <1>4. QED
    BY <1>2, <1>3

\* Counting one event more adds one to the whole epochs and the rest.
LEMMA EpochNext ==
  ASSUME NEW c \in Nat \ {0}, NEW e \in Nat, NEW n \in Nat
  PROVE  LET f == IF (n + 1) % c = 0 THEN e + 1 ELSE e
         IN  f * c + ((n + 1) % c) = e * c + (n % c) + 1
  <1> DEFINE r == n % c
             q == (n + 1) % c
  <1>1. r \in 0..(c - 1) /\ q = IF r = c - 1 THEN 0 ELSE r + 1
    BY Divide, ModNext
  <1> HIDE DEF r, q
  <1>2. CASE r = c - 1
    <2>1. q = 0 /\ (e + 1) * c + 0 = e * c + r + 1
      BY <1>1, <1>2
    <2>2. QED
      BY <2>1 DEF r, q
  <1>3. CASE r # c - 1
    <2>1. q # 0 /\ e * c + q = e * c + r + 1
      BY <1>1, <1>3
    <2>2. QED
      BY <2>1 DEF r, q
  <1>4. QED
    BY <1>2, <1>3

\* A life of the process that starts at a cut has its numbers right.
LEMMA NumbersFrom ==
  ASSUME event' = NoEvent, processed' = 0, era' = EraOf(sequence') + overcounted',
         epoch' \in Nat, sequence' \in Nat, epoch' * EpochLength <= sequence'
  PROVE  Numbers'
  <1>1. EpochLength \in Nat \ {0}
    BY LayoutAssumption
  <1>2. 0 % EpochLength = 0
    BY <1>1, Z3
  <1>3. epoch' * EpochLength + (processed' % EpochLength) + 0 <= sequence'
    <2>1. \A a, b \in Nat : a * b \in Nat
      OBVIOUS
    <2>2. epoch' * EpochLength \in Nat
      BY <1>1, <2>1
    <2>3. QED
      BY <1>2, <2>2
  <1>4. QED
    BY <1>3 DEF Numbers, Uncounted, NoEvent

\* Every step keeps the counters together: an interrupt between the era and the
\* number of an event is one more pass counted twice.
LEMMA NextNumbers ==
  ASSUME TypeOK, Progress, Numbers, CheckpointIsCut,
         [Next]_vars
  PROVE  Numbers'
  <1>1. /\ EpochLength \in Nat \ {0} /\ epoch \in Nat /\ processed \in Nat /\ sequence \in Nat
        /\ MaxSequence \in Nat /\ overcounted \in Nat
    BY LayoutAssumption DEF TypeOK
  <1>2. ASSUME UNCHANGED <<counters, event>>
        PROVE  Numbers'
    BY <1>2 DEF counters, Numbers, Uncounted, EraOf, _m1_era_capacity
  <1>3. ASSUME Fresh, event' = NoEvent
        PROVE  Numbers'
    <2>1. EraOf(0) = 0 /\ 0 * EpochLength <= 0
      BY <1>1 DEF EraOf
    <2>2. QED
      BY <1>3, <2>1, NumbersFrom DEF Fresh
  <1>4. ASSUME NEW p \in Payloads, BeginEvent(p)
        PROVE  Numbers'
    <2>1. /\ era' = EraOf(sequence + 1) + overcounted /\ event'.step = "M1"
          /\ UNCHANGED <<sequence, epoch, processed, overcounted>>
          /\ Uncounted = 0 /\ Uncounted' = 0
      <3>1. era = EraOf(sequence) + overcounted
        BY <1>4 DEF BeginEvent, Numbers, NoEvent
      <3>2. EraOf(sequence) \in Int /\ EraOf(sequence + 1) \in Int
        BY <1>1, EraIsNat
      <3>3. QED
        BY <1>1, <1>4, <3>1, <3>2, EraNext DEF BeginEvent, Uncounted, NoEvent
    <2>2. QED
      BY <2>1 DEF Numbers, EraOf, _m1_era_capacity
  <1>5. CASE WriteEntry
    <2>1. event \in [step : {"M1", "count"}, payload : Payloads]
      BY <1>5 DEF WriteEntry, TypeOK, NoEvent
    <2>2. /\ event'.step = "count" /\ Uncounted = 0 /\ Uncounted' = 1
          /\ sequence' = sequence + 1 /\ UNCHANGED <<epoch, era, processed, overcounted>>
      BY <1>5, <2>1 DEF WriteEntry, Uncounted
    <2>3. era' = EraOf(sequence') + overcounted'
      BY <1>5, <2>2 DEF WriteEntry, Numbers
    <2>4. epoch * EpochLength + (processed % EpochLength) + 0 <= sequence
      BY <2>2 DEF Numbers
    <2>5. epoch * EpochLength \in Nat /\ processed % EpochLength \in Nat
      BY <1>1, Divide
    <2>6. epoch' * EpochLength + (processed' % EpochLength) + 1 <= sequence'
      BY <1>1, <2>2, <2>4, <2>5
    <2>7. QED
      BY <2>2, <2>3, <2>6 DEF Numbers, EraOf, _m1_era_capacity
  <1>6. CASE FinishEvent
    <2>1. /\ processed' = processed + 1
          /\ epoch' = IF (processed + 1) % EpochLength = 0 THEN epoch + 1 ELSE epoch
          /\ UNCHANGED <<sequence, era, overcounted>> /\ Uncounted = 1 /\ Uncounted' = 0
          /\ event' = NoEvent /\ era = EraOf(sequence) + overcounted
      BY <1>6 DEF FinishEvent, Numbers, Uncounted, NoEvent
    <2>2. epoch' * EpochLength + (processed' % EpochLength)
            = epoch * EpochLength + (processed % EpochLength) + 1
      BY <1>1, <2>1, EpochNext
    <2>3. epoch * EpochLength + (processed % EpochLength) + 1 <= sequence
      BY <2>1 DEF Numbers
    <2>4. epoch' * EpochLength + (processed' % EpochLength) + 0 <= sequence'
      <3>1. /\ epoch * EpochLength \in Nat /\ processed % EpochLength \in Nat
        BY <1>1, Divide
      <3>2. QED
        BY <2>1, <2>2, <2>3, <3>1
    <2>5. QED
      BY <2>1, <2>4 DEF Numbers, NoEvent, EraOf, _m1_era_capacity
  <1>7. CASE BeginSave
    BY <1>2, <1>7 DEF BeginSave
  <1>8. CASE ReplaceCheckpoint \/ FailSave
    <2>1. CASE process = "stopping"
      BY <1>3, <1>8, <2>1 DEF ReplaceCheckpoint, FailSave, AfterSave, Progress
    <2>2. CASE process # "stopping"
      BY <1>2, <1>8, <2>2 DEF ReplaceCheckpoint, FailSave, AfterSave
    <2>3. QED
      BY <2>1, <2>2
  <1>9. CASE Restart
    <2>1. event' = NoEvent
      BY <1>9 DEF Restart, Progress
    <2>2. CASE disk # NoFile /\ Loadable(disk)
      <3>1. /\ sequence' = disk.sequence /\ epoch' = disk.epoch /\ era' = disk.era
            /\ processed' = 0 /\ overcounted' = disk.overcounted
        BY <1>9, <2>2 DEF Restart
      <3>2. /\ disk.sequence \in Nat /\ disk.epoch \in Nat
            /\ disk.era = EraOf(disk.sequence) + disk.overcounted
            /\ disk.epoch * EpochLength <= disk.sequence
        BY <1>1, <2>2 DEF TypeOK, CheckpointIsCut
      <3>3. QED
        BY <2>1, <3>1, <3>2, NumbersFrom
    <2>3. CASE ~(disk # NoFile /\ Loadable(disk))
      BY <1>3, <1>9, <2>1, <2>3 DEF Restart
    <2>4. QED
      BY <2>2, <2>3
  <1>10. CASE Crash
    BY <1>3, <1>10 DEF Crash
  <1>11. CASE Interrupt
    <2>1. event' = NoEvent /\ UNCHANGED <<sequence, epoch, era, processed>>
      BY <1>11 DEF Interrupt
    <2>2. /\ EraOf(sequence) \in Int
          /\ EraOf(sequence + 1)
               = IF sequence > 0 /\ sequence % _m1_era_capacity = 0
                 THEN EraOf(sequence) + 1 ELSE EraOf(sequence)
      BY <1>1, EraIsNat, EraNext
    <2>3. era = EraOf(sequence) + overcounted'
      BY <1>1, <1>11, <2>2 DEF Interrupt, Split, Numbers
    <2>4. epoch * EpochLength + (processed % EpochLength) + 0 <= sequence
      <3>1. epoch * EpochLength \in Nat /\ processed % EpochLength \in Nat
        BY <1>1, Divide
      <3>2. /\ Uncounted \in {0, 1}
            /\ epoch * EpochLength + (processed % EpochLength) + Uncounted <= sequence
        BY DEF Numbers, Uncounted
      <3>3. QED
        BY <1>1, <3>1, <3>2
    <2>5. QED
      BY <2>1, <2>3, <2>4 DEF Numbers, Uncounted, NoEvent, EraOf, _m1_era_capacity
  <1>12. CASE UNCHANGED vars
    BY <1>2, <1>12 DEF vars, counters
  <1>13. QED
    BY <1>4, <1>5, <1>6, <1>7, <1>8, <1>9, <1>10, <1>11, <1>12 DEF Next

\* Between events the counters belong together.
LEMMA NumbersAgree ==
  ASSUME TypeOK, Numbers
  PROVE  CountersAgree
  <1> SUFFICES ASSUME event = NoEvent
               PROVE  /\ era = EraOf(sequence) + overcounted
                      /\ epoch * EpochLength <= sequence
    BY DEF CountersAgree, EraMatchesSequence, EpochNeverAhead, Between
  <1>1. /\ EpochLength \in Nat \ {0} /\ epoch \in Nat /\ processed \in Nat /\ sequence \in Nat
    BY LayoutAssumption DEF TypeOK
  <1>2. /\ era = EraOf(sequence) + overcounted
        /\ epoch * EpochLength + (processed % EpochLength) + 0 <= sequence
    BY DEF Numbers, Uncounted, NoEvent
  <1>3. epoch * EpochLength \in Nat /\ processed % EpochLength \in Nat
    BY <1>1, Divide
  <1>4. QED
    BY <1>1, <1>2, <1>3

\* Every step keeps the checkpoints cuts: what is saved is saved between events,
\* or after an interrupt ended one, and the count of those is saved with it.
LEMMA NextCut ==
  ASSUME TypeOK, Numbers, CheckpointIsCut, [Next]_vars
  PROVE  CheckpointIsCut'
  <1> DEFINE Cut(cp) == /\ cp.era = EraOf(cp.sequence) + cp.overcounted
                        /\ cp.epoch * EpochLength <= cp.sequence
  <1>1. \A cp \in {disk', save'} \ {NoFile} : Cut(cp)
    <2>1. CASE BeginSave
      <3>1. save' = Checkpoint /\ disk' = disk /\ event = NoEvent
        BY <2>1 DEF BeginSave
      <3>2. Cut(Checkpoint)
        BY <3>1, NumbersAgree DEF CountersAgree, EraMatchesSequence, EpochNeverAhead,
                                  Between, Checkpoint
      <3>3. QED
        BY <3>1, <3>2 DEF CheckpointIsCut
    <2>2. CASE ~BeginSave
      <3>1. {disk', save'} \ {NoFile} \subseteq {disk, save} \ {NoFile}
        BY <2>2 DEF Next, BeginEvent, WriteEntry, FinishEvent, ReplaceCheckpoint, FailSave,
                    Restart, Crash, Interrupt, vars
      <3>2. QED
        BY <3>1 DEF CheckpointIsCut
    <2>3. QED
      BY <2>1, <2>2
  <1>2. QED
    BY <1>1 DEF CheckpointIsCut, EraOf, _m1_era_capacity

-----------------------------------------------------------------------------
(* The theorems. *)

\* The initial state satisfies the invariant.
LEMMA InitIInv == Init => IInv
  <1> SUFFICES ASSUME Init PROVE IInv
    OBVIOUS
  <1>1. TypeOK /\ Progress
    BY InitType
  <1>2. Kept /\ Entries /\ CheckpointIsCut
    BY DEF Init, Kept, Entries, CheckpointIsCut
  <1>3. EraOf(0) = 0 /\ 0 * EpochLength + (0 % EpochLength) + 0 <= 0
    <2>1. EpochLength \in Nat \ {0}
      BY LayoutAssumption
    <2>2. 0 % EpochLength = 0
      BY <2>1, Z3
    <2>3. QED
      BY <2>1, <2>2 DEF EraOf
  <1>4. Numbers
    BY <1>3 DEF Init, Numbers, Uncounted, NoEvent
  <1>5. QED
    BY <1>1, <1>2, <1>4 DEF IInv, Base

\* Every reachable state satisfies the part without the counters.
LEMMA BaseInvariance == Spec => []Base
  <1>1. Base /\ [Next]_vars => Base'
    BY NextType, NextKept, NextEntries DEF Base
  <1>2. Init => Base
    BY InitIInv DEF IInv
  <1>3. QED
    BY <1>1, <1>2, PTL DEF Spec

\* And all of it.
LEMMA Invariance == Spec => []IInv
  <1>1. IInv /\ [Next]_vars => IInv'
    BY NextType, NextKept, NextEntries, NextNumbers, NextCut DEF IInv, Base
  <1>2. QED
    BY InitIInv, <1>1, PTL DEF Spec

\* The matrix's variables keep their types and bounds through every crash,
\* interrupt, save and restore.
THEOREM TypeCorrect == Spec => []TypeOK
  <1>1. Base => TypeOK
    BY DEF Base
  <1>2. QED
    BY BaseInvariance, <1>1, PTL

\* A running process never numbers an event like one the checkpoint covers,
\* wherever a crash or an interrupt came.
THEOREM NumbersNotReused == Spec => []DurableNumbersKept
  <1>1. Base => DurableNumbersKept
    <2> SUFFICES ASSUME Base, process = "up", disk # NoFile, Loadable(disk)
                 PROVE  sequence >= disk.sequence
      BY DEF DurableNumbersKept
    <2>1. sequence \in Nat /\ disk.sequence \in Nat /\ disk.sequence <= sequence
      BY LayoutAssumption DEF Base, TypeOK, Kept
    <2>2. QED
      BY <2>1
  <1>2. QED
    BY BaseInvariance, <1>1, PTL

\* A restart that loads the checkpoint finds the saved entry in the region
\* where the next event's chain looks for it.
THEOREM RestartResumes == Spec => RestartResumesChain
  <1>1. Base /\ [Next]_vars =>
          [/\ process = "down" /\ process' = "up"
           /\ disk # NoFile /\ sequence' > 0
           => EntryAt(m1', sequence' - 1) = disk.entry]_vars
    <2> SUFFICES ASSUME Base, Next, process = "down", process' = "up",
                        disk # NoFile, sequence' > 0
                 PROVE  EntryAt(m1', sequence' - 1) = disk.entry
      OBVIOUS
    <2>1. Restart
      BY DEF Next, BeginEvent, WriteEntry, FinishEvent, BeginSave, ReplaceCheckpoint,
             FailSave, AfterSave, Crash, Interrupt, Base, Progress, NoEvent, TypeOK
    <2>2. Loadable(disk) /\ sequence' = disk.sequence /\ m1' = Restored(disk)
      BY <2>1 DEF Restart, Fresh
    <2>3. disk.sequence \in Nat \ {0} /\ EntryOf(disk)
      BY <2>2, LayoutAssumption DEF Base, TypeOK, Entries
    <2>4. QED
      BY <2>2, <2>3, RestoredEntry
  <1>2. QED
    BY BaseInvariance, <1>1, PTL DEF Spec, RestartResumesChain

\* Era, epoch and sequence, assigned one by one, interrupted anywhere and restored
\* from a file of any age, belong together between events.
THEOREM CountersCorrect == Spec => []CountersAgree
  <1>1. IInv => CountersAgree
    BY NumbersAgree DEF IInv, Base
  <1>2. QED
    BY Invariance, <1>1, PTL

\* The checkpoint on disk, and the one being written, hold such counters, those of
\* a shutdown that interrupted an event too.
THEOREM CheckpointCorrect == Spec => []CheckpointIsCut
  <1>1. IInv => CheckpointIsCut
    BY DEF IInv
  <1>2. QED
    BY Invariance, <1>1, PTL

-----------------------------------------------------------------------------
(* The failsafe. *)

LogEntries == [fallback : Buffers, recovered : BOOLEAN]
Checkpoints == [state : States, epoch_n : Buffers, epoch_n1 : Buffers,
                failures : Nat, corruption : Nat, log : Seq(LogEntries),
                torn : BOOLEAN]

\* No buffer and no fallback of the log is a damaged snapshot.
Sound(n, n1, entries) ==
    /\ n \in Snapshots => n.intact
    /\ n1 \in Snapshots => n1.intact
    /\ \A i \in DOMAIN entries :
          entries[i].fallback \in Snapshots => entries[i].fallback.intact

\* What the controller satisfies outside of a quarantine, the exported copy too.
Settled(s, f) == s # "quarantine" /\ (s = "frozen" <=> f >= FailureThreshold)

\* One event at most is between the failsafe check and its write.
OneAdmitted == admitted = {} \/ \E t \in Ingesters : admitted = {t}

\* A late write of a settled failsafe was the event admitted before, and no
\* other one is admitted until it leaves that state.
LateWasAdmitted ==
    state \in {"recovering", "frozen"} => late = 0 \/ (late = 1 /\ admitted = {})

\* The unrecoverable activations of a log.
Unrecovered(entries) == {i \in DOMAIN entries : ~entries[i].recovered}

\* The inductive invariant.
FailsafeIInv ==
    /\ FailsafeTypeOK
    /\ state = "quarantine" => failures >= FailureThreshold
    /\ state # "quarantine" => Settled(state, failures)
    /\ ~torn => corruption = Cardinality(Unrecovered(log))
    /\ Sound(epoch_n, epoch_n1, log)
    /\ OneAdmitted
    /\ LateWasAdmitted
    /\ \A cp \in saved :
          /\ Settled(cp.state, cp.failures)
          /\ ~cp.torn => cp.corruption = Cardinality(Unrecovered(cp.log))
          /\ Sound(cp.epoch_n, cp.epoch_n1, cp.log)

-----------------------------------------------------------------------------
\* Appending a recovered activation to the log adds nothing to the count of
\* unrecoverable ones, appending one that failed adds one.
LEMMA AppendCounts ==
  ASSUME NEW entries \in Seq(LogEntries), NEW e \in LogEntries
  PROVE  /\ e.recovered => Unrecovered(Append(entries, e)) = Unrecovered(entries)
         /\ ~e.recovered => Cardinality(Unrecovered(Append(entries, e)))
                              = Cardinality(Unrecovered(entries)) + 1
         /\ Cardinality(Unrecovered(entries)) \in Nat
  <1> DEFINE n == Len(entries)
  <1>1. n \in Nat /\ DOMAIN entries = 1..n
    OBVIOUS
  <1>2. DOMAIN Append(entries, e) = 1..(n + 1)
    OBVIOUS
  <1>3. /\ Append(entries, e)[n + 1] = e
        /\ \A i \in 1..n : Append(entries, e)[i] = entries[i]
    OBVIOUS
  <1>4. 1..(n + 1) = (1..n) \cup {n + 1} /\ n + 1 \notin 1..n
    BY <1>1
  <1>5. e.recovered => Unrecovered(Append(entries, e)) = Unrecovered(entries)
    BY <1>1, <1>2, <1>3, <1>4 DEF Unrecovered
  <1>6. ~e.recovered => Unrecovered(Append(entries, e)) = Unrecovered(entries) \cup {n + 1}
    BY <1>1, <1>2, <1>3, <1>4 DEF Unrecovered
  <1>7. Unrecovered(entries) \subseteq 1..n /\ n + 1 \notin Unrecovered(entries)
    BY <1>1, <1>4 DEF Unrecovered
  <1>8. IsFiniteSet(1..n)
    BY <1>1, FS_Interval
  <1>9. IsFiniteSet(Unrecovered(entries))
    BY <1>7, <1>8, FS_Subset
  <1>10. Cardinality(Unrecovered(entries)) \in Nat
    BY <1>9, FS_CardinalityType
  <1>11. Cardinality(Unrecovered(entries) \cup {n + 1}) = Cardinality(Unrecovered(entries)) + 1
    BY <1>7, <1>9, FS_AddElement
  <1> QED
    BY <1>5, <1>6, <1>10, <1>11

\* The initial controller satisfies the invariant.
LEMMA FailsafeInitIInv == FailsafeInit => FailsafeIInv
  <1> SUFFICES ASSUME FailsafeInit PROVE FailsafeIInv
    OBVIOUS
  <1>1. Unrecovered(log) = {}
    BY DEF FailsafeInit, Unrecovered
  <1>2. corruption = Cardinality(Unrecovered(log))
    BY <1>1, FS_EmptySet DEF FailsafeInit
  <1>3. FailsafeTypeOK
    <2>1. log \in Seq([fallback : Buffers, recovered : BOOLEAN]) /\ saved = {} /\ admitted = {}
      BY DEF FailsafeInit
    <2> QED
      BY <2>1 DEF FailsafeInit, FailsafeTypeOK, States, Buffers
  <1>4. Sound(epoch_n, epoch_n1, log)
    BY NoSnapshotAssumption DEF FailsafeInit, Sound, Snapshots
  <1>5. Settled(state, failures) /\ state # "quarantine"
    BY FailureThresholdAssumption DEF FailsafeInit, Settled
  <1>6. OneAdmitted /\ LateWasAdmitted /\ saved = {}
    BY DEF FailsafeInit, OneAdmitted, LateWasAdmitted
  <1> QED
    BY <1>2, <1>3, <1>4, <1>5, <1>6 DEF FailsafeIInv

\* A step of ingestion keeps the invariant: the controller is not touched.
LEMMA IngestIInv ==
  ASSUME FailsafeIInv, NEW t \in Ingesters, AdmitEvent(t) \/ WriteEvent(t)
  PROVE  FailsafeIInv'
  <1>1. UNCHANGED <<state, epoch_n, epoch_n1, failures, corruption, log, saved, torn>>
    BY DEF AdmitEvent, WriteEvent, controller
  <1>2. FailsafeTypeOK'
    <2>1. admitted' \subseteq Ingesters
      BY DEF FailsafeIInv, FailsafeTypeOK, AdmitEvent, WriteEvent
    <2>2. ingested' \in Nat /\ late' \in Nat
      BY DEF FailsafeIInv, FailsafeTypeOK, AdmitEvent, WriteEvent
    <2> QED
      BY <1>1, <2>1, <2>2 DEF FailsafeIInv, FailsafeTypeOK
  <1>3. OneAdmitted' /\ LateWasAdmitted'
    BY <1>1 DEF FailsafeIInv, FailsafeTypeOK, AdmitEvent, WriteEvent, OneAdmitted, LateWasAdmitted, States
  <1> QED
    BY <1>1, <1>2, <1>3 DEF FailsafeIInv

\* Settling a quarantine keeps the invariant: a usable fallback resets the
\* count, none freezes and is counted.
LEMMA SettleIInv ==
  ASSUME FailsafeIInv, SettleQuarantine
  PROVE  FailsafeIInv'
  <1> DEFINE e == [fallback |-> select_fallback_snapshot,
                   recovered |-> Usable(select_fallback_snapshot)]
  <1>1. /\ select_fallback_snapshot \in Buffers
        /\ select_fallback_snapshot \in Snapshots => select_fallback_snapshot.intact
    BY NoSnapshotAssumption
       DEF FailsafeIInv, FailsafeTypeOK, Sound, select_fallback_snapshot, Buffers, Usable, Snapshots
  <1>2. Usable(select_fallback_snapshot) \in BOOLEAN
    BY <1>1, NoSnapshotAssumption DEF Usable, Buffers, Snapshots
  <1>3. e \in LogEntries
    BY <1>1, <1>2 DEF LogEntries
  <1>4. log \in Seq(LogEntries) /\ log' = Append(log, e)
    BY DEF FailsafeIInv, FailsafeTypeOK, SettleQuarantine, LogEntries
  <1>5. log' \in Seq(LogEntries)
    BY <1>3, <1>4
  <1>6. UNCHANGED <<epoch_n, epoch_n1, torn, saved, admitted, ingested>> /\ late' = 0
    BY DEF SettleQuarantine
  <1>7. ~torn => corruption' = Cardinality(Unrecovered(log'))
    <2>1. CASE Usable(select_fallback_snapshot)
      BY <2>1, <1>3, <1>4, AppendCounts DEF SettleQuarantine, FailsafeIInv
    <2>2. CASE ~Usable(select_fallback_snapshot)
      BY <2>2, <1>3, <1>4, AppendCounts DEF SettleQuarantine, FailsafeIInv
    <2> QED BY <2>1, <2>2
  <1>8. /\ state' \in {"recovering", "frozen"}
        /\ failures' \in Nat
        /\ Settled(state', failures')
    BY FailureThresholdAssumption DEF SettleQuarantine, FailsafeIInv, FailsafeTypeOK, Settled
  <1>9. corruption' \in Nat
    BY DEF SettleQuarantine, FailsafeIInv, FailsafeTypeOK
  <1>10. FailsafeTypeOK'
    BY <1>5, <1>6, <1>8, <1>9 DEF FailsafeIInv, FailsafeTypeOK, States, LogEntries
  <1>11. Sound(epoch_n, epoch_n1, log')
    <2>1. \A i \in DOMAIN log' : (i \in DOMAIN log /\ log'[i] = log[i]) \/ log'[i] = e
      BY <1>3, <1>4
    <2>2. e.fallback \in Snapshots => e.fallback.intact
      BY <1>1
    <2> QED
      BY <2>1, <2>2 DEF FailsafeIInv, Sound
  <1>12. OneAdmitted' /\ LateWasAdmitted'
    BY <1>6 DEF FailsafeIInv, OneAdmitted, LateWasAdmitted
  <1> QED
    BY <1>6, <1>7, <1>8, <1>10, <1>11, <1>12 DEF FailsafeIInv

\* Restoring a checkpoint keeps the invariant: the exported copy satisfies it,
\* and a damaged snapshot is refused.
LEMMA ImportIInv ==
  ASSUME FailsafeIInv, NEW damage, NEW raisesAt, import_checkpoint(damage, raisesAt)
  PROVE  FailsafeIInv'
  <1>1. PICK cp \in saved :
          /\ Verifies(epoch_n') /\ Verifies(epoch_n1')
          /\ epoch_n' = ReadBack(cp.epoch_n, "epoch_n" \in damage)
          /\ epoch_n1' = ReadBack(cp.epoch_n1, "epoch_n1" \in damage)
          /\ IF raisesAt = "state"
             THEN UNCHANGED <<state, failures, corruption, log, torn, late>>
             ELSE /\ state' = cp.state
                  /\ failures' = cp.failures
                  /\ corruption' = cp.corruption
                  /\ log' = IF raisesAt = "log" THEN log ELSE cp.log
                  /\ torn' = (raisesAt = "log" \/ cp.torn)
                  /\ late' = 0
    BY DEF import_checkpoint
  <1>2. UNCHANGED <<saved, admitted, ingested>> /\ state # "quarantine"
    BY DEF import_checkpoint, LockFree
  <1>3. cp \in Checkpoints
    BY DEF FailsafeIInv, FailsafeTypeOK, Checkpoints, LogEntries
  <1>4. epoch_n' \in Buffers /\ epoch_n1' \in Buffers
    BY <1>1, <1>3 DEF Checkpoints, ReadBack, Buffers, Snapshots
  <1>5. /\ epoch_n' \in Snapshots => epoch_n'.intact
        /\ epoch_n1' \in Snapshots => epoch_n1'.intact
    BY <1>1, NoSnapshotAssumption DEF Verifies, Usable, Snapshots
  <1>6. CASE raisesAt # "state"
    <2>1. FailsafeTypeOK'
      <3>1. log \in Seq(LogEntries) /\ cp.log \in Seq(LogEntries) /\ cp.torn \in BOOLEAN
        BY <1>3 DEF FailsafeIInv, FailsafeTypeOK, LogEntries, Checkpoints
      <3>2. log' \in Seq(LogEntries) /\ torn' \in BOOLEAN
        BY <1>1, <1>6, <3>1
      <3>3. /\ state' \in States /\ failures' \in Nat /\ corruption' \in Nat
            /\ late' \in Nat
        BY <1>1, <1>3, <1>6 DEF Checkpoints
      <3> QED
        BY <1>2, <1>4, <3>2, <3>3 DEF FailsafeIInv, FailsafeTypeOK, LogEntries
    <2>2. Sound(epoch_n', epoch_n1', log')
      <3>1. Sound(epoch_n', epoch_n1', log) /\ Sound(epoch_n', epoch_n1', cp.log)
        BY <1>5 DEF FailsafeIInv, Sound
      <3> QED
        BY <1>1, <1>6, <3>1
    <2>3. Settled(state', failures')
      BY <1>1, <1>6 DEF FailsafeIInv
    <2>4. ~torn' => corruption' = Cardinality(Unrecovered(log'))
      <3> SUFFICES ASSUME ~torn' PROVE corruption' = Cardinality(Unrecovered(log'))
        OBVIOUS
      <3>1. ~cp.torn /\ log' = cp.log /\ corruption' = cp.corruption
        BY <1>1, <1>6
      <3>2. cp.corruption = Cardinality(Unrecovered(cp.log))
        BY <3>1 DEF FailsafeIInv
      <3> QED
        BY <3>1, <3>2
    <2>5. OneAdmitted' /\ LateWasAdmitted'
      BY <1>1, <1>2, <1>6 DEF FailsafeIInv, OneAdmitted, LateWasAdmitted
    <2> QED
      BY <1>2, <2>1, <2>2, <2>3, <2>4, <2>5 DEF FailsafeIInv, Settled
  <1>7. CASE raisesAt = "state"
    <2>1. FailsafeTypeOK'
      BY <1>1, <1>2, <1>4, <1>7 DEF FailsafeIInv, FailsafeTypeOK
    <2>2. Sound(epoch_n', epoch_n1', log')
      BY <1>1, <1>5, <1>7 DEF FailsafeIInv, Sound
    <2>3. OneAdmitted' /\ LateWasAdmitted'
      BY <1>1, <1>2, <1>7 DEF FailsafeIInv, OneAdmitted, LateWasAdmitted
    <2> QED
      BY <1>1, <1>2, <1>7, <2>1, <2>2, <2>3 DEF FailsafeIInv, Settled
  <1> QED
    BY <1>6, <1>7

\* Exporting a checkpoint keeps the invariant: it is taken with the lock free.
LEMMA ExportIInv ==
  ASSUME FailsafeIInv, export_checkpoint
  PROVE  FailsafeIInv'
  <1>1. PICK cp : /\ saved' = {cp}
                  /\ cp = [state |-> state, epoch_n |-> epoch_n, epoch_n1 |-> epoch_n1,
                           failures |-> failures, corruption |-> corruption, log |-> log,
                           torn |-> torn]
    BY DEF export_checkpoint
  <1>2. /\ UNCHANGED <<state, epoch_n, epoch_n1, failures, corruption, log,
                       torn, admitted, ingested, late>>
        /\ state # "quarantine"
    BY DEF export_checkpoint, controller, ingestion, LockFree
  <1>3. cp \in Checkpoints
    BY <1>1 DEF FailsafeIInv, FailsafeTypeOK, Checkpoints, LogEntries
  <1>4. FailsafeTypeOK'
    BY <1>1, <1>2, <1>3 DEF FailsafeIInv, FailsafeTypeOK, Checkpoints, LogEntries
  <1>5. /\ Settled(cp.state, cp.failures)
        /\ ~cp.torn => cp.corruption = Cardinality(Unrecovered(cp.log))
        /\ Sound(cp.epoch_n, cp.epoch_n1, cp.log)
    BY <1>1, <1>2 DEF FailsafeIInv
  <1>6. OneAdmitted' /\ LateWasAdmitted'
    BY <1>2 DEF FailsafeIInv, OneAdmitted, LateWasAdmitted
  <1> QED
    BY <1>1, <1>2, <1>4, <1>5, <1>6 DEF FailsafeIInv

\* The controller's short methods keep the invariant.
LEMMA MethodIInv ==
  ASSUME FailsafeIInv,
         \/ \E id \in EpochIds : set_epoch_snapshot(id)
         \/ report_agent_failure
         \/ reset_after_recovery
  PROVE  FailsafeIInv'
  <1>1. CASE \E id \in EpochIds : set_epoch_snapshot(id)
    <2>1. PICK id \in EpochIds : set_epoch_snapshot(id)
      BY <1>1
    <2>2. UNCHANGED <<state, failures, corruption, log, torn, saved, admitted, ingested, late>>
      BY <2>1 DEF set_epoch_snapshot, ingestion
    <2>3. epoch_n' \in Snapshots /\ epoch_n'.intact /\ epoch_n1' = epoch_n
      BY <2>1 DEF set_epoch_snapshot, Snapshots
    <2>4. FailsafeTypeOK'
      BY <2>2, <2>3 DEF FailsafeIInv, FailsafeTypeOK, Buffers
    <2>5. Sound(epoch_n', epoch_n1', log')
      BY <2>2, <2>3 DEF FailsafeIInv, Sound
    <2>6. OneAdmitted' /\ LateWasAdmitted'
      BY <2>2 DEF FailsafeIInv, OneAdmitted, LateWasAdmitted
    <2> QED
      BY <2>2, <2>4, <2>5, <2>6 DEF FailsafeIInv
  <1>2. CASE report_agent_failure
    <2>1. /\ UNCHANGED <<epoch_n, epoch_n1, corruption, log, torn, saved, admitted, ingested, late>>
          /\ state # "quarantine"
      BY <1>2 DEF report_agent_failure, ingestion, LockFree
    <2>2. failures \in Nat /\ failures' = failures + 1
      BY <1>2 DEF report_agent_failure, FailsafeIInv, FailsafeTypeOK
    <2>3. FailsafeTypeOK'
      <3>1. state' \in States /\ failures' \in Nat
        BY <1>2, <2>2 DEF FailsafeIInv, FailsafeTypeOK, report_agent_failure, States
      <3> QED
        BY <2>1, <3>1 DEF FailsafeIInv, FailsafeTypeOK
    <2>4. /\ state' = "quarantine" => failures' >= FailureThreshold
          /\ state' # "quarantine" => Settled(state', failures')
      BY <1>2, <2>1, <2>2, FailureThresholdAssumption
         DEF FailsafeIInv, report_agent_failure, Settled
    <2>5. OneAdmitted' /\ LateWasAdmitted'
      BY <1>2, <2>1 DEF FailsafeIInv, OneAdmitted, LateWasAdmitted, report_agent_failure
    <2> QED
      BY <2>1, <2>3, <2>4, <2>5 DEF FailsafeIInv
  <1>3. CASE reset_after_recovery
    <2>1. /\ UNCHANGED <<epoch_n, epoch_n1, corruption, log, torn, saved, admitted, ingested>>
          /\ state' = "active" /\ failures' = 0 /\ late' = 0
      BY <1>3 DEF reset_after_recovery
    <2>2. FailsafeTypeOK'
      BY <2>1 DEF FailsafeIInv, FailsafeTypeOK, States
    <2>3. Settled(state', failures')
      BY <2>1, FailureThresholdAssumption DEF Settled
    <2>4. OneAdmitted' /\ LateWasAdmitted'
      BY <2>1 DEF FailsafeIInv, OneAdmitted, LateWasAdmitted
    <2> QED
      BY <2>1, <2>2, <2>3, <2>4 DEF FailsafeIInv, Settled
  <1> QED
    BY <1>1, <1>2, <1>3

\* Every step of the controller and of the ingesting threads keeps the invariant.
LEMMA NextIInv ==
  ASSUME FailsafeIInv, [FailsafeNext]_failsafe_vars
  PROVE  FailsafeIInv'
  <1>1. CASE UNCHANGED failsafe_vars
    <2>1. FailsafeTypeOK'
      BY <1>1 DEF FailsafeIInv, FailsafeTypeOK, failsafe_vars
    <2>2. OneAdmitted' /\ LateWasAdmitted'
      BY <1>1 DEF FailsafeIInv, OneAdmitted, LateWasAdmitted, failsafe_vars
    <2> QED
      BY <1>1, <2>1, <2>2 DEF FailsafeIInv, failsafe_vars
  <1>2. CASE FailsafeNext
    BY <1>2, IngestIInv, SettleIInv, ImportIInv, ExportIInv, MethodIInv DEF FailsafeNext
  <1> QED
    BY <1>1, <1>2

\* The inductive invariant holds in every reachable state.
THEOREM FailsafeInvariantHolds == FailsafeSpec => []FailsafeIInv
  BY FailsafeInitIInv, NextIInv, PTL DEF FailsafeSpec

\* Type correctness of the controller, its checkpoint and the ingesting threads.
THEOREM FailsafeTypeCorrect == FailsafeSpec => []FailsafeTypeOK
  <1>1. FailsafeIInv => FailsafeTypeOK
    BY DEF FailsafeIInv
  <1> QED
    BY <1>1, FailsafeInvariantHolds, PTL

\* With the lock free the controller is frozen exactly when its failures have
\* reached the threshold (report_agent_failure, _activate_quarantine), also
\* after any import of an exported checkpoint.
THEOREM FreezeCorrect == FailsafeSpec => []FrozenAtThreshold
  <1>1. FailsafeIInv => FrozenAtThreshold
    BY DEF FailsafeIInv, FrozenAtThreshold, Settled, LockFree
  <1> QED
    BY <1>1, FailsafeInvariantHolds, PTL

\* The corruption count is the number of unrecoverable activations in the log,
\* unless import_checkpoint stopped between the counts and the log and no sound
\* checkpoint was restored since.
THEOREM CorruptionCorrect == FailsafeSpec => []CorruptionCountMatchesLog
  <1>1. FailsafeIInv => CorruptionCountMatchesLog
    BY DEF FailsafeIInv, CorruptionCountMatchesLog, Unrecovered
  <1> QED
    BY <1>1, FailsafeInvariantHolds, PTL

\* Neither a buffer nor a fallback is ever a damaged snapshot, although the
\* checkpoints import_checkpoint reads can be damaged.
THEOREM FallbacksCorrect == FailsafeSpec => []FallbacksIntact
  <1>1. FailsafeIInv => FallbacksIntact
    BY DEF FailsafeIInv, FallbacksIntact, Sound, FailsafeTypeOK, Buffers
  <1> QED
    BY <1>1, FailsafeInvariantHolds, PTL

\* At most one event is written after the failsafe has settled: the one
\* process_event had admitted before.
THEOREM LateEventsBounded == FailsafeSpec => []AtMostOneLateEvent
  <1>1. FailsafeIInv => AtMostOneLateEvent
    BY DEF FailsafeIInv, AtMostOneLateEvent, LateWasAdmitted
  <1> QED
    BY <1>1, FailsafeInvariantHolds, PTL

\* A quarantine freezes the controller only if neither buffer has a snapshot.
THEOREM FreezeNeedsNoSnapshot == FailsafeSpec => FreezesOnlyWithoutSnapshot
  <1>1. ASSUME FailsafeIInv, [FailsafeNext]_failsafe_vars, state = "quarantine", state' = "frozen"
        PROVE  epoch_n = NoSnapshot /\ epoch_n1 = NoSnapshot
    <2>1. SettleQuarantine
      BY <1>1 DEF FailsafeNext, failsafe_vars, controller, LockFree, set_epoch_snapshot,
                  report_agent_failure, reset_after_recovery, export_checkpoint,
                  import_checkpoint, AdmitEvent, WriteEvent
    <2>2. ~Usable(select_fallback_snapshot)
      BY <1>1, <2>1 DEF SettleQuarantine
    <2>3. ~Usable(epoch_n) /\ ~Usable(epoch_n1)
      BY <2>2 DEF select_fallback_snapshot
    <2> QED
      BY <1>1, <2>3 DEF Usable, FailsafeIInv, FailsafeTypeOK, Sound, Buffers
  <1>2. FailsafeIInv /\ [FailsafeNext]_failsafe_vars
          => [state = "quarantine" /\ state' = "frozen"
                => epoch_n = NoSnapshot /\ epoch_n1 = NoSnapshot]_failsafe_vars
    BY <1>1
  <1> QED
    BY <1>2, FailsafeInvariantHolds, PTL DEF FailsafeSpec, FreezesOnlyWithoutSnapshot
=============================================================================
