# Verification of the Sovereign Omega runtime

TLA+ models of the stateful core of this repository, the TLC configurations that
check them on small instances, and TLAPS proofs of the properties that matter most.
The repository holds a TypeScript runtime (`sovereign-omega-v2/src`), a Python layer
behind an HTTP bridge (`sovereign-omega-v2/python`), several Rust crates and a number
of user interfaces with their vendored packages. The models cover the parts that keep
state, survive crashes, or are called concurrently.

## 1. The system

    TypeScript runtime (Layer A)                 Python (Layer B)
      event/store.ts  E3 event substrate           bridge.py   HTTP server, one thread
      memory/, network/, ledger/, consensus/         /gate_signal -> gate.py   -> M2
                                                     /event       -> router.py -> core_matrix.py
             --- HTTP, one way ------------>         /checkpoint, stream autosave -> ledger_persist.py
                                                   epoch_failsafe.py  gates process_event

| Component | State | Operations that change it | What is hard | What makes it correct |
|---|---|---|---|---|
| E3 event substrate, `event/store.ts` | IndexedDB stores `events`, `sequences` | `append` in three phases | tabs interleave between the transactions, a write fails, a tab dies | gapless hash chain per stream, truthful result of an append |
| Core matrix, `core_matrix.py` | M1 region, sequence, epoch, era, events processed | `process_event` | wrap of a region that is no multiple of the entry, interrupts inside a handler | era and epoch consistent with the sequence |
| Checkpoints, `ledger_persist.py` | the checkpoint file | `save_checkpoint`, `load_checkpoint` | kill or failure between write and rename, restart | the file is a state between two events, a restart resumes the chain |
| Epoch failsafe, `epoch_failsafe.py` | state, two snapshot buffers, failure and corruption counts, log | failure reports, snapshots, reset, export and import | the state is read without its lock, damaged checkpoints, an import that stops half-way | freezes exactly at the threshold, never falls back to damaged bytes |
| Execution router, `router.py` | handlers, seal, sequence, audit trail | `register`, `seal`, `route` | trail changed outside the lock, limit of the trail | unique numbers, bounded trail of the newest decisions |
| Mutation gate, `gate.py` | last sequence, window, verdicts, seal | `record_signal`, `seal`; `/gate_signal` | late and repeated signals, two guards in two modules | the guards agree, the window is the newest signals, verdicts follow from it |
| Bridge server, `bridge.py` | connections, last autosaved epoch | request handlers, telemetry stream | an endless handler in the only thread, a body that never arrives | requests are answered unless a client holds the server for ever, an epoch is saved once |

The Rust crate `aegis-cl-psi` (T2 gates of a gossip mesh) is a library of small
stateful modules, one per file and gate. None of them runs a thread of its own; every
method takes `&mut self`, and a caller that the repository does not contain composes
them. They share one idiom: a vector of records, each hashed with the hash of the one
before, and `verify_chain`. By what they do beside that they fall into nine parts:

| Part | State beside the chain | Operations | What is hard | What makes it correct |
|---|---|---|---|---|
| Gossip rate monitors, `gossip_*` | none, a window, or a map per peer | `record` | u32 sums that saturate or wrap, truncated shares at thresholds, a damaged entry | flags follow from the numbers, caches from the chain, damage is located |
| Compaction pipeline, `compaction_*`, `unified_compaction_manager` | rolling windows, streaks, totals | one `append` per stage | each stage reads only part of the one before; ring and window bounds | alarms reach the end of the pipeline, totals add up |
| Compaction distribution (ledger, seal, broadcaster, registry, dispatcher, validator, sync state) | entries, admitted peers, last epoch, acknowledgements | certify, dispatch, validate, update | frames lost, repeated, reordered, corrupted; tampered ledger | peers trust only sealed epochs and catch up |
| Message services | tokens, counts per epoch, pending messages, seen sets, queue, cache | consume, track, ack, expire, observe, enqueue | retries, late acknowledgements, epochs rolling over, capacity | limits hold, nothing is handled twice |
| Peer services | blocklist, pool, address book, routes, topics, heartbeats, votes | ban, connect, beat, vote | stale entries at a limit, protocol order | tables can be rebuilt from the log, bans last |
| Health services | sample rings, observed classes | observe, record, build plan | hysteresis, oscillation, wraps | verdicts follow from the whole history |
| Epoch services | budget, momentum, recovery steps, watermarks, probes, fan-out, schedule, archive | spend, advance, report, select | old epochs, caps, byte overflow | spending is paid for, late reports undo nothing |
| Mesh services | epochs of seen messages, fragment slots, logs per peer, priority queue | insert, advance, verify, enqueue, dequeue, decide, audit, report | copies across epochs, fragments in any order, scores that decay, failures that persist | a message is new once, joined once, leaves once; verdicts on the mesh follow from its reports |
| Ledger services (SPSF, health and resonance compaction, lineage, router, broadcaster) | retained entries and their anchor, checkpoints, seen messages | tick, compact, retrieve, route | what a compaction may forget | what is retained and what is anchored add up |

The peers of the mesh interact through the distribution part only; the services are
called one by one (the alert engine composes four of them, the SPSF manager four more).

Not modelled are the hardware and control loops (`pgcs.py`, `tgcs_afse.py`,
`gradient_anchor.py`: threads that poll hardware and floating-point arithmetic), the
statistics of the TypeScript gate, constructors of immutable records (frames,
capsules, skills, interventions), the remaining gates of `aegis-cl-psi`
(pure encoders and comparators, floating-point metrics, wide integer
loops), the cryptographic crates and the user interfaces. `PROJECT.json` lists each with
its reason.

## 2. Modules

| Module | Models | Correspondence |
|---|---|---|
| `EventLog` | what E3 promises | an append-only hash-chained log per stream; one action |
| `EventStore` | `event/store.ts` | `ReadTip`, `ComputeHash` and the commit are the three phases of `append`; a call in flight is a record in `calls`; hashes are collision free and stand for the fields they cover |
| `CoreMatrix` | `core_matrix.py`, `ledger_persist.py`, `run_bridge` | `BeginEvent`, `WriteEntry`, `FinishEvent` are `process_event`; `BeginSave`, `ReplaceCheckpoint`, `FailSave` are `save_checkpoint`; `Restart` is the start of `run_bridge` with `load_checkpoint`; `Crash` and `Interrupt` end a life of the process, also inside a handler; `overcounted` is history: the interrupts that came between era and number |
| `EpochFailsafe` | `EpochFailsafeController` and the check in `process_event` | one action per method; `_activate_quarantine` is two steps, because a reader without the lock can see QUARANTINE; `import_checkpoint` can raise at the state or inside the log, and `torn` is history: the last import left count and log of two files |
| `ExecutionRouter` | `ExecutionRouter` | `route` is split at the end of its lock and between the bytecodes of `_append_audit` |
| `MutationGate` | `/gate_signal`, `MutationGate`, `receive_gate_signal` | acknowledge, record, write M2: three steps of one handler |
| `BridgeServer` | `HTTPServer`, `do_POST`, `/telemetry/stream` | one connection at a time; a request may be "partial" until its body arrives (`SendRest`), and `ReadEnds` is the read of a body whose client left; a cycle of the stream is a step |
| `HashChain` | the idiom of every log of `aegis-cl-psi` | `ChainPush` is the end of each `record`/`append`, `verify_chain` the walk; SHA-256 is an injective constructor over the fields the file feeds it |
| `Arithmetic`, `ChainLog` | u32 and u64 arithmetic, windows, maps; the state of a log | saturating sums, wrapping casts, the scaled `U32Max` |
| `GossipMonitors` | 185 `gossip_broadcast_*` files | one definition per file: the side and value of its threshold |
| `GossipLogs` | those and the `gossip_*` files with classes, windows and maps | one action per file's `record` |
| `CompactionStages`, `CompactionPipeline` | the compaction gates and their gossip mirrors | one operator per stage's `append`, one action that runs an epoch through all of them |
| `CompactionNet` | the epoch ledger's seals on their way to the peers | one action per method, network and tampering beside them: `LedgerTamper` sets epoch, contents, link and hash of an entry as `entries_mut` allows; `written` is history, the entries as `append` returned them |
| `ServiceState`, `MessageServices`, `PeerServices`, `HealthServices`, `EpochServices`, `PaceServices`, `MeshServices`, `LedgerServices`, `Services` | sixty-eight services of the crate | one action per method that changes state, refusals included; `kind` says which service runs, `calls` is the history of its calls |
| `EventProofs`, `MatrixProofs`, `BridgeProofs`, `ArithmeticProofs`, `GossipLogsProofs`, `CompactionPipelineProofs`, `CompactionNetProofs`, `ServicesProofs` | | theorems about the modules they extend: `EventProofs` about `EventStore` and `ExecutionRouter`, `MatrixProofs` about `CoreMatrix` and `EpochFailsafe`, `BridgeProofs` about `MutationGate` and `BridgeServer`, `ArithmeticProofs` about `Arithmetic` and `HashChain`; the names of the router's, the server's and the failsafe's definitions begin with `Router`, `Server` and `Failsafe` where both modules of a pair have one |
| `MC*` | | instances for TLC |

How one line stands for a file. The `gossip_broadcast_*` files hold the same program over
other names: after renaming identifiers their token streams agree except for the side
and the value of a threshold. `GossipMonitors` therefore records that one policy per file,
and the policy together with `MonitorEntry` (what `record` computes), `HashChain` (what
`compute_hash`, the push and `verify_chain` do) and `ChainLog` (counts, means, totals) is
the file. The header of the module names the few files that deviate. In the same way
the gossip mirrors of `CompactionNet` are the operators of their twins.

Composition. `CoreMatrix` composes the matrix, its checkpoint file and the life of the
process; `EpochFailsafe` composes the controller with the threads that ingest;
`MutationGate` composes bridge, gate and matrix for one request. `BridgeServer` is the
scheduler above them and abstracts a handler to what it does to the epoch. That is
sound because the server runs one handler at a time: no step of one of those modules
interleaves with a step of another one on shared state.

Abstractions. Payloads, hashes and snapshots are what the code compares of them: a
payload is its length in M1, a hash its preimage, a snapshot its epoch and whether its
bytes still match. M2 and M3 are written and never read; only the M2 write of a gate
signal is kept, for whom it is made. M1's region has units of 8 bytes and the same
remainder as the real one: 2^31 bytes are a multiple of 40 plus 8. M1 stores the
*payload* hash of an event, so what the code calls its chain covers the previous
payload and nothing before it; the model keeps that. A definition marked `Mutant` is
a plausible bug in the definition after it; it is not part of the model and exists to show that
the properties can fail.

## 3. Runs

| Run | Checks | Instance |
|---|---|---|
| `event_store` | `TypeOK`, `CounterMatchesIndex`, `ChainVerifies`, `OutcomeTruthful`, `ImplementsEventLog` | two appenders, two streams, four appends: the unique index alone is enough to keep every stream a verifiable chain; the store implements `EventLog` |
| `epoch_failsafe` | `FailsafeTypeOK`, `FrozenAtThreshold`, `CorruptionCountMatchesLog`, `FallbacksIntact`, `AtMostOneLateEvent`, `FreezesOnlyWithoutSnapshot`, `QuarantineSettles` | threshold three, two epochs, two threads, a checkpoint that may be damaged or stop the import at either place |
| `core_matrix` | `CountersAgree`, `CheckpointIsCut`, `DurableNumbersKept`, `RestartResumesChain` | six events over a region of two entries and one unit: three passes, with the seam met once; two interrupts between era and number |
| `router` | `SequencesUnique`, `AuditIsRecent` | two threads, four calls, trail of two |
| `mutation_gate` | `GuardsAgree`, `WindowIsRecent`, `VerdictMatchesHistory` | window of three, five requests with any sequence |
| `bridge_server` | `AtMostOneAutosave`, `AutosaveCatchesUp`, `EveryRequestAnswered` | two clients, four epochs |
| `gossip_logs` | `DamageLocated`, `VerdictsFollowTheNumbers`, `CachesReadBackFromLog` | every log, two entries (five with a window), two peers, counts beside every threshold and at the end of u32 |
| `compaction_pipeline` | `AlarmsFollowHistory`, `AlarmReachesDashboard`, `TotalsTelescope` | six epochs, both sides; windows of four and five slide |
| `compaction_net` | `DispatchReachesAdmitted`, `SealTellsTampering`, `PeersTrustOnlySeals`, `PeerCatchesUp` | two ledger entries; one peer, one seal and two changes to entries on the compaction side, two peers and two seals on the gossip side |
| `services` | `MessageQuotas`, `FreshOnce`, `LimitsHold`, `NothingTwice`, `VerdictsFollowHistory`, `HistoryKept` | each of sixty-eight services with every sequence of up to ten calls (`MCServices`) |

What `services` checks is one property per question, each a conjunction over the
services it concerns: `MessageQuotas` (what token bucket, rate limiter and hop count let
through), `FreshOnce` (a message, nonce, content or sequence number is new, forwarded or
broadcast once, until what remembers it was dropped; a router drops as seen only what it
forwarded), `LimitsHold` (byte quotas, tables, bans, budgets, fan-out, pace; what a full queue evicts or
refuses, and in which order it sends),
`NothingTwice` (acknowledgements and timeouts, attempts, fragments, queued messages, rounds,
votes, decay, recovery steps; nothing times out early), `VerdictsFollowHistory` (averages,
classes, plans, quorums, alerts, boundaries, consensus certificates, audits, drift,
divergence, recomputed from `calls`), `HistoryKept` (a reader who holds only the chain
rebuilds the table; which peers a refused seal has sealed; compaction, lineage, archive).

Two runs show that the code does not do what a line of the repository says:

| Run | The code | The line |
|---|---|---|
| `core_matrix_seam` | saves a cut entry at the end of the region, and cannot load it | `ledger_persist.py:7` |
| `spsf_history` | replaces the anchor of pruned entries at each compaction by one that covers only the newest pruned ones | `spsf_compactor.rs:8` |

Other divergences, stated as definitions or met while modelling, without a run of their own.

Python layer: `process_event` admits an event while the state is QUARANTINE
(`QuarantineHaltsIngestion`, `epoch_failsafe.py:134`). `KeyboardInterrupt` between the
era and the number of an event (`core_matrix.py:273` and `282`) lets the shutdown save an era
that the event of the next life raises again: the era is ahead of the passes by one for each
such interrupt, for ever, where `core_matrix.py:214` says that it counts them
(`EraMatchesSequence` states the excess). An `import_checkpoint` that meets an unknown state or
a log entry without a field raises with part of the controller replaced, in the second case
with the counts of the file and the log of the controller (`CorruptionCountMatchesLog`
speaks of the controllers no such import left behind, and says how long). Two threads at the limit of the router's trail lose a
decision (`AuditKeepsRecent`, `router.py:20`). M2 is written without asking for the
verdict (`M2WritesApproved`, `gate.py:12`). A watcher of the stream, or a client that
announces a body and does not send it, keeps a gate signal waiting for ever, because there is
one thread and no timeout (`EveryGateSignalReceived`, `bridge.py:8`; `bridge.py:151`). A FROZEN controller
resumes after a later snapshot and one more failure, although `corruption_count` calls
the event unrecoverable; the epoch counts events since the last start and not the
sequence, so the two drift apart after a restart; numbers given out since the last
checkpoint are given out again after a kill (`DurableNumbersKept` is what remains true);
exactly half of the window approves, where the comment on `MIN_ACCEPTANCE_RATE` says more
than half.

Messages in Rust: a critical message is refused or dropped with a full queue and
`CRITICAL_RESERVE` is unused (`CriticalNeverEvicted`, `message_priority_queue.rs:10`); a full
queue evicts the oldest entry of its least urgent class, whatever comes, where
`message_priority_queue.rs:163` says the last entry, and refuses a newcomer only when all
entries are Critical and it is not, where line 164 refuses any that is less urgent than all;
a message times out in the epoch at which `ACK_TIMEOUT_EPOCHS` have gone by
(`message_ack_tracker.rs:227`), where lines 6 and 7 say that the epoch exceeds the limit; a
nonce that finds its epoch full is fresh every time (`nonce_cache.rs:185`), and any nonce is
fresh once under each epoch of the window, because only the slot of the epoch it names is
searched (`NonceOncePerWindow`, `nonce_cache.rs:6`); the slot of
epoch 0 is dropped as soon as the epoch moves on, because the cutoff of both windows
saturates at 0 and a slot is kept only above it (`nonce_cache.rs:161`,
`gossip_message_cache.rs:156`; `Dropped` says so in `FreshOnce`); the frame
checksum of the broadcaster leaves out two of the prefixes its header lists; votes of
unknown voters count (`consensus_ledger.rs:79`). The reassembly buffer keeps a message id
and never compares it, nor the hash of a fragment, so the fragments of two messages of
equally many are joined into one (`message_fragmenter.rs:132`; `FragmentsJoinedOnce` speaks
of buffers fed from one message). The decaying queue hands out expired messages unless they
are discarded first (`gossip_priority.rs:142`).

Peers: a mesh is Unified when its links are symmetric and leave no cut, also a chain of three
whose ends do not reach each other, where `partition_detector.rs:9` and `70` speak of all
nodes or pairs; and isolated nodes are looked for before asymmetric links, not after them as
in the steps at lines 66 and 67. A ban cannot be renewed while an expired one is not swept (`peer_blocklist.rs:192`);
address book and capability tracker forget a peer's last epoch with the peer; the
boundary detector accepts any old epoch, and a peer not heard of before can take a
boundary back.

Health and epochs: the watchdog calls 1, 0, 1 degrading or stable by its window only
(`resilience_watchdog.rs:11`); the sequencer takes a kind's priority from the first plan
that names it and lets a step go back from InProgress to Pending; Warn by an Alert
condition is unreachable in the alert engine, because that condition already makes the
trend Critical; `backpressure_monitor` documents a cap of 100 and has one of 255; the
fan-out controller moves on reports its log refuses (`adaptive_fanout_controller.rs:164`);
the schedule's pace starts over every 256 intervals (`gossip_scheduler.rs:114`). The fan-out
policy does not look at health while the quorum is at its threshold, so a mesh below half
its health is given five and not the maximum (`fanout_controller.rs:62`), and more once the
quorum is better. A failure that persists is classed Stable or Nominal from its second
report on, which permits adaptation again while the mesh still fails
(`divergence_oracle.rs:45`; `FailureTold` is what holds: it was forbidden when it began).

Distribution: `chains_valid` of a seal is true although an entry was changed when the
entries after it were linked and hashed again, and the last epoch of a seal is the one its last
entry claims: only the terminal hash, compared with the one `append` returned, tells
(`SealTellsTampering`; `PeersTrustOnlySeals` names the peers that look diverged for it).

Histories: the archive keeps no tombstones and its chain no longer verifies after the
first eviction (`epoch_snapshot_archive.rs:164`); the Balanced strategy of the lineage
compactor returns the epochs it set out to keep, and `retrieve` returns a whole segment.

Bounds and why they are enough. Every bound is a named constant. `MaxSequence = 6` with two
entries per pass gives three passes, so the era changes twice, the write head takes
three different alignments and an entry crosses the end. `EpochLength = 2` lets epochs
end within a life and across lives. `MaxLog = 2` allows a second activation after a
recovery or a freeze, and an import between them. Four calls of `route` with a trail of
two fill it, evict, and let both threads be in `_append_audit` at the limit.
Five signals slide a window of three twice. `MaxSplits = 2` lets an
era be counted twice in two lives. Two clients are one that holds the server, at the stream or
with half a request, and one that waits; a third could only wait behind the second. Two
changes to ledger entries are a rewritten entry and its successor linked to it again, with any
entry, seal and append between them; the gossip side, whose files are the same, spends its
bound on frames in flight instead. Three voters put the quorum at two. Deadlock is checked except where a bound ends the
run (`event_store`, `router` and the Rust runs: their callers may stop calling).

The Rust constants are scaled down so that every limit is crossed within the calls of a
scope: a table of one or two places, a window of two or three, quotas of two to four,
`U32Max` of 1000 (services), of 40 with a u64 of 4000 (pipeline, where six epochs take a u32 sum
past its end and never a u64 total) or 10^6 (logs, where products of a hundred must leave it), a byte of eight for the counter of intervals. A scope names the peers, identifiers and
epochs a service is called with, always including an epoch before and after the limit and a
repeated identifier; services without a limit over time get two calls, those with a
window one call more than the window; nonce and message cache have a window of three and
are called with the epochs 0, 1, 2 and 4, so that a slot stays, leaves at the end of the
window, or is the one of epoch 0. In `gossip_logs` five calls take a peer's reputation
to its floor; its ceiling is out of their reach. Inputs computed by gates outside the model are
enumerated from the values their consumer can tell apart.

Fairness. `EpochFailsafe`: weak fairness of the rest of `_activate_quarantine` and of
an admitted event; both are straight-line code under a lock. `BridgeServer`: weak
fairness of the server thread's own steps: taking a connection, handling a request that has
arrived, a cycle of the stream, and noticing that a client left. Strong fairness of a successful
save, that is, a disk that does not fail for ever. Of clients one thing is assumed: who stays
at the stream reads what it is sent. They may keep a stream open for ever, and nothing makes one
send the rest of its request (`SendRest` is not fair): the server reads a body without a timeout,
so such a client holds it too. `EveryRequestAnswered` has as its hypothesis that the server is
again and again not held in one of these two ways; `EveryGateSignalReceived` leaves that out. `CompactionNet`: weak fairness of validating each
frame, because a validator is called for every frame that arrives; sending, acknowledging
and certifying are the caller's choice, and losing a frame ends what is owed to it.

## 4. Proofs

Each theorem is for every value of the constants under the `ASSUME`s of its module, and
follows from an inductive invariant that is stronger than the property, `IInv` in most modules. TLC
finds no state of its run's instance that violates any of these `IInv`.

**`EventProofs`, the store**. `CounterMatchesIndex` is not inductive: what a transaction writes
was computed from an earlier read. `IInv` adds what a call in flight still knows
(`InFlight`: the position it read is either the tip or already taken, and in that case
the unique index refuses it), the links of stored events and the ownership of identifiers.
From it follow type correctness, the counter, truthful outcomes, that `EventStore`
implements `EventLog` (only the commit step changes the log, and it appends one linked
event), and `ChainVerifies`: `getAll` returns the events of a stream in the order of their
sequence, and because there is exactly one for each number up to the tip, neighbours in
that order are neighbours in the chain (`ReadsInOrder`).

**`MatrixProofs`, the failsafe**. A checkpoint on disk can become the controller's state, so `IInv`
says of the exported copy what it says of the controller: settled, sound, counted.
A quarantine that has begun has reached the threshold. Proved are the threshold, the
corruption count (a cardinality over the log, where no import stopped between the two), intact fallbacks, at most one late event
for any number of threads, and that a freeze needs both buffers empty.

**`MatrixProofs`, the matrix**. Era, epoch and sequence are assigned one by one, so `CountersAgree`
says nothing inside a handler and is not inductive. `Numbers` says what they are at every
step of `process_event`: the era may be ahead by the event being written, and the epochs of
this life, the events beyond them and the one not yet counted never add up to more than the
sequence. `Entries` and `Kept` say of both copies of a checkpoint what a restart needs: its
entry has the cells its number says, up to the end of the region, and no loadable
checkpoint is ahead of the process. An interrupt may stop a handler
anywhere: one that comes between era and number leaves the era one ahead for good, and
`overcounted`, kept beside the counters and in each checkpoint, says by how much.
`CountersCorrect` and `CheckpointCorrect` hold without a hypothesis on interrupts.
`NumbersNotReused`, `RestartResumes` and `TypeCorrect` rest on `Base`, the part of `IInv` that
does not relate era and epoch to the sequence.

**`EventProofs`, the router**. For any finite set of threads. The numbers held by calls and the
numbers recorded partition what the counter has given out, and a finite number of calls in
flight makes that a statement on cardinalities. `AuditIsRecent` says nothing of a call
between the bytecodes of `_append_audit`: `OneCall` adds what the one call has done to the
trail or to its copy of it, as long as calls never overlapped, and `TrailBounded` counts
the threads past the capacity check, which will append without looking again.

**`BridgeProofs`, the gate**. `GuardsAgree` holds between requests; `IInv` adds the state
between the handler's effects (acknowledged and not recorded: strictly newer than what
the gate has) and that the gate is sealed only in a stopped process. The window is
proved to be the newest recorded signals through a lemma on the bounded deque.
`VerdictMatchesHistory` adds `VerdictsKept`: each verdict is the ruling on the history up to
the proposal's last mention, which later signals do not change (`RulingAppend`), and the
ruling on the whole history is what the gate computes from its window (`VerdictIsRuling`,
a bijection between the accepted flags in the window and the accepted signals judged).

**`BridgeProofs`, the server**. A stream saves at most once: if it has saved, the epoch is the one
it saved, because events are handled by a handler and the stream is the only one. The
invariant needs that waiting and handled connections are different clients, also while a
request is still arriving.

**`CompactionNetProofs`**. Four parts. `RegistryOK`:
the registry is finite and the replay of its events gives it back, so every dispatch
delivers to exactly the peers it counts. `EpochsOK`: whatever a sound frame, a peer, an
acknowledgement or the tracker holds was dispatched, whatever the network lost, repeated,
reordered or corrupted, and is no epoch beyond the ledger unless a seal named it
(`NamedBeyond`, which `SealsOK` lets only grow). `LedgerOK` says that each entry `append` wrote
has the hash of its contents and its link, whatever became of it in the ledger. From it
`CertifyTold` derives what a seal tells: equal hashes mean equal entries (`HashInjective`), the
walk makes each link equal the hash before it, so an entry with its original hash pulls the
entries before it along, one by one (`Downwards`, by the least element that would be missing).

**`ArithmeticProofs`**. What the logs are built from, for any log and any fields: a push
keeps a log chained, `verify_chain` accepts it, and it names the first damaged entry
whatever was done to the ones after it (`DamageNamed`); a window holds the newest values
(`SlideNewest`); how a running total grows, and what a truncated quotient brackets. Those
totals are recursive functions, and a fact about all their values is proved by
`SetInduction`: a set of numbers that holds 0 and with each number the next one holds them
all, for otherwise the naturals outside it would have a least element.

**`CompactionPipelineProofs`**. The stages carry rings, windows and a streak, the properties
speak of the rows of all epochs. `Carried` says that the window or the ring of four slots
holds the newest scores, the deltas are those of the newest rows, and the saturating
streak is at least `k` exactly when the last `k` epochs declined. `RowTells` is the
property of one row, which later rows do not change because it looks only back. From the
two follow `AlarmsCorrect` and `DashboardCorrect`, on both sides. `TotalsCorrect` needs the
books on top of that: `Books` says what the totals, the seals of the stages and the rows of
all epochs are of each other, that is, each stage's stored sum is the running total of what
the stage before it sealed. That invariant holds without any bound on the counts
(`BooksHold`); the property then says where sums wrap or saturate and where they do not,
and only there bounds are its hypotheses.

**`GossipLogsProofs`**. One row invariant for all thirty-odd shapes of a record: `IInv` says
how wide an entry is, what its derived columns are of the given ones (`Derived`), and what
may stand beside the log. From it follow, for any peers, counts and lengths of a log:
`DamageIsLocated` (the entries are tuples of integers, so `DamageNamed` applies to each of
them); `VerdictsHold` (a truncated percentage is on a side of a threshold exactly when the
fraction is, `ShareDecides`; classes grow with what makes an epoch worse, `NoInversion`); and
`CachesCorrect`. The last one adds `Cached`: the window, last value or map is what the
entries give, where the entries of a peer are collected by a recursive function over the
log (`Mine`) and its score by another one over these (`Score`). A push changes the
collection of one peer by one entry (`MineAppend`), so each map changes in one place and to
the right value (`MapStep`). The health and broadcast files take their inputs from boundary
values in the model; the facts about their rows are for any integers.

**`ServicesProofs`**. `Services` runs one service at a time, and a first lemma per group says
which actions a step of a service can be (`Dispatch`). The properties speak of the whole
history of calls, so each invariant says what the service's own state remembers of that
history. `QuotasCorrect` has three: for the token bucket, that what a peer got through since
any call and the tokens it has left are paid for by a full bucket and the ticks since then
(`TokensOK`, a statement on every stretch that reaches up to now; the budget of a stretch that
ended earlier was settled when it ended); for the rate limiter, that a source's record holds
the latest epoch it named and counts exactly the calls let through that are charged to that
epoch (`RateOK`), whatever the order in which epochs are named; for hop counts, that a record
counts the calls that forwarded its message, and that a dropped message has its last call
behind it (`HopsOK`).

`FreshCorrect` follows what was found new into what remembers it. Filters and caches that go
by epochs share one fact: the service's epoch is the latest that any call named (`EpochsTold`,
`EpochStep`). A message that was fresh in the present epoch is in the filter's set
(`DedupInv`); a nonce or content is in the slot of its epoch unless a later call dropped that
slot (`SlotStays`, `WindowMoves`) or, for a nonce, the slot was full when it came, and a slot
holds no more nonces than were fresh in its epoch (`NonceKept`, `SlotOK`, `ContentKept`); of a
peer, a later number than the last in order is expected unless it was reset since
(`NumberPassed`); a new message is remembered with its epoch, or a call took the cache so far
that no copy of that epoch is accepted any more (`MessageKept`); a forwarded message is marked
unless a call pruned its mark (`RouterInv`); and the broadcaster's table holds the largest
number of each node in its log (`BroadcastInv`). A second acceptance then finds the first one
remembered, unless the property's own exception happened in between.

`PeersLimited`, `PeersActOnce` and `QueueLeavesOnce` take the conjuncts of `LimitsHold` and
`NothingTwice` that are about one table and its calls. A peer is in the blocklist exactly
when an accepted ban of it was not lifted, and then until the epoch that ban runs to
(`BansInv`); an idle connection has the call that released it, at the epoch it was last used
(`PoolInv`); tables and scores stay within their limits whichever call writes them
(`TablesInv`, on `BoundedTable`). The votes of a round are those of voters whose call
returned `Ok`, so a certificate counts no more than there are (`ConsensusInv`, a cardinality
that only grows); a log whose guard compares with its last entry ascends (`AscendingPush`);
a node is halted once a call took it there and no call leaves that state (`NodesInv`). Of the
scored queue, a number below the next one is in the queue and no call had it, or it is not
and exactly one had it (`QueueInv`): a batch is the first of the ranking, and the ranking of a
finite set by a total order leaves no rank empty and none shared (`RanksFilled`, by counting
the members below each one).

Assumptions. Besides the types of the bounds: the router's threads are finitely many and
its trail keeps two records or more; M1 holds at least one entry and an entry has more than
one unit;
`U32Max >= 3`, because a saturating streak must be able to reach the alert's threshold of
three; the pipeline's thresholds and ceilings are positive and fit a u32, a u64 holds a
hundred u32 (`ThresholdsAssumption`), and what it is fed as `chains_valid` is a Boolean
(`PipelineAssumption`); in the gossip logs counts fit a u32, and a u32 holds the 105 that a
delivery makes of a full score before it is capped (`InputsAssumption`); the services are
called with finitely many peers, identifiers and epochs (`ScopeAssumption`), and the quota of
a rate limiter fits the u32 that counts against it (`MessageAssumption`).

Only model-checked, and why:

- liveness (`QuarantineSettles`, `AutosaveCatchesUp`, `EveryRequestAnswered`,
  `PeerCatchesUp`), which is out of the prover's reach;
- `LimitsHold`, `NothingTwice`, `HistoryKept` and `VerdictsFollowHistory` of `Services` as
  wholes. Of the first two the conjuncts named above are proved; the others are stated by
  folds, `SelectSeq` or `FlattenSeq` over the history of calls (byte quotas and
  entropy spent, records of one peer in a shared log, the chain of a rebuilt plan, joined
  fragments, running sums), and what those compute rests on recursions over data for which
  the installed library states no theorem that can be applied.

## 5. Plan

1. Done: event substrate, core matrix with checkpoints, failsafe, router, gate, server;
   gossip logs, compaction pipeline and distribution, services of `aegis-cl-psi`.
2. Done: proofs of the safety and action properties of all of these but `Services`, of
   the hash chain for any log, of `MessageQuotas` and `FreshOnce` of `Services`, and of the
   parts of `LimitsHold` and `NothingTwice` about tables, bans, connections, rounds and queues.
3. Proofs for the rest of `Services`: first lemmas on what `SelectSeq` and the sums over sets
   do when the history grows by one call, then quotas, lifecycle and acknowledgements.
4. Memory fabric: `SlabAllocator` with tiers and double frees, `ZeroCopyChannel`,
   `FiberActorCell`, `SlotRegistry` (generations) and `ForkTree`. Abstract specification:
   a chunk has one owner. Hazard: a stale handle frees a chunk that was allocated again.
5. Network queue: duplicates, equivocation, and what draining forgets; ledger chain,
   epoch sealing and quorum above it; hysteresis and the genesis ledger of
   `aegis-runtime`; the metacognitive chain and the PGCS state machine of the bridge.
