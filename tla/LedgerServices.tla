--------------------------- MODULE LedgerServices ---------------------------
(***************************************************************************)
(* The services of src/aegis-cl-psi that keep a history and shorten it:    *)
(* the SPSF manager with its scheduler, compactor and verifier, the health *)
(* and resonance compactors and the tick that runs the three together, the *)
(* lineage compactor, the dedup table of the gossip router and the log of  *)
(* the gossip broadcaster.                                                 *)
(***************************************************************************)
EXTENDS ServiceState

CONSTANTS
    \* the constants of spsf_scheduler.rs, scaled down by the configurations
    COMPACT_ENTRY_THRESHOLD, COMPACT_EPOCH_INTERVAL, PRUNE_TARGET_SIZE, MIN_RETAIN,
    OldAge      \* 100 in lineage_compactor.rs, scaled down likewise

ASSUME LedgerAssumption ==
    /\ COMPACT_ENTRY_THRESHOLD \in Nat /\ COMPACT_EPOCH_INTERVAL \in Nat
    /\ PRUNE_TARGET_SIZE \in Nat /\ MIN_RETAIN \in Nat \ {0} /\ OldAge \in Nat

LedgerKinds == {
    "spsf_manager", "gossip_health_compactor", "resonance_compactor",
    "compaction_gossip_health",
    "unified_compaction_manager", "lineage_compactor", "gossip_router",
    "gossip_broadcaster" }

GenesisAnchor == [sequence |-> 0, terminal |-> Genesis, count |-> 0]

LedgerInit ==
    CASE kind = "spsf_manager" ->
           st = [entries |-> << >>, anchor |-> GenesisAnchor, last |-> 0]
      [] kind = "lineage_compactor" ->
           \E strategy \in {"Aggressive", "Balanced", "Conservative"} :
              st = [pending |-> << >>, history |-> << >>, checkpoints |-> {},
                    strategy |-> strategy]
      [] kind = "gossip_router" -> st = [peers |-> {}, seen |-> {}]
      [] OTHER -> st = << >>

Largest(a, b) == IF a > b THEN a ELSE b
WrittenTo(l, owner, data) ==
    Put(l, owner, ChainPush(Get(l, owner, << >>), data, DOMAIN data))

-----------------------------------------------------------------------------
(* SPSF: entries <<sequence id, state hash>>.  The logs are 1 scheduler,     *)
(* 2 compaction, 3 verification and 4 management.                            *)

\* A hash over the entries in order, from the given hash on.
HashedOver(from, entries) ==
    FoldLeft(LAMBDA acc, e : Sha256(acc, e, DOMAIN e), from, entries)

\* Nothing pruned: the anchor is the one of the genesis again.
from_pruned(pruned) ==
    IF pruned = << >> THEN GenesisAnchor
    ELSE [sequence |-> pruned[Len(pruned)][1],
          terminal |-> HashedOver(Genesis, pruned),
          count |-> Len(pruned)]

PrunedOf(entries, retain) == SubSeq(entries, 1, SaturatingSub(Len(entries), retain))
RetainedOf(entries, retain) ==
    SubSeq(entries, SaturatingSub(Len(entries), retain) + 1, Len(entries))

\* The trigger: 0 none, 1 entries, 2 epoch age, 3 both.
TriggerReason(e, total, last) ==
    Byte(total >= COMPACT_ENTRY_THRESHOLD)
      + 2 * Byte(SaturatingSub(e, last) >= COMPACT_EPOCH_INTERVAL)

\* Mutant: the floor of the retained entries is dropped.
recommended_retain_none(total) == SaturatingSub(total, PRUNE_TARGET_SIZE)

recommended_retain(total) ==
    AtMost(Largest(SaturatingSub(total, PRUNE_TARGET_SIZE), MIN_RETAIN), total)

\* 0 Verified, 1 AnchorGap, 2 EmptySuffix, 3 NonMonotone.
verify_suffix(anchor, suffix) ==
    CASE suffix = << >> -> 2
      [] OTHER ->
           IF \E i \in 2..Len(suffix) : suffix[i][1] <= suffix[i - 1][1] THEN 3
           ELSE IF anchor.count > 0 /\ suffix[1][1] # anchor.sequence + 1 THEN 1 ELSE 0

ingest ==
    /\ Serve("spsf_manager")
    /\ \E id \in Ids :
          LET refused == st.entries # << >> /\ id <= st.entries[Len(st.entries)][1]
          IN  /\ st' = IF refused THEN st
                       ELSE [st EXCEPT !.entries = Append(@, <<id, Len(calls)>>)]
              /\ Return("ingest", <<id>>, ~refused)
    /\ UNCHANGED logs

\* The audit trail of a tick; the retained suffix is verified in every tick.
TickLogs(e, reason, pruned, anchor, retained) ==
    LET verdict == verify_suffix(anchor, retained)
        total == pruned + Len(retained)
        plan == WrittenTo(logs, 1, <<e, reason, total>>)
        prune == IF reason = 0 THEN plan
                 ELSE WrittenTo(plan, 2, <<e, pruned, Len(retained), anchor.sequence, anchor.terminal>>)
        suffix == IF verdict = 0 THEN HashedOver(anchor.terminal, retained) ELSE Genesis
        check == WrittenTo(prune, 3, <<anchor.sequence, Len(retained), verdict,
                                       anchor.terminal, suffix>>)
    IN  WrittenTo(check, 4, <<e, Byte(reason # 0), pruned, Len(retained), verdict>>)

spsf_tick ==
    /\ Serve("spsf_manager")
    /\ \E e \in Epochs :
          LET total == Len(st.entries)
              reason == TriggerReason(e, total, st.last)
              retain == IF reason = 0 THEN total ELSE recommended_retain(total)
              pruned == PrunedOf(st.entries, retain)
              kept == RetainedOf(st.entries, retain)
              anchor == IF reason = 0 THEN st.anchor ELSE from_pruned(pruned)
          IN  /\ st' = [entries |-> kept, anchor |-> anchor,
                        last |-> IF reason = 0 THEN st.last ELSE e]
              /\ logs' = TickLogs(e, reason, Len(pruned), anchor, kept)
              /\ Return("tick", <<e, Len(pruned)>>, verify_suffix(anchor, kept))

-----------------------------------------------------------------------------
(* Health reports <<epoch, class>> (0 Green .. 2 Red) and resonance records  *)
(* <<sequence, resonant, certified>>: what the anchor of the pruned says.    *)

PeakClass(pruned) == Max({0} \cup { pruned[n][2] : n \in DOMAIN pruned })

HealthAnchor(pruned) ==
    [sequence |-> IF pruned = << >> THEN 0 ELSE pruned[Len(pruned)][1],
     terminal |-> HashedOver(Genesis, pruned), count |-> Len(pruned),
     peak |-> PeakClass(pruned)]

ResonanceAnchor(pruned) ==
    [sequence |-> IF pruned = << >> THEN 0 ELSE pruned[Len(pruned)][1],
     terminal |-> HashedOver(Genesis, pruned), count |-> Len(pruned),
     certified |-> Cardinality({ n \in DOMAIN pruned : pruned[n][3] = 1 }),
     resonant |-> \E n \in DOMAIN pruned : pruned[n][2] = 1]

\* Reports of two epochs and records of two numbers, with every class and flag.
Reports == UNION { [1..n -> 0..2] : n \in 0..2 }
ReportsOf(classes) == [n \in DOMAIN classes |-> <<n, classes[n]>>]
Resonances == UNION { [1..n -> {<<0, 0>>, <<0, 1>>, <<1, 0>>, <<1, 1>>}] : n \in 0..2 }
RecordsOf(flags) == [n \in DOMAIN flags |-> <<n, flags[n][1], flags[n][2]>>]

compact_health ==
    /\ Serve("gossip_health_compactor")
    /\ \E classes \in Reports, retain \in 0..2, e \in Epochs :
          LET pruned == PrunedOf(ReportsOf(classes), retain)
              anchor == HealthAnchor(pruned)
          IN  /\ logs' = Chained(0, <<e, Len(pruned), Len(classes) - Len(pruned),
                                      anchor.sequence, anchor.terminal, anchor.peak>>)
              /\ Return("health", <<classes, retain>>, anchor)
    /\ UNCHANGED st

\* CompactionGossipHealthMonitor: 0 Green, 1 Yellow, 2 Red.
classify(fails, regressed, delivered, missed, lagging, diverged, admitted) ==
    IF diverged >= 1 \/ fails >= 3 \/ (admitted > 0 /\ delivered = 0) THEN 2
    ELSE Byte(lagging >= 1 \/ regressed >= 1 \/ missed >= 1 \/ fails >= 1)

\* Checksum failures, regressions, missed deliveries, lagging and diverged
\* peers: none, or one kind at a time.
Disturbances == { <<0, 0, 0, 0, 0>>, <<2, 0, 0, 0, 0>>, <<3, 0, 0, 0, 0>>,
    <<0, 1, 0, 0, 0>>, <<0, 0, 1, 0, 0>>, <<0, 0, 0, 1, 0>>, <<0, 0, 0, 0, 1>> }

record_gossip_health ==
    /\ Serve("compaction_gossip_health")
    /\ \E e \in Epochs, odd \in Disturbances, delivered, admitted \in {0, 1} :
          LET class == classify(odd[1], odd[2], delivered, odd[3], odd[4], odd[5], admitted)
          IN  /\ st' = Append(st, <<e, class>>)
              /\ logs' = Chained(0, <<e, class>> \o odd \o <<delivered, admitted>>)
              /\ Return("record", <<odd, delivered, admitted>>, class)

\* compact_gossip_health of the monitor's reports, which stay where they are;
\* the caller names how many to prune, not how many to retain.
compact_gossip_health ==
    /\ Serve("compaction_gossip_health")
    /\ \E prune_count \in 0..3, e \in Epochs :
          LET retain == Len(st) - AtMost(prune_count, Len(st))
              pruned == PrunedOf(st, retain)
              anchor == HealthAnchor(pruned)
          IN  /\ logs' = WrittenTo(logs, 1, <<e, Len(pruned), retain, anchor.terminal,
                                             anchor.sequence, anchor.peak>>)
              /\ Return("health", <<[n \in DOMAIN st |-> st[n][2]], retain>>, anchor)
    /\ UNCHANGED st

compact_resonance ==
    /\ Serve("resonance_compactor")
    /\ \E flags \in Resonances, retain \in 0..2, e \in Epochs :
          LET pruned == PrunedOf(RecordsOf(flags), retain)
              anchor == ResonanceAnchor(pruned)
          IN  /\ logs' = Chained(0, <<e, Len(pruned), Len(flags) - Len(pruned), anchor.sequence,
                                      anchor.terminal, anchor.certified, Byte(anchor.resonant)>>)
              /\ Return("resonance", <<flags, retain>>, anchor)
    /\ UNCHANGED st

\* The three compactions of one tick, under one hash.
unified_tick ==
    /\ Serve("unified_compaction_manager")
    /\ \E total \in 0..2, classes \in Reports, flags \in Resonances, retain \in 0..2, e \in Epochs :
          LET entries == PrunedOf([n \in 1..total |-> <<n, n>>], retain)
              reports == PrunedOf(ReportsOf(classes), retain)
              records == PrunedOf(RecordsOf(flags), retain)
          IN  /\ logs' = Chained(0, <<e, Len(entries), Len(reports), Len(records),
                                      from_pruned(entries), HealthAnchor(reports),
                                      ResonanceAnchor(records)>>)
              /\ Return("unified", <<total, classes, flags, retain>>,
                        Len(entries) + Len(reports) + Len(records))
    /\ UNCHANGED st

-----------------------------------------------------------------------------
(* Lineage: pending states by epoch, and compacted segments of consecutive   *)
(* epochs.  mark_divergence does nothing in the code.                        *)

Eligible == Sorted(DOMAIN st.pending \ st.checkpoints, LAMBDA a, b : a < b)
Recent(s, keep) == SubSeq(s, Len(s) - keep + 1, Len(s))
Older(s, keep) == SubSeq(s, 1, SaturatingSub(Len(s), keep))

\* The Balanced strategy returns the epochs it set out to keep.
select_epochs_to_compact ==
    LET n == Len(Eligible)
    IN  CASE st.strategy = "Aggressive" -> Range(Older(Eligible, AtLeastOne(n \div 10)))
          [] st.strategy = "Balanced" ->
               LET keep == AtMost(AtLeastOne((n * 3) \div 10), n)
                   old == Older(Eligible, keep)
               IN  Range(Recent(Eligible, keep)) \cup
                     { old[i] : i \in { j \in DOMAIN old : (j - 1) % 10 = 0 } }
          [] OTHER -> { e \in Range(Eligible) : Eligible[n] - e > OldAge }

\* The runs of consecutive epochs in a set.
RunsOf(epochs) ==
    { run \in epochs \X epochs :
        /\ run[1] <= run[2] /\ run[1]..run[2] \subseteq epochs
        /\ run[1] - 1 \notin epochs /\ run[2] + 1 \notin epochs }

compress_segment(run) ==
    [start |-> run[1], end |-> run[2],
     states |-> [e \in run[1]..run[2] |-> st.pending[e]]]

add_segment ==
    /\ Serve("lineage_compactor")
    /\ \E e \in Epochs, data \in Ids :
          /\ st' = [st EXCEPT !.pending = Put(@, e, data)]
          /\ Return("add", <<e, data>>, TRUE)
    /\ UNCHANGED logs

mark_checkpoint ==
    /\ Serve("lineage_compactor")
    /\ \E e \in Epochs :
          /\ st' = [st EXCEPT !.checkpoints = @ \cup {e}]
          /\ Return("checkpoint", <<e>>, e \in DOMAIN st.pending)
    /\ UNCHANGED logs

CompactionError ==
    CASE DOMAIN st.pending = {} -> "NoSegmentsToCompact"
      [] OTHER -> IF select_epochs_to_compact = {} THEN "NoEligibleSegments" ELSE "Ok"

compact_lineage ==
    /\ Serve("lineage_compactor")
    /\ LET chosen == select_epochs_to_compact
           runs == Sorted(RunsOf(chosen), LAMBDA a, b : a[1] < b[1])
       IN  st' = IF CompactionError # "Ok" THEN st
                 ELSE [st EXCEPT !.pending = Dropping(@, chosen),
                                 !.history = @ \o [n \in DOMAIN runs |-> compress_segment(runs[n])]]
    /\ Return("compact", << >>, CompactionError)
    /\ UNCHANGED logs

\* What retrieve finds: the pending state, or all states of the first segment
\* around the epoch.
retrieve(e) ==
    LET around == { n \in DOMAIN st.history : e \in st.history[n].start..st.history[n].end }
    IN  CASE e \in DOMAIN st.pending -> {st.pending[e]}
          [] OTHER -> IF around = {} THEN {} ELSE Range(st.history[Min(around)].states)

-----------------------------------------------------------------------------
(* The router's dedup table, and the broadcaster's log of telemetry.         *)

LocalNode == 1

RouteDrop(p, id, ttl) ==
    CASE p = LocalNode -> "SelfMessage"
      [] p # LocalNode /\ ttl = 0 -> "TtlExpired"
      [] OTHER -> IF <<p, id>> \in st.seen THEN "AlreadySeen"
                  ELSE IF st.peers = {} THEN "NoPeers" ELSE "Forward"

route ==
    /\ Serve("gossip_router")
    /\ \E p \in Peers, id \in Ids, ttl \in {0, 1} :
          /\ st' = IF RouteDrop(p, id, ttl) # "Forward" THEN st
                   ELSE [st EXCEPT !.seen = @ \cup {<<p, id>>}]
          /\ Return("route", <<p, id>>, RouteDrop(p, id, ttl))
    /\ UNCHANGED logs

\* Hop counts are stored and never read.
change_peers ==
    /\ Serve("gossip_router")
    /\ \E p \in Peers :
          \/ st' = [st EXCEPT !.peers = @ \cup {p}] /\ Return("add", <<p>>, p \notin st.peers)
          \/ st' = [st EXCEPT !.peers = @ \ {p}] /\ Return("remove", <<p>>, p \in st.peers)
    /\ UNCHANGED logs

prune_seen ==
    /\ Serve("gossip_router")
    /\ \E p \in Peers, id \in Ids :
          /\ st' = [st EXCEPT !.seen = { s \in @ : ~(s[1] = p /\ s[2] < id) }]
          /\ Return("prune", <<p, id>>, TRUE)
    /\ UNCHANGED logs

\* st: the last sequence of each node; the log is a list, not a chain.
broadcast_append ==
    /\ Serve("gossip_broadcaster")
    /\ \E p \in Peers, id \in Ids, mac \in BOOLEAN :
          IF ~mac \/ id <= Get(st, p, -1)
          THEN /\ Return("append", <<p, id>>, IF mac THEN "StaleSequence" ELSE "InvalidMac")
               /\ UNCHANGED <<st, logs>>
          ELSE /\ st' = Put(st, p, id)
               /\ logs' = Put(logs, 0, Append(LogOf(0), [data |-> <<p, id>>]))
               /\ Return("append", <<p, id>>, "Ok")

-----------------------------------------------------------------------------
LedgerNext ==
    \/ ingest       \/ spsf_tick     \/ compact_health  \/ compact_resonance
    \/ unified_tick \/ add_segment   \/ mark_checkpoint \/ compact_lineage
    \/ record_gossip_health         \/ compact_gossip_health
    \/ route        \/ change_peers  \/ prune_seen      \/ broadcast_append

-----------------------------------------------------------------------------
(* Nothing is lost. *)

\* The ids the manager accepted, in order.
Accepted ==
    LET taken == SelectSeq(calls, LAMBDA c : c.op = "ingest" /\ c.result)
    IN  [n \in DOMAIN taken |-> taken[n].args[1]]

\* How many entries the ticks up to call i pruned.
PrunedBy(i) == MapThenSumSet(LAMBDA c : Arg(c, 2), Made("tick") \cap 1..i)

\* The buffer is what was accepted and not pruned; ids ascend across every
\* compaction; and the verifier reports a gap exactly when the last compaction
\* pruned entries and the ids jump where it cut.
SpsfHistory ==
    kind = "spsf_manager" =>
      LET all == Accepted
          cut == PrunedBy(Len(calls))
      IN  /\ [n \in DOMAIN st.entries |-> st.entries[n][1]] = SubSeq(all, cut + 1, Len(all))
          /\ \A n \in 2..Len(all) : all[n - 1] < all[n]
          /\ cut = MapThenSumSet(LAMBDA n : LogOf(2)[n].data[2], DOMAIN LogOf(2))
          /\ (calls # << >> /\ calls[Len(calls)].op = "tick") =>
               LogOf(4)[Len(LogOf(4))].data[5] =
                 (IF cut = Len(all) THEN 2
                  ELSE Byte(LogOf(2) # << >> /\ LastRecord(2)[2] > 0 /\ all[cut + 1] # all[cut] + 1))

\* An anchor still tells what was pruned under it: the worst health class, a
\* resonance, how many records were certified, and how many there were.
AnchorsSummarise ==
    kind \in LedgerKinds =>
      \A i \in DOMAIN calls :
        LET given == Arg(i, 1)
            gone == 1..SaturatingSub(Len(given), Arg(i, 2))
        IN  CASE calls[i].op = "health" ->
                   /\ calls[i].result.count = Cardinality(gone)
                   /\ \A n \in gone : given[n] <= calls[i].result.peak
                   /\ calls[i].result.peak > 0 => \E n \in gone : given[n] = calls[i].result.peak
              [] calls[i].op = "resonance" ->
                   /\ calls[i].result.resonant <=> \E n \in gone : given[n][1] = 1
                   /\ calls[i].result.certified = Cardinality({ n \in gone : given[n][2] = 1 })
              [] calls[i].op = "unified" ->
                   calls[i].result = SaturatingSub(given, Arg(i, 4))
                     + SaturatingSub(Len(Arg(i, 2)), Arg(i, 4)) + SaturatingSub(Len(Arg(i, 3)), Arg(i, 4))
              [] OTHER -> TRUE

\* What an epoch suffered outlives its report: an anchor over a diverged peer or
\* a delivery blackout is red, and an anchor over undisturbed epochs is green.
DamageOutlivesReports ==
    kind = "compaction_gossip_health" =>
      \A i \in Made("health") :
        LET made == SelectSeq(SubSeq(calls, 1, i), LAMBDA c : c.op = "record")
            gone == { made[n].args : n \in 1..(Len(made) - Arg(i, 2)) }
            blackout(a) == a[2] = 0 /\ a[3] = 1
            red(a) == blackout(a) \/ a[1][5] = 1 \/ a[1][1] = 3
            calm(a) == ~blackout(a) /\ a[1] = <<0, 0, 0, 0, 0>>
        IN  /\ calls[i].result.peak = 2 <=> \E a \in gone : red(a)
            /\ calls[i].result.peak = 0 <=> \A a \in gone : calm(a)

\* A checkpoint marked while its state is pending stays pending; every state
\* ever added is still found, among the states of its segment at worst.
LineageFound ==
    kind = "lineage_compactor" =>
      /\ \A i \in Made("checkpoint") : Got(i, TRUE) => Arg(i, 1) \in DOMAIN st.pending
      /\ \A i \in Made("add") :
           \E j \in Made("add") : Arg(j, 1) = Arg(i, 1) /\ Arg(j, 2) \in retrieve(Arg(i, 1))

\* A message is forwarded again only after its mark was pruned, and is dropped
\* as seen only if it was forwarded; the numbers of a node only grow in the
\* broadcaster's log.
SentOnce ==
    /\ kind = "gossip_router" =>
         \A j \in Made("route") : Got(j, "AlreadySeen") =>
           \E i \in Made("route") : i < j /\ Got(i, "Forward") /\ calls[i].args = calls[j].args
    /\ kind = "gossip_router" =>
         \A i, j \in Made("route") :
           (i < j /\ Got(i, "Forward") /\ Got(j, "Forward") /\ calls[i].args = calls[j].args) =>
              \E c \in Between(i, j) :
                 calls[c].op = "prune" /\ Arg(c, 1) = Arg(i, 1) /\ Arg(c, 2) > Arg(i, 2)
    /\ kind = "gossip_broadcaster" =>
         \A m, n \in DOMAIN LogOf(0) :
           (m < n /\ LogOf(0)[m].data[1] = LogOf(0)[n].data[1]) =>
              LogOf(0)[m].data[2] < LogOf(0)[n].data[2]

LedgersKeepHistory ==
    /\ SpsfHistory /\ AnchorsSummarise /\ DamageOutlivesReports /\ LineageFound

\* spsf_compactor.rs: "compaction never destroys the proof-of-history ... The
\* anchor carries the terminal hash of all pruned entries".
AnchorCoversPruned == kind = "spsf_manager" => st.anchor.count = PrunedBy(Len(calls))
=============================================================================
