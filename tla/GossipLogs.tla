----------------------------- MODULE GossipLogs ----------------------------
(***************************************************************************)
(* The per-epoch logs of the gossip layer in src/aegis-cl-psi: one action  *)
(* per file, the whole of its record, push, append or mark_* method, and   *)
(* one for all the rate monitors that GossipMonitors catalogues.  Each     *)
(* derives columns from what it is handed, updates the window or the map   *)
(* the struct keeps beside its entries, and appends a chained entry.       *)
(* The read-only queries (totals, means, counts) are those of ChainLog.    *)
(***************************************************************************)
EXTENDS GossipMonitors, ChainLog

CONSTANTS
    Counts,     \* inputs of a log that takes one or two numbers
    FewCounts,  \* inputs of a log that takes three or more, or has a window
    Peers       \* peer ids

\* Counts are handed in as u32, peer ids as u64.  (gossip_epoch_bandwidth and
\* gossip_ack_latency take u64 counts: here those that fit a u32.)  A u32 holds
\* the 105 that a delivery can make of a full score before it is capped.
ASSUME InputsAssumption ==
    /\ Counts \cup FewCounts \subseteq 0..U32Max
    /\ Peers \subseteq Nat
    /\ U32Max >= 105

Flags == {0, 1}

RatioKinds == {
    "gossip_backpressure", "gossip_backpressure_epoch", "gossip_connection_pool",
    "gossip_dedup_window", "gossip_delivery_ratio", "gossip_drop_rate",
    "gossip_epoch_bandwidth", "gossip_epoch_convergence", "gossip_epoch_error",
    "gossip_epoch_health", "gossip_fanout_epoch", "gossip_fanout_tracker",
    "gossip_health_report", "gossip_latency_histogram", "gossip_message_size",
    "gossip_peer_diversity", "gossip_peer_timeout", "gossip_peer_uptime",
    "gossip_queue_depth", "gossip_round_trip_time", "gossip_ttl_tracker",
    "gossip_window_fill" }

CarriedKinds == {
    "gossip_ack_latency", "gossip_epoch_window", "gossip_frame_rate",
    "gossip_jitter", "gossip_topology_change", "gossip_neighbor_score",
    "gossip_peer_reputation", "gossip_peer_score", "gossip_reachability",
    "gossip_retransmit" }

StoredKinds == {
    "gossip_broadcast_summary", "gossip_epoch_seal", "gossip_health_snapshot",
    "gossip_epoch_finalizer", "gossip_frame_size_histogram",
    "gossip_latency_tracker", "gossip_peer_churn", "gossip_pipeline_summary" }

Init ==
    /\ log = << >>
    /\ \/ kind \in RatioKinds \cup CarriedKinds \cup StoredKinds /\ aux = << >>
       \/ kind = "gossip_broadcast" /\ aux \in { <<policy>> : policy \in Catalogue }

-----------------------------------------------------------------------------
(* Rates against a threshold. *)

\* Shares at, just below and just above the monitor's threshold, an empty
\* epoch, and a part that exceeds its whole.
Boundary(t) == {<<0, 0>>, <<t, 0>>, <<0, 1>>, <<1, 1>>}
                 \cup { <<p, 100>> : p \in {t - 1, t, t + 1, 100, 250} }
                 \cup { <<p, 1000>> : p \in {10 * t + 9} }

gossip_broadcast ==
    /\ Of("gossip_broadcast")
    /\ \E in \in Boundary(aux[1].threshold) :
          Push(MonitorEntry(aux[1], Epoch, in[1], in[2]), aux)

gossip_backpressure ==
    /\ Of("gossip_backpressure")
    /\ \E depth, threshold \in Counts :
          Push(<<Epoch, depth, threshold, Byte(depth > threshold)>>, aux)

gossip_backpressure_epoch ==
    /\ Of("gossip_backpressure_epoch")
    /\ \E events \in Counts :
          Push(<<Epoch, events, Byte(events >= 10)>>, aux)

gossip_connection_pool ==
    /\ Of("gossip_connection_pool")
    /\ \E pool, active \in Counts :
          LET used == Pct(active, pool)
          IN  Push(<<Epoch, pool, active, SaturatingSub(pool, active), used,
                     Byte(used < 30)>>, aux)

gossip_dedup_window ==
    /\ Of("gossip_dedup_window")
    /\ \E seen, dup \in Counts :
          LET ratio == Pct(dup, SaturatingAdd(seen, dup))
          IN  Push(<<Epoch, seen, dup, ratio, Byte(ratio >= 25)>>, aux)

DeliveryClass(ratio) == CASE ratio = 100 -> 0 [] ratio >= 50 /\ ratio # 100 -> 1 [] OTHER -> 2

gossip_delivery_ratio ==
    /\ Of("gossip_delivery_ratio")
    /\ \E dispatched, acked \in Counts :
          LET delivered == AtMost(acked, dispatched)
              ratio == Pct(delivered, dispatched)
          IN  Push(<<Epoch, dispatched, delivered, ratio, DeliveryClass(ratio)>>, aux)

gossip_drop_rate ==
    /\ Of("gossip_drop_rate")
    /\ \E dispatched, delivered \in Counts :
          LET dropped == SaturatingSub(dispatched, delivered)
          IN  Push(<<Epoch, dispatched, dropped,
                     IF dispatched = 0 THEN 0 ELSE Pct(dropped, dispatched)>>, aux)

gossip_epoch_bandwidth ==
    /\ Of("gossip_epoch_bandwidth")
    /\ \E sent, received, overhead \in FewCounts :
          LET pct == Pct(overhead, sent + received)
          IN  Push(<<Epoch, sent, received, overhead, pct, Byte(pct >= 20)>>, aux)

gossip_epoch_convergence ==
    /\ Of("gossip_epoch_convergence")
    /\ \E peers, converged \in Counts :
          LET pct == Pct(converged, peers)
          IN  Push(<<Epoch, peers, converged, pct, Byte(pct < 75)>>, aux)

gossip_epoch_error ==
    /\ Of("gossip_epoch_error")
    /\ \E errors, warnings, events \in FewCounts :
          LET pct == Pct(errors, events)
          IN  Push(<<Epoch, errors, warnings, events, pct, Byte(pct >= 2)>>, aux)

\* Mutant: an epoch is red only when all of its signals are.
EpochHealthVerdictAllBad(ratio, drop, churn, pressure) ==
    CASE ratio < 50 /\ drop > 50 /\ churn > 20 -> 2
      [] ratio >= 50 /\ drop <= 50 /\ churn <= 20
           /\ (ratio < 80 \/ drop > 10 \/ pressure = 1 \/ churn > 5) -> 1
      [] OTHER -> 0

EpochHealthVerdict(ratio, drop, churn, pressure) ==
    CASE ratio < 50 \/ drop > 50 \/ churn > 20 -> 2
      [] ratio >= 50 /\ drop <= 50 /\ churn <= 20
           /\ (ratio < 80 \/ drop > 10 \/ pressure = 1 \/ churn > 5) -> 1
      [] OTHER -> 0

gossip_epoch_health ==
    /\ Of("gossip_epoch_health")
    /\ \E ratio \in {49, 50, 79, 80}, drop \in {10, 11, 50, 51},
          churn \in {5, 6, 20, 21}, pressure \in Flags :
          Push(<<Epoch, ratio, drop, churn, pressure,
                 EpochHealthVerdict(ratio, drop, churn, pressure)>>, aux)

gossip_fanout_epoch ==
    /\ Of("gossip_fanout_epoch")
    /\ \E forwards, messages \in Counts :
          LET x100 == Pct(forwards, messages)
          IN  Push(<<Epoch, forwards, messages, x100,
                     Byte(x100 >= 600), Byte(x100 < 200)>>, aux)

gossip_fanout_tracker ==
    /\ Of("gossip_fanout_tracker")
    /\ \E peers, reached \in Counts :
          Push(<<Epoch, peers, reached, IF peers = 0 THEN 0 ELSE Pct(reached, peers)>>, aux)

NetworkHealthClass(dead, degraded, suspect, dropped, exceeded, gaps) ==
    CASE dead >= 1 \/ exceeded >= 3 \/ gaps >= 10 -> 2
      [] dead = 0 /\ exceeded < 3 /\ gaps < 10
           /\ (degraded >= 1 \/ suspect >= 1 \/ dropped >= 100 \/ gaps >= 1) -> 1
      [] OTHER -> 0

\* live_peers and sequence_dups are stored and hashed but decide nothing: they
\* are the epoch number here.
gossip_health_report ==
    /\ Of("gossip_health_report")
    /\ \E degraded, suspect, dead \in Flags,
          dropped \in {99, 100}, exceeded \in {2, 3}, gaps \in {0, 9, 10} :
          Push(<<Epoch, Epoch, degraded, suspect, dead, dropped, exceeded, gaps, Epoch,
                 NetworkHealthClass(dead, degraded, suspect, dropped, exceeded, gaps)>>, aux)

gossip_latency_histogram ==
    /\ Of("gossip_latency_histogram")
    /\ \E fast, normal, slow, stall \in FewCounts :
          LET all == SaturatingAdd(SaturatingAdd(SaturatingAdd(fast, normal), slow), stall)
              pct == Pct(stall, all)
          IN  Push(<<Epoch, fast, normal, slow, stall, pct, Byte(pct >= 5)>>, aux)

\* Three files with one shape: a range, its midpoint, a flag on its top.
RangeEntry(low, high, limit) ==
    <<Epoch, low, high, SaturatingAdd(low, high) \div 2, Byte(high >= limit)>>

gossip_message_size ==
    /\ Of("gossip_message_size")
    /\ \E low, high \in Counts : Push(RangeEntry(low, high, 65536), aux)

gossip_queue_depth ==
    /\ Of("gossip_queue_depth")
    /\ \E low, high \in Counts : Push(RangeEntry(low, high, 1000), aux)

gossip_round_trip_time ==
    /\ Of("gossip_round_trip_time")
    /\ \E low, high \in Counts : Push(RangeEntry(low, high, 500), aux)

gossip_peer_diversity ==
    /\ Of("gossip_peer_diversity")
    /\ \E zones, peers \in Counts :
          LET score == AtMost(Pct(zones, peers), 100)
          IN  Push(<<Epoch, zones, peers, score, Byte(score < 20)>>, aux)

gossip_peer_timeout ==
    /\ Of("gossip_peer_timeout")
    /\ \E timeouts, active \in Counts :
          LET pct == Pct(timeouts, active)
          IN  Push(<<Epoch, timeouts, active, pct, Byte(pct >= 10)>>, aux)

gossip_peer_uptime ==
    /\ Of("gossip_peer_uptime")
    /\ \E connected, ticks \in Counts :
          LET pct == Pct(connected, ticks)
          IN  Push(<<Epoch, connected, ticks, pct, Byte(pct < 80)>>, aux)

gossip_ttl_tracker ==
    /\ Of("gossip_ttl_tracker")
    /\ \E expired, delivered, hops \in FewCounts :
          LET pct == Pct(delivered, SaturatingAdd(expired, delivered))
          IN  Push(<<Epoch, expired, delivered,
                     AsU32((hops * 10) \div AtLeastOne(delivered)), pct, Byte(pct < 70)>>, aux)

gossip_window_fill ==
    /\ Of("gossip_window_fill")
    /\ \E used, slots \in Counts :
          LET pct == Pct(used, slots)
          IN  Push(<<Epoch, used, slots, pct, Byte(pct >= 90), Byte(pct = 0)>>, aux)

-----------------------------------------------------------------------------
(* Logs that carry a window, a last value or a map from entry to entry. *)

gossip_ack_latency ==
    /\ WindowOf("gossip_ack_latency")
    /\ \E peer \in Peers, sent \in {15}, acked \in FewCounts :
          LET latency == SaturatingSub(acked, sent)
              window == Slide(Get(aux, peer, << >>), latency, 4)
          IN  Push(<<peer, Epoch, latency, Mean(window)>>, Put(aux, peer, window))

GossipWindowState(avg) == CASE avg >= 75 -> 0 [] avg \in 50..74 -> 1 [] OTHER -> 2

gossip_epoch_window ==
    /\ WindowOf("gossip_epoch_window")
    /\ \E coverage \in FewCounts :
          LET window == Slide(aux, coverage, 4)
          IN  Push(<<Epoch, coverage, Mean(window), GossipWindowState(Mean(window))>>, window)

\* The average is that of the epochs BEFORE this one.
gossip_frame_rate ==
    /\ WindowOf("gossip_frame_rate")
    /\ \E frames \in FewCounts :
          LET avg == Mean(aux)
          IN  Push(<<Epoch, frames, avg,
                     Byte(avg > 0 /\ frames > AtMost(2 * avg, U32Max))>>,
                   Slide(aux, frames, 4))

gossip_jitter ==
    /\ WindowOf("gossip_jitter")
    /\ \E frames \in FewCounts :
          Push(<<Epoch, frames, IF aux = << >> THEN 0 ELSE Distance(frames, aux[1])>>, <<frames>>)

gossip_topology_change ==
    /\ WindowOf("gossip_topology_change")
    /\ \E peers \in FewCounts :
          LET delta == IF aux = << >> THEN 0 ELSE AsI32(peers) - AsI32(aux[1])
          IN  Push(<<Epoch, peers, delta, Byte(delta # 0)>>, <<peers>>)

NeighborTier(score) == CASE score >= 85 -> 0 [] score \in 50..84 -> 1 [] OTHER -> 2

gossip_neighbor_score ==
    /\ Of("gossip_neighbor_score")
    /\ \E peer \in Peers, latency, reliability, stability \in FewCounts :
          LET score == SaturatingAdd(SaturatingAdd(latency, reliability), stability) \div 3
          IN  Push(<<peer, Epoch, latency, reliability, stability, score, NeighborTier(score)>>,
                   Put(aux, peer, score))

ReputationClass(score) == CASE score >= 80 -> 0 [] score \in 40..79 -> 1 [] OTHER -> 2

\* Mutant: the churn penalty is taken off without saturating, and wraps.
ReputationAfterWrapping(base, delivered, churned) ==
    LET after_delivery == IF delivered = 1 THEN SaturatingAdd(base, 5)
                                           ELSE SaturatingSub(base, 10)
    IN  AtMost((after_delivery + U32Max + 1 - 3 * churned) % (U32Max + 1), 100)

ReputationAfter(base, delivered, churned) ==
    LET after_delivery == IF delivered = 1 THEN SaturatingAdd(base, 5)
                                           ELSE SaturatingSub(base, 10)
        after_churn == IF churned = 1 THEN SaturatingSub(after_delivery, 3)
                                      ELSE after_delivery
    IN  AtMost(after_churn, 100)

gossip_peer_reputation ==
    /\ WindowOf("gossip_peer_reputation")
    /\ \E peer \in Peers, delivered, churned \in Flags :
          LET score == ReputationAfter(Get(aux, peer, 50), delivered, churned)
          IN  Push(<<peer, Epoch, score, ReputationClass(score), delivered, churned>>,
                   Put(aux, peer, score))

\* record_hit and record_miss; aux holds (hits, total) for each peer.
gossip_peer_score ==
    /\ WindowOf("gossip_peer_score")
    /\ \E peer \in Peers, hit \in Flags :
          LET old == Get(aux, peer, <<0, 0>>)
              hits == old[1] + hit
              events == old[2] + 1
          IN  Push(<<peer, Epoch, hit, hits, events, (hits * 100) \div events>>,
                   Put(aux, peer, <<hits, events>>))

\* mark_reachable and mark_unreachable
gossip_reachability ==
    /\ WindowOf("gossip_reachability")
    /\ \E peer \in Peers, up \in Flags :
          Push(<<peer, Epoch, up>>, Put(aux, peer, up))

gossip_retransmit ==
    /\ WindowOf("gossip_retransmit")
    /\ \E peer \in Peers, n \in FewCounts :
          Push(<<Epoch, peer, n>>, Put(aux, peer, Get(aux, peer, 0) + n))

-----------------------------------------------------------------------------
(* Logs that store what they are handed, with at most a sum of it. *)

gossip_broadcast_summary ==
    /\ Of("gossip_broadcast_summary")
    /\ \E dispatched, delivered \in FewCounts, valid, failed \in Flags :
          Push(<<Epoch, dispatched, delivered, valid, failed, 0, failed>>, aux)

gossip_epoch_seal ==
    /\ Of("gossip_epoch_seal")
    /\ \E coverage, latency, avg \in FewCounts, state \in 0..2 :
          Push(<<Epoch, coverage, latency, avg, state, coverage>>, aux)

gossip_health_snapshot ==
    /\ Of("gossip_health_snapshot")
    /\ \E coverage, latency, avg \in FewCounts, state \in 0..2 :
          Push(<<Epoch, coverage, latency, avg, state>>, aux)

\* append refuses an epoch that does not come after the last sealed one.
\* The three hashes it is handed are one number here.
gossip_epoch_finalizer ==
    /\ WindowOf("gossip_epoch_finalizer")
    /\ \E epoch \in 1..(WindowLen + 1), trusted, blocked \in Flags :
          /\ log # << >> => epoch > log[Len(log)].data[1]
          /\ Push(<<epoch, epoch, 1, trusted, blocked>>, aux)

gossip_frame_size_histogram ==
    /\ Of("gossip_frame_size_histogram")
    /\ \E small, medium, large \in FewCounts :
          Push(<<Epoch, small, medium, large,
                 SaturatingAdd(SaturatingAdd(small, medium), large)>>, aux)

gossip_latency_tracker ==
    /\ Of("gossip_latency_tracker")
    /\ \E peer \in Peers, sent, acked \in FewCounts :
          Push(<<peer, sent, acked, SaturatingSub(acked, sent)>>, aux)

gossip_peer_churn ==
    /\ Of("gossip_peer_churn")
    /\ \E joins, leaves \in Counts :
          Push(<<Epoch, joins, leaves, SaturatingAdd(joins, leaves)>>, aux)

gossip_pipeline_summary ==
    /\ Of("gossip_pipeline_summary")
    /\ \E retransmits, latency, churn \in FewCounts, verdict \in 0..2 :
          Push(<<Epoch, retransmits, latency, 100, churn, verdict>>, aux)

Next ==
    \/ gossip_broadcast         \/ gossip_backpressure     \/ gossip_backpressure_epoch
    \/ gossip_connection_pool   \/ gossip_dedup_window     \/ gossip_delivery_ratio
    \/ gossip_drop_rate         \/ gossip_epoch_bandwidth  \/ gossip_epoch_convergence
    \/ gossip_epoch_error       \/ gossip_epoch_health     \/ gossip_fanout_epoch
    \/ gossip_fanout_tracker    \/ gossip_health_report    \/ gossip_latency_histogram
    \/ gossip_message_size      \/ gossip_queue_depth      \/ gossip_round_trip_time
    \/ gossip_peer_diversity    \/ gossip_peer_timeout     \/ gossip_peer_uptime
    \/ gossip_ttl_tracker       \/ gossip_window_fill      \/ gossip_ack_latency
    \/ gossip_epoch_window      \/ gossip_frame_rate       \/ gossip_jitter
    \/ gossip_topology_change   \/ gossip_neighbor_score   \/ gossip_peer_reputation
    \/ gossip_peer_score        \/ gossip_reachability     \/ gossip_retransmit
    \/ gossip_broadcast_summary \/ gossip_epoch_seal       \/ gossip_health_snapshot
    \/ gossip_epoch_finalizer   \/ gossip_frame_size_histogram
    \/ gossip_latency_tracker   \/ gossip_peer_churn       \/ gossip_pipeline_summary

Spec == Init /\ [][Next]_vars

-----------------------------------------------------------------------------
(* Correctness *)

\* Types: the running file is one of those above, each entry is a tuple of
\* integers and every stored link is the hash of the entry before.
TypeOK ==
    /\ kind \in RatioKinds \cup CarriedKinds \cup StoredKinds \cup {"gossip_broadcast"}
    /\ Len(log) <= Max({MaxLen, WindowLen})
    /\ \A i \in DOMAIN log : \A f \in DOMAIN log[i].data : log[i].data[f] \in Int

\* verify_chain accepts every log the code wrote, and names the first entry in
\* which a field, the link or the hash of one or two entries was changed.
DamageOf(e) ==
    { FieldDamaged(e, f) : f \in DOMAIN e.data } \cup {PrevDamaged(e), HashDamaged(e)}

DamageLocated ==
    LET verdict(l) == verify_chain(l, DOMAIN log[1].data)
    IN  log # << >> =>
          /\ verdict(log) = 0
          /\ \A i \in DOMAIN log : \A d \in DamageOf(log[i]) :
                /\ verdict([log EXCEPT ![i] = d]) = i
                /\ \A j \in (i + 1)..Len(log) :
                      verdict([log EXCEPT ![i] = d, ![j] = HashDamaged(@)]) = i

\* The rational comparison each rate flag stands for: scale * part against
\* limit * whole, where part and whole are sums of stored columns.
Rule(part, whole, limit, side, flag) ==
    [part |-> part, whole |-> whole, limit |-> limit, side |-> side, flag |-> flag]

RateRules(k) ==
    CASE k = "gossip_broadcast" /\ aux[1].side = "high" ->
             {Rule(<<2>>, <<3>>, aux[1].threshold + 1, "least", 5)}
      [] k = "gossip_broadcast" /\ aux[1].side = "low" ->
             {Rule(<<2>>, <<3>>, aux[1].threshold, "below", 5)}
      [] k = "gossip_connection_pool"   -> {Rule(<<3>>, <<2>>, 30, "below", 6)}
      [] k = "gossip_dedup_window"      -> {Rule(<<3>>, <<2, 3>>, 25, "least", 5)}
      [] k = "gossip_epoch_bandwidth"   -> {Rule(<<4>>, <<2, 3>>, 20, "least", 6)}
      [] k = "gossip_epoch_convergence" -> {Rule(<<3>>, <<2>>, 75, "below", 5)}
      [] k = "gossip_epoch_error"       -> {Rule(<<2>>, <<4>>, 2, "least", 6)}
      [] k = "gossip_fanout_epoch"      -> {Rule(<<2>>, <<3>>, 600, "least", 5),
                                            Rule(<<2>>, <<3>>, 200, "below", 6)}
      [] k = "gossip_latency_histogram" -> {Rule(<<5>>, <<2, 3, 4, 5>>, 5, "least", 7)}
      [] k = "gossip_peer_diversity"    -> {Rule(<<2>>, <<3>>, 20, "below", 5)}
      [] k = "gossip_peer_timeout"      -> {Rule(<<2>>, <<3>>, 10, "least", 5)}
      [] k = "gossip_peer_uptime"       -> {Rule(<<2>>, <<3>>, 80, "below", 5)}
      [] k = "gossip_ttl_tracker"       -> {Rule(<<3>>, <<2, 3>>, 70, "below", 6)}
      [] k = "gossip_window_fill"       -> {Rule(<<2>>, <<3>>, 90, "least", 5),
                                            Rule(<<2>>, <<3>>, 1, "below", 6)}
      [] OTHER -> {}

SumOf(e, fields) == Total([i \in DOMAIN fields |-> e.data[fields[i]]])

\* Counts for which neither the u32 sum of the whole nor the u32 share of the
\* part leaves its range; beyond them the code saturates or wraps.
InRange(e, rule) ==
    /\ SumOf(e, rule.whole) <= U32Max
    /\ SumOf(e, rule.part) <= U32Max \div 100

\* A flag is raised exactly when the true share is on its side of the
\* threshold.
FlagsAreExact ==
    \A i \in DOMAIN log : \A rule \in RateRules(kind) :
        InRange(log[i], rule) =>
          LET part == 100 * SumOf(log[i], rule.part)
              mark == rule.limit * AtLeastOne(SumOf(log[i], rule.whole))
          IN  log[i].data[rule.flag] =
                Byte(IF rule.side = "least" THEN part >= mark ELSE part < mark)

\* Columns whose growth makes an epoch worse, columns whose growth makes it
\* better, and the column that classifies it (larger is worse).
Reading(bad, good, class) == [bad |-> bad, good |-> good, class |-> class]

Readings(k) ==
    CASE k = "gossip_backpressure"      -> {Reading({2}, {3}, 4)}
      [] k = "gossip_dedup_window"      -> {Reading({3}, {2}, 5)}
      [] k = "gossip_delivery_ratio"    -> {Reading({2}, {3}, 5)}
      [] k = "gossip_drop_rate"         -> {Reading({3}, {2}, 4)}
      [] k = "gossip_epoch_health"      -> {Reading({3, 4, 5}, {2}, 6)}
      [] k = "gossip_epoch_window"      -> {Reading({}, {3}, 4)}
      [] k = "gossip_health_report"     -> {Reading({3, 4, 5, 6, 7, 8}, {}, 10)}
      [] k = "gossip_latency_histogram" -> {Reading({5}, {2, 3, 4}, 7)}
      [] k = "gossip_neighbor_score"    -> {Reading({}, {3, 4, 5}, 7)}
      [] k = "gossip_peer_reputation"   -> {Reading({}, {3}, 4)}
      [] k = "gossip_message_size"      -> {Reading({2, 3}, {}, 4), Reading({3}, {}, 5)}
      [] k = "gossip_queue_depth"       -> {Reading({2, 3}, {}, 4), Reading({3}, {}, 5)}
      [] k = "gossip_round_trip_time"   -> {Reading({2, 3}, {}, 4), Reading({3}, {}, 5)}
      [] OTHER -> {}

\* Between any two epochs of a log, the one that did no better in any column
\* is not classed better.
WorseIsNotClassedBetter ==
    \A r \in Readings(kind) : \A i, j \in DOMAIN log :
        (/\ \A f \in r.bad  : log[i].data[f] >= log[j].data[f]
         /\ \A f \in r.good : log[i].data[f] <= log[j].data[f])
          => log[i].data[r.class] >= log[j].data[r.class]

\* What a struct keeps beside its entries, read back from the entries alone.
\* ForPeer: the entries of peer p, collected from the first to the last.
ForPeer(f, p) ==
    LET mine[n \in 0..Len(log)] ==
            IF n = 0 THEN << >>
            ELSE IF log[n].data[f] = p THEN Append(mine[n - 1], log[n]) ELSE mine[n - 1]
    IN  mine[Len(log)]
LastOf(f, n) == Column(SubSeq(log, Max({1, Len(log) - n + 1}), Len(log)), f)
PeersIn(f) == { log[i].data[f] : i \in DOMAIN log }
Final(s, f) == s[Len(s)].data[f]

ReadBack ==
    CASE kind \in {"gossip_epoch_window", "gossip_frame_rate"} -> LastOf(2, 4)
      [] kind \in {"gossip_jitter", "gossip_topology_change"} -> LastOf(2, 1)
      [] kind = "gossip_ack_latency" ->
           [p \in PeersIn(1) |->
               LET mine == Column(ForPeer(1, p), 3)
               IN  SubSeq(mine, Max({1, Len(mine) - 3}), Len(mine))]
      [] kind = "gossip_neighbor_score"  -> [p \in PeersIn(1) |-> Final(ForPeer(1, p), 6)]
      [] kind = "gossip_peer_reputation" -> [p \in PeersIn(1) |-> Final(ForPeer(1, p), 3)]
      [] kind = "gossip_reachability"    -> [p \in PeersIn(1) |-> Final(ForPeer(1, p), 3)]
      [] kind = "gossip_peer_score" ->
           [p \in PeersIn(1) |-> <<total(ForPeer(1, p), 3), Len(ForPeer(1, p))>>]
      [] kind = "gossip_retransmit" -> [p \in PeersIn(2) |-> total(ForPeer(2, p), 3)]
      [] OTHER -> aux

\* What the code makes of an epoch follows from its numbers: truncation to
\* whole percents, the cap at 100 and the substitution of 1 for an empty whole
\* never decide a flag, and the cascades of thresholds have no hole and no
\* inversion, also where sums saturate.
VerdictsFollowTheNumbers == FlagsAreExact /\ WorseIsNotClassedBetter

\* A peer's stored score is what its own history of deliveries and churn makes
\* of the initial 50, whatever the other peers did in between, and stays
\* within 0..100.
ReputationFold ==
    kind = "gossip_peer_reputation" =>
      \A p \in Peers :
        LET mine == ForPeer(1, p)
            \* the score after the first n entries of the peer
            score[n \in 0..Len(mine)] ==
                IF n = 0 THEN 50
                ELSE LET e == mine[n].data
                         earned == score[n - 1] + (IF e[5] = 1 THEN 5 ELSE -10)
                                     - (IF e[6] = 1 THEN 3 ELSE 0)
                     IN  Max({0, AtMost(earned, 100)})
        IN  Get(aux, p, 50) = score[Len(mine)]

\* The window, the last value and the maps of a log are those its entries
\* give: a reader who holds only the chain can rebuild them.
CachesReadBackFromLog == aux = ReadBack /\ ReputationFold
=============================================================================
