--------------------------- MODULE EpochServices ----------------------------
(***************************************************************************)
(* The services of src/aegis-cl-psi that follow a node and its peers from  *)
(* epoch to epoch: the entropy budget, momentum and the alert it leads to  *)
(* (momentum tracker, health aggregator, dashboard, alert engine), the     *)
(* recovery sequencer, watermarks and epoch boundaries, probes, rates, the *)
(* selection of peers to forward to.                                       *)
(***************************************************************************)
EXTENDS HealthServices

CONSTANTS
    \* the constants of the files, scaled down by the configurations
    INITIAL_ENTROPY_BUDGET, ADAPTIVE_EVENT_COST, REPLAY_REPLENISHMENT, MAX_ENTROPY_BUDGET,
    DEFAULT_MOMENTUM_WINDOW, MAX_WATERMARK_PEERS, BOUNDARY_QUORUM_PCT

ASSUME EpochAssumption ==
    /\ INITIAL_ENTROPY_BUDGET \in 0..MAX_ENTROPY_BUDGET /\ MAX_ENTROPY_BUDGET \in Nat
    /\ ADAPTIVE_EVENT_COST \in Nat \ {0} /\ REPLAY_REPLENISHMENT \in Nat
    /\ DEFAULT_MOMENTUM_WINDOW \in Nat \ {0, 1}
    /\ MAX_WATERMARK_PEERS \in Nat /\ BOUNDARY_QUORUM_PCT \in 1..100

EpochKinds == {
    "entropy_budget", "momentum_tracker", "alert_engine", "recovery_sequencer",
    "epoch_watermark", "epoch_boundary_detector", "gossip_prober",
    "backpressure_monitor", "peer_selector" }

Capacities == {0, 3, 200}

EpochInit ==
    CASE kind = "entropy_budget" -> st = INITIAL_ENTROPY_BUDGET
      [] kind = "backpressure_monitor" -> st \in Capacities
      [] OTHER -> st = << >>

-----------------------------------------------------------------------------
(* The entropy budget: a record is <<entry kind, delta, balance after>>. *)

push_entry(entry, delta, balance) ==
    /\ st' = balance
    /\ logs' = Chained(0, <<entry, delta, balance>>)
    /\ Return(entry, <<delta>>, "Ok")

Insufficient(entry, delta) ==
    Return(entry, <<delta>>, "InsufficientBudget") /\ UNCHANGED <<st, logs>>

consume_adaptive ==
    /\ Serve("entropy_budget")
    /\ IF st < ADAPTIVE_EVENT_COST THEN Insufficient("adaptive", -ADAPTIVE_EVENT_COST)
       ELSE push_entry("adaptive", -ADAPTIVE_EVENT_COST, st - ADAPTIVE_EVENT_COST)

replenish_replay ==
    /\ Serve("entropy_budget")
    /\ LET added == AtMost(REPLAY_REPLENISHMENT, MAX_ENTROPY_BUDGET - st)
       IN  push_entry("replay", added, st + added)

\* The record holds the delta asked for, also when the cap takes part of it.
apply_custom ==
    /\ Serve("entropy_budget")
    /\ \E delta \in {-3, -1, 0, 1, 3} :
          CASE delta = 0 ->
                 Return("custom", <<0>>, "InvalidCustomDelta") /\ UNCHANGED <<st, logs>>
            [] delta < 0 ->
                 IF st < -delta THEN Insufficient("custom", delta)
                 ELSE push_entry("custom", delta, st + delta)
            [] OTHER -> push_entry("custom", delta, AtMost(st + delta, MAX_ENTROPY_BUDGET))

-----------------------------------------------------------------------------
(* Momentum over the last scores: 0 Improving, 1 Stable, 2 Declining. *)

from_int(v) == CASE v > 0 -> 0 [] v < 0 -> 2 [] OTHER -> 1

compute_momentum(samples) ==
    LET window == SubSeq(samples, SaturatingSub(Len(samples), DEFAULT_MOMENTUM_WINDOW) + 1,
                         Len(samples))
        moved == window[Len(window)] - window[1]
    IN  [int |-> moved, dir |-> from_int(moved),
         peak |-> Max(Range(window)), trough |-> Min(Range(window))]

MomentumRecord(e, m) == <<e, m.int, m.dir, m.peak, m.trough>>

momentum_record ==
    /\ Serve("momentum_tracker")
    /\ \/ \E score \in 0..2 :
            LET samples == Append(st, score)
                m == compute_momentum(samples)
            IN  /\ st' = samples
                /\ logs' = Chained(0, MomentumRecord(Len(samples), m))
                /\ Return("momentum", <<score>>, m.dir)
       \/ st # << >> /\ Stale(<< >>)

(* One epoch's signals: health (0 Pass, 1 Warn, 2 Fail), the watchdog's      *)
(* verdict, pulse, grade and phase; momentum is the tracker's.               *)
Signals == [health : 0..2, resilience : {1, 3, 4}, pulse : 0..2, passing : BOOLEAN, phase : {1, 2}]

operational(phase) == phase \in {0, 2}
degraded_count(s, dir) ==
    Byte(s.health # 0) + Byte(s.resilience \notin {0, 1}) + Byte(s.pulse # 0)
      + Byte(~s.passing) + Byte(dir = 2) + Byte(~operational(s.phase))

\* 0 Optimal, 1 Good, 2 Caution, 3 Alert, 4 Emergency.
build_vector(s, dir) ==
    IF s.health = 2 \/ s.pulse = 2 \/ s.phase = 3 \/ s.resilience \in {2, 3} THEN 4
    ELSE AtMost(degraded_count(s, dir), 3)

\* 0 Thriving, 1 Stable, 2 Concerning, 3 Critical.
OverallTrend(condition, dir, phase) ==
    IF condition >= 3 \/ ~operational(phase) THEN 3
    ELSE IF condition = 0 /\ dir = 0 THEN 0
    ELSE IF condition = 2 \/ dir = 2 THEN 2 ELSE 1

\* 0 None, 1 Info, 2 Warn, 3 Critical, 4 Emergency.
AlertSeverity(condition, trend) ==
    CASE condition = 4 /\ trend = 3 -> 4
      [] (condition = 4) # (trend = 3) -> 3
      [] OTHER -> IF condition = 3 \/ (trend = 2 /\ condition = 2) THEN 2
                  ELSE IF condition = 2 \/ trend = 2 THEN 1 ELSE 0

VectorRecord(e, condition, s, dir) == <<e, condition, degraded_count(s, dir)>>
FrameRecord(e, condition, trend) == <<e, condition, trend>>
AlertRecord(e, condition, trend) == <<e, AlertSeverity(condition, trend), condition, trend>>

\* One epoch through the four histories, each of which refuses an epoch that
\* is not after its last: logs 1 to 4.
alert_record ==
    /\ Serve("alert_engine")
    /\ \E e \in Epochs, score \in {0, 1}, s \in Signals :
          LET samples == Append(st, score)
              m == compute_momentum(samples)
              condition == build_vector(s, m.dir)
              trend == OverallTrend(condition, m.dir, s.phase)
              records == <<MomentumRecord(e, m), VectorRecord(e, condition, s, m.dir),
                           FrameRecord(e, condition, trend), AlertRecord(e, condition, trend)>>
          IN  IF StaleIn(4, e, 1) THEN Stale(<< >>)
              ELSE /\ st' = samples
                   /\ logs' = [n \in 1..4 |->
                                 ChainPush(LogOf(n), records[n], Hashed(records[n]))]
                   /\ Return("alert", <<e, s>>, records[4][2])

-----------------------------------------------------------------------------
(* Recovery steps [kind, priority, status, hash]; status 0 Pending, 1        *)
(* InProgress, 2 Completed, 3 Skipped.                                       *)

is_terminal(status) == status \in {2, 3}

\* Each step's hash is chained on the step before it.
Rechained(steps, prev) ==
    FoldLeft(LAMBDA done, s :
               Append(done, [s EXCEPT !.hash =
                   Sha256(IF done = << >> THEN prev ELSE done[Len(done)].hash,
                          <<s.kind, s.status>>, {1, 2})]),
             << >>, steps)

\* A kind is taken from the first plan that has it, whatever its priority there.
UniqueActions(plans) ==
    { a \in UNION Range(plans) :
        \E n \in DOMAIN plans :
          a \in plans[n] /\ \A m \in 1..(n - 1) : \A b \in plans[m] : b[2] # a[2] }

build_sequence(plans) ==
    LET actions == Sorted(UniqueActions(plans), Urgency)
    IN  Rechained([n \in DOMAIN actions |->
                     [kind |-> actions[n][2], priority |-> actions[n][1],
                      status |-> 0, hash |-> Genesis]], Genesis)

is_complete(steps) == \A n \in DOMAIN steps : steps[n].status \in {2, 3}

TroubledVector == [declining |-> TRUE, failed |-> TRUE, resilience |-> 3, pulse |-> 2, phase |-> 3]

start_recovery ==
    /\ Serve("recovery_sequencer")
    /\ \E alerts \in UNION { [1..n -> Ids] : n \in 1..2 } :
          LET steps == build_sequence([n \in DOMAIN alerts |->
                                         recommend_actions(alerts[n], TroubledVector)])
          IN  st' = steps /\ Return("build", <<alerts>>, is_complete(steps))
    /\ UNCHANGED logs

\* The step and those after it get new hashes, those before it keep theirs.
advance_step ==
    /\ Serve("recovery_sequencer") /\ st # << >>
    /\ \E n \in 1..(Len(st) + 1), status \in 0..3 :
          IF n > Len(st) \/ is_terminal(st[n].status)
          THEN Return("refused", <<n, status>>, "SequenceError") /\ UNCHANGED st
          ELSE LET kept == SubSeq(st, 1, n - 1)
                   changed == SubSeq([st EXCEPT ![n].status = status], n, Len(st))
                   steps == kept \o Rechained(changed,
                                IF n = 1 THEN Genesis ELSE st[n - 1].hash)
               IN  st' = steps /\ Return("advance", <<n, status>>, is_complete(steps))
    /\ UNCHANGED logs

-----------------------------------------------------------------------------
(* The highest epoch seen from each peer. *)

\* A report that is not ahead is recorded for an untracked peer as well, and
\* does not make it tracked.
watermark_update ==
    /\ Serve("epoch_watermark")
    /\ \E p \in Peers, e \in Epochs :
          LET before == Get(st, p, 0)
          IN  IF e <= before
              THEN /\ logs' = Chained(0, <<p, e, before, before, 1>>)
                   /\ Return("watermark", <<p, e>>, "Stale") /\ UNCHANGED st
              ELSE IF p \notin DOMAIN st /\ Cardinality(DOMAIN st) >= MAX_WATERMARK_PEERS
              THEN Return("watermark", <<p, e>>, "TooManyPeers") /\ UNCHANGED <<st, logs>>
              ELSE /\ st' = Put(st, p, e)
                   /\ logs' = Chained(0, <<p, e, before, e, 0>>)
                   /\ Return("watermark", <<p, e>>, "Advance")

report_peer_epoch ==
    /\ Serve("epoch_boundary_detector")
    /\ \E p \in Peers, e \in Epochs :
          /\ st' = Put(st, p, Max({e, Get(st, p, 0)}))
          /\ Return("report", <<p, e>>, "Ok")
    /\ UNCHANGED logs

peers_total == Cardinality(DOMAIN st)
peers_advanced(e) == Cardinality({ p \in DOMAIN st : st[p] > e })

\* 0 Stable, 1 Transitioning, 2 Committed.
boundary_phase(e) ==
    IF peers_total = 0 THEN 0
    ELSE IF peers_advanced(e) = peers_total THEN 2
    ELSE IF peers_advanced(e) * 100 >= peers_total * BOUNDARY_QUORUM_PCT THEN 1 ELSE 0

trigger_boundary ==
    /\ Serve("epoch_boundary_detector")
    /\ \E new \in Epochs :
          LET old == Min(Epochs)
              phase == boundary_phase(old)
          IN  IF new <= old
              THEN Return("refused", <<old, new>>, "EpochNotAdvancing") /\ UNCHANGED logs
              ELSE /\ logs' = Chained(0, <<old, new, phase, peers_advanced(old), peers_total>>)
                   /\ Return("boundary", <<old, new>>, phase)
    /\ UNCHANGED st

-----------------------------------------------------------------------------
(* Probes per pair of peers: <<result, round trip>>, result 0 Success,       *)
(* 1 Timeout, 2 Refused, 3 NoRoute.                                          *)

ProbeResults == {<<0, 40>>, <<0, 900>>, <<1, 0>>, <<2, 0>>, <<3, 0>>}

record_probe ==
    /\ Serve("gossip_prober")
    /\ \E p, t \in Peers, e \in Epochs, r \in ProbeResults :
          /\ p # t
          /\ IF StaleIn(<<p, t>>, e, 3)
             THEN Return("probe", <<p, t, e, r>>, "StaleEpoch") /\ UNCHANGED logs
             ELSE /\ logs' = Chained(<<p, t>>, <<p, t, e, r[1], r[2]>>)
                  /\ Return("probe", <<p, t, e, r>>, "Ok")
    /\ UNCHANGED st

currently_reachable(pair) == LastRecord(pair)[4] = 0
reachable_from(p) == { pair[2] : pair \in { q \in DOMAIN logs : q[1] = p /\ currently_reachable(q) } }
avg_rtt_ms(pair) == Mean(FieldOf(Records(pair, 4, 0), 5))

(* Message rates per peer and epoch: 0 Accept, 1 Throttle, 2 Drop. *)
compute_rate_pct(count, capacity) ==
    IF capacity = 0 THEN 255 ELSE AtMost((count * 100) \div capacity, 255)
classify_decision(rate) == CASE rate <= 70 -> 0 [] rate \in 71..100 -> 1 [] OTHER -> 2

record_message_batch ==
    /\ Serve("backpressure_monitor")
    /\ \E p \in Peers, e \in Epochs, count \in {0, 2, 3, 4, 140, 142, 200, 202, 600} :
          LET rate == compute_rate_pct(count, st)
              decision == classify_decision(rate)
          IN  IF StaleIn(p, e, 2) THEN Stale(<<p, e>>)
              ELSE /\ logs' = Chained(p, <<p, e, count, rate, decision>>)
                   /\ Return("batch", <<p, e, count>>, decision)
                   /\ UNCHANGED st

-----------------------------------------------------------------------------
(* Selection of the peers a message is forwarded to. *)

Criteria == [sender : {Min(Peers)}, max_fanout : {1, 2}, min_score : {1, 2}, max_latency_tier : {2}]
\* Nothing known of the latencies, all fast, or the highest peer's timed out.
LatencyTiers == {<< >>, [p \in Peers |-> 0], [p \in Peers |-> IF p = Max(Peers) THEN 3 ELSE 1]}

eligible(c, scores, tiers) ==
    { p \in DOMAIN scores : /\ p # c.sender /\ scores[p] >= c.min_score
                            /\ Get(tiers, p, 3) <= c.max_latency_tier }

select_peers(c, scores, tiers) ==
    LET candidates == eligible(c, scores, tiers)
        Better(a, b) == scores[a] > scores[b] \/ (scores[a] = scores[b] /\ a < b)
        ranked == Sorted(candidates, Better)
    IN  Range(SubSeq(ranked, 1, AtMost(c.max_fanout, Len(ranked))))

\* Unlike the other logs, this one takes several records of one epoch.
record_and_select ==
    /\ Serve("peer_selector")
    /\ \E e \in Epochs, c \in Criteria, scores \in [Peers -> {1, 2}], tiers \in LatencyTiers :
          LET selected == select_peers(c, scores, tiers)
          IN  IF StaleIn(0, e + 1, 1) THEN Stale(<<e>>)
              ELSE /\ logs' = Chained(0, <<e, c.sender, Cardinality(eligible(c, scores, tiers)),
                                           Cardinality(selected), selected>>)
                   /\ Return("select", <<c, scores, tiers>>, selected)
                   /\ UNCHANGED st

-----------------------------------------------------------------------------
EpochNext ==
    \/ consume_adaptive  \/ replenish_replay  \/ apply_custom    \/ momentum_record
    \/ alert_record      \/ start_recovery    \/ advance_step    \/ watermark_update
    \/ report_peer_epoch \/ trigger_boundary  \/ record_probe    \/ record_message_batch
    \/ record_and_select

-----------------------------------------------------------------------------
(* What must hold. *)

\* Adaptation is paid for: what adaptive events and custom charges have taken
\* never exceeds the first budget and what was earned, and the balance stays
\* within its cap (entropy_budget.rs: AdaptivePower <= ReplayVerifiability).
AdaptationPaid ==
    kind = "entropy_budget" =>
      LET granted == { i \in DOMAIN calls : Got(i, "Ok") }
          spent == { i \in granted : Arg(i, 1) < 0 }
          value(i) == Arg(i, 1)
      IN  /\ st \in 0..MAX_ENTROPY_BUDGET
          /\ -MapThenSumSet(value, spent)
               <= INITIAL_ENTROPY_BUDGET + MapThenSumSet(value, granted \ spent)

\* Nobody is forwarded its own message, the fan-out is kept and filled, and no
\* better candidate is left out.
SelectionFair ==
    kind = "peer_selector" =>
      \A i \in Made("select") :
        LET c == Arg(i, 1)
            scores == Arg(i, 2)
            able == eligible(c, scores, Arg(i, 3))
            chosen == calls[i].result
        IN  /\ c.sender \notin chosen
            /\ Cardinality(chosen) = Min({c.max_fanout, Cardinality(able)})
            /\ \A p \in chosen, q \in able \ chosen : scores[p] >= scores[q]

EpochLimits ==
    /\ AdaptationPaid /\ SelectionFair
    /\ kind = "epoch_watermark" => Cardinality(DOMAIN st) <= MAX_WATERMARK_PEERS

\* A recovery step that is completed or skipped is never advanced again, and
\* the hashes still chain in whatever order the steps were taken.
LatestBuild == Max({0} \cup Made("build"))
Advanced(n) == { i \in Made("advance") : i > LatestBuild /\ Arg(i, 1) = n }

StepsTakenOnce ==
    kind = "recovery_sequencer" =>
      /\ \A n \in DOMAIN st :
           /\ \A i, j \in Advanced(n) : i < j => ~is_terminal(Arg(i, 2))
           /\ is_terminal(st[n].status) => \E i \in Advanced(n) : Arg(i, 2) = st[n].status
      /\ Rechained(st, Genesis) = st
      /\ \A m, n \in DOMAIN st :
           m < n => st[m].kind # st[n].kind /\ st[m].priority >= st[n].priority

\* The budget's balance and each watermark can be rebuilt from the log: every
\* record continues the one before it.
EpochLogsRebuild ==
    /\ kind = "entropy_budget" =>
         LET after(n) == IF n = 0 THEN INITIAL_ENTROPY_BUDGET ELSE LogOf(0)[n].data[3]
         IN  /\ after(Len(LogOf(0))) = st
             /\ \A n \in DOMAIN LogOf(0) :
                  after(n) = AtMost(after(n - 1) + LogOf(0)[n].data[2], MAX_ENTROPY_BUDGET)
    /\ kind = "epoch_watermark" =>
         \A p \in Peers :
           LET mine == Records(0, 1, p)
               after(n) == IF n = 0 THEN 0 ELSE mine[n].data[4]
           IN  /\ Get(st, p, 0) = after(Len(mine))
               /\ \A n \in DOMAIN mine : mine[n].data[3] = after(n - 1)
               /\ Get(st, p, 0) = Max({0} \cup { mine[n].data[2] : n \in DOMAIN mine })

\* Momentum is the difference of the ends of its window, within its range.
MomentumOfWindow ==
    kind = "momentum_tracker" =>
      \A n \in DOMAIN LogOf(0) :
        LET r == LogOf(0)[n].data
            start == SaturatingSub(n, DEFAULT_MOMENTUM_WINDOW) + 1
        IN  /\ r[2] = st[n] - st[start]
            /\ \A k \in start..n : st[k] \in r[5]..r[4]

\* Through aggregator, dashboard and alert engine, an alert is what the signals
\* of its epoch call for: an emergency signal is always an Emergency, one bad
\* signal alone is at most Info unless it is the phase, two are a Warn and
\* three are Critical.
AlertsAreGraded ==
    kind = "alert_engine" =>
      \A n \in DOMAIN LogOf(4) :
        LET call == CHOOSE i \in Made("alert") : Arg(i, 1) = LogOf(4)[n].data[1]
            s == Arg(call, 2)
            declining == LogOf(1)[n].data[3] = 2
            bad == LogOf(2)[n].data[3]
        IN  calls[call].result =
              IF s.health = 2 \/ s.pulse = 2 \/ s.resilience = 3 THEN 4
              ELSE IF bad >= 3 \/ s.phase = 1 THEN 3
              ELSE IF bad = 2 THEN 2
              ELSE IF declining THEN 1 ELSE 0

\* A boundary once seen by a quorum, or by all, is not lost again to reports
\* that come late: only a peer not heard of before can take it back.
BoundariesHold ==
    kind = "epoch_boundary_detector" =>
      \A i, j \in Made("boundary") :
        (i < j /\ \A k \in Between(i, j) \cap Made("report") :
                    \E h \in Made("report") : h < i /\ Arg(h, 1) = Arg(k, 1))
        => calls[i].result <= calls[j].result

\* A peer is reachable iff the newest probe of it succeeded, however late the
\* results of older probes came in; the mean round trip is over successes only.
ReachableByNewest ==
    kind = "gossip_prober" =>
      \A pair \in DOMAIN logs :
        LET probes == { i \in DOMAIN calls : <<Arg(i, 1), Arg(i, 2)>> = pair }
            newest == { i \in probes : \A j \in probes : Arg(j, 3) <= Arg(i, 3) }
            first == Min(newest)
        IN  /\ pair[2] \in reachable_from(pair[1]) <=> Arg(first, 4)[1] = 0
            /\ avg_rtt_ms(pair) \in {0} \cup 40..900

\* More messages never get a lighter answer, also past the byte's limit, and
\* nothing is throttled that stays within seven tenths of the capacity.
PressureGrows ==
    kind = "backpressure_monitor" =>
      \A i, j \in Made("batch") :
        /\ Arg(i, 3) <= Arg(j, 3) => calls[i].result <= calls[j].result
        /\ (st > 0 /\ 10 * Arg(i, 3) <= 7 * st) => Got(i, 0)
        /\ 100 * Arg(i, 3) >= 101 * st /\ Arg(i, 3) > 0 => Got(i, 2)

EpochVerdicts ==
    /\ MomentumOfWindow /\ AlertsAreGraded /\ BoundariesHold
    /\ ReachableByNewest /\ PressureGrows
=============================================================================
