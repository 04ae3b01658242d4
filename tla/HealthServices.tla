--------------------------- MODULE HealthServices ---------------------------
(***************************************************************************)
(* The services of src/aegis-cl-psi that turn measurements into verdicts   *)
(* and plans: latency and link quality, liveness and score of a peer,      *)
(* quorum, the resilience watchdog, the constitutional phase, recovery and *)
(* intervention plans, the swarm's verdict ledger and the state frames     *)
(* nodes exchange.                                                         *)
(***************************************************************************)
EXTENDS ServiceState

CONSTANTS
    \* the constants of the files, scaled down by the configurations
    LATENCY_WINDOW, DEFAULT_WINDOW_SIZE, MAX_EPOCH_LAG, MAX_LATENCY_TICKS

ASSUME HealthAssumption ==
    /\ LATENCY_WINDOW \in Nat \ {0} /\ DEFAULT_WINDOW_SIZE \in Nat \ {0}
    /\ MAX_EPOCH_LAG \in Nat /\ MAX_LATENCY_TICKS \in Nat

HealthKinds == {
    "latency_tracker", "link_quality_monitor", "peer_liveness_oracle",
    "peer_scoring_engine", "quorum_guard", "resilience_watchdog", "phase_transition",
    "recovery_planner", "intervention_recommender", "verdict_ledger",
    "peer_frame_validator" }

HealthInit == st = << >>

\* A record refused because its epoch is not after the last one.
StaleIn(owner, e, field) == LogOf(owner) # << >> /\ e <= LastRecord(owner)[field]
Stale(args) == Return("stale", args, "StaleEpoch") /\ UNCHANGED <<st, logs>>

-----------------------------------------------------------------------------
(* Latency: a ring of the last samples and its average. *)

LatencyTier(avg) == CASE avg <= 50 -> 0 [] avg \in 51..200 -> 1 [] avg \in 201..500 -> 2 [] OTHER -> 3

EmptyRing == [slots |-> [n \in 0..(LATENCY_WINDOW - 1) |-> 0], count |-> 0, pos |-> 0]
\* Mutant: the position stops at the end of the ring.
RingPushLast(ring, sample) ==
    [slots |-> [ring.slots EXCEPT ![ring.pos] = sample],
     count |-> AtMost(ring.count + 1, LATENCY_WINDOW),
     pos |-> AtMost(ring.pos + 1, LATENCY_WINDOW - 1)]

RingPush(ring, sample) ==
    [slots |-> [ring.slots EXCEPT ![ring.pos] = sample],
     count |-> AtMost(ring.count + 1, LATENCY_WINDOW),
     pos |-> (ring.pos + 1) % LATENCY_WINDOW]
rolling_average(ring) ==
    IF ring.count = 0 THEN 0
    ELSE MapThenSumSet(LAMBDA n : ring.slots[n], 0..(ring.count - 1)) \div ring.count

\* A stale sample leaves an empty ring for a peer at most.
observe_latency ==
    /\ Serve("latency_tracker")
    /\ \E p \in Peers, e \in Epochs, sample \in {40, 200, 900} :
          LET ring == RingPush(Get(st, p, EmptyRing), sample)
              avg == rolling_average(ring)
          IN  IF StaleIn(p, e, 2) THEN Stale(<<p, e>>)
              ELSE /\ st' = Put(st, p, ring)
                   /\ logs' = Chained(p, <<p, e, sample, avg, LatencyTier(avg)>>)
                   /\ Return("latency", <<p, e>>, LatencyTier(avg))

\* A link's latency is smoothed; the first sample starts the average.
LinkTier(smoothed, timeout) ==
    CASE timeout -> 4
      [] OTHER -> IF smoothed <= 10 THEN 0 ELSE IF smoothed <= 30 THEN 1
                  ELSE IF smoothed <= 100 THEN 2 ELSE 3

apply_sample(p, sample, timeout) ==
    LET smoothed == (3 * Get(st, p, sample) + sample) \div 4
    IN  /\ st' = Put(st, p, smoothed)
        /\ logs' = Chained(p, <<p, Len(calls), sample, smoothed, LinkTier(smoothed, timeout)>>)
        /\ Return("sample", <<p, sample>>, LinkTier(smoothed, timeout))

sample_link ==
    /\ Serve("link_quality_monitor")
    /\ \E p \in Peers, ticks \in {0, 10, 31, 150} : apply_sample(p, ticks, FALSE)

sample_timeout ==
    /\ Serve("link_quality_monitor")
    /\ \E p \in Peers : apply_sample(p, MAX_LATENCY_TICKS, TRUE)

-----------------------------------------------------------------------------
(* Liveness (0 Live, 1 Degraded, 2 Suspect, 3 Dead) and score of a peer. *)

classify_liveness(misses, tier, reputation) ==
    CASE misses >= 6 -> 3
      [] misses < 6 /\ (misses >= 3 \/ reputation < 20 \/ tier >= 4) -> 2
      [] misses < 3 /\ reputation >= 20 /\ tier < 4
           /\ (misses >= 1 \/ reputation < 50 \/ tier >= 3) -> 1
      [] OTHER -> 0

assess_liveness ==
    /\ Serve("peer_liveness_oracle")
    /\ \E p \in Peers, misses \in {0, 1, 2, 3, 5, 6}, tier \in {2, 3, 4}, reputation \in {19, 20, 49, 50} :
          LET verdict == classify_liveness(misses, tier, reputation)
          IN  /\ st' = Put(st, p, verdict)
              /\ logs' = Chained(p, <<p, Len(calls), misses, tier, reputation, verdict>>)
              /\ Return("assess", <<p, misses, tier, reputation>>, verdict)

latency_tier_score(tier) == CASE tier = 0 -> 25 [] tier = 1 -> 20 [] tier = 2 -> 12 [] tier = 3 -> 5 [] OTHER -> 0
sub_score(pct) == ((pct * 25) \div 100) % 256
uptime_sub_score(epochs) == (AtMost(epochs, 100) * 25) \div 100
compute_composite(tier, reputation, delivery, uptime) ==
    AtMost(latency_tier_score(tier) + sub_score(reputation) + sub_score(delivery)
             + uptime_sub_score(uptime), 100)

update_score ==
    /\ Serve("peer_scoring_engine")
    /\ \E p \in Peers, tier \in {0, 3, 4}, reputation \in {0, 99, 100}, delivery \in {3, 100},
          uptime \in {0, 100, 101} :
          LET score == compute_composite(tier, reputation, delivery, uptime)
          IN  /\ logs' = Chained(p, <<p, Len(calls), tier, reputation, delivery, uptime, score>>)
              /\ Return("score", <<p, tier, reputation, delivery, uptime>>, score)
    /\ UNCHANGED st

-----------------------------------------------------------------------------
(* Quorum: 0 Healthy, 1 AtThreshold, 2 BelowQuorum, 3 NoNodes. *)

classify_quorum(total, operational) ==
    CASE total = 0 -> 3
      [] total > 0 /\ operational * 1000000 >= total * 700000 -> 0
      [] OTHER -> IF operational * 1000000 >= total * 618034 THEN 1 ELSE 2

quorum_pct(total, operational) == IF total = 0 THEN 0 ELSE AtMost((operational * 100) \div total, 100)

observe_quorum ==
    /\ Serve("quorum_guard")
    /\ \E e \in Epochs, total \in {0, 3, 8}, operational \in {0, 2, 3, 5, 6} :
          LET pct == quorum_pct(total, operational)
              before == IF LogOf(0) = << >> THEN 0 ELSE LastRecord(0)[5]
              level == classify_quorum(total, operational)
          IN  IF StaleIn(0, e, 1) THEN Stale(<<e>>)
              ELSE /\ logs' = Chained(0, <<e, total, operational, level, pct, pct - before>>)
                   /\ Return("quorum", <<e>>, level)
                   /\ UNCHANGED st

-----------------------------------------------------------------------------
(* Resilience over the last divergence classes (0 Stable .. 4 Terminal):     *)
(* 0 Recovering, 1 Stable, 2 Oscillating, 3 Degrading, 4 Insufficient.       *)

Window(s) == SubSeq(s, SaturatingSub(Len(s), DEFAULT_WINDOW_SIZE) + 1, Len(s))

\* The classes without repeats, and how often their direction turns.
Turns(window) ==
    LET steps == SelectSeq([n \in 1..(Len(window) - 1) |-> window[n + 1] - window[n]],
                           LAMBDA d : d # 0)
    IN  Cardinality({ n \in 1..(Len(steps) - 1) : (steps[n] > 0) # (steps[n + 1] > 0) })

assess_resilience(window) ==
    LET latest == window[Len(window)]
        peak == Max(Range(window))
        climbs == \A n \in 1..(Len(window) - 1) : window[n + 1] >= window[n]
    IN  CASE Len(window) < 2 -> 4
          [] Len(window) >= 2 /\ Turns(window) >= 2 -> 2
          [] OTHER -> IF latest < peak THEN 0
                      ELSE IF climbs /\ window[1] # latest THEN 3 ELSE 1

\* The oracle that is judged may be the one judged last: its epoch is refused.
watchdog_record ==
    /\ Serve("resilience_watchdog")
    /\ \/ \E class \in Ids :
            LET oracles == Append(st, class - 1)
                window == Window(oracles)
            IN  /\ st' = oracles
                /\ logs' = Chained(0, <<Len(oracles), assess_resilience(window), Max(Range(window))>>)
                /\ Return("watch", window, assess_resilience(window))
       \/ st # << >> /\ Stale(<< >>)

-----------------------------------------------------------------------------
(* Phases: 0 Nominal, 1 Degraded, 2 Recovery, 3 Critical; from a pulse (0    *)
(* Green .. 2 Red) and a verdict of the watchdog.                            *)

severity(phase) == CASE phase = 0 -> 0 [] phase = 2 -> 1 [] phase = 1 -> 2 [] OTHER -> 3

classify_phase(pulse, resilience) ==
    CASE pulse = 2 \/ resilience \in {2, 3} -> 3
      [] pulse # 2 /\ resilience \notin {2, 3} /\ (pulse = 1 \/ resilience = 4) -> 1
      [] OTHER -> 0

\* An improvement from Degraded or Critical is Recovery, whatever it improves to.
PhaseAfter(before, raw) ==
    IF severity(before) >= 2 /\ severity(raw) < severity(before) THEN 2 ELSE raw

\* Causes: 0 escalation, 1 recovery, 2 resilience shift, 3 initial.
determine_cause(last, phase, pulse, resilience) ==
    CASE pulse > last.pulse -> 0
      [] pulse < last.pulse -> 1
      [] OTHER -> IF resilience # last.resilience THEN 2
                  ELSE IF severity(phase) > severity(last.phase) THEN 0 ELSE 1

phase_record ==
    /\ Serve("phase_transition")
    /\ \E e \in Epochs, pulse \in 0..2, resilience \in 0..4 :
          LET raw == classify_phase(pulse, resilience)
              first == LogOf(0) = << >>
              phase == IF first THEN raw ELSE PhaseAfter(st.phase, raw)
              cause == IF first THEN 3 ELSE determine_cause(st, phase, pulse, resilience)
          IN  IF StaleIn(0, e, 1) THEN Stale(<<e, pulse, resilience>>)
              ELSE /\ st' = [phase |-> phase, pulse |-> pulse, resilience |-> resilience]
                   /\ logs' = Chained(0, <<e, phase, cause, Byte(first \/ phase # st.phase)>>)
                   /\ Return("phase", <<e, pulse, resilience>>, phase)

-----------------------------------------------------------------------------
(* Recovery plans, per fault class of the fault detector: actions            *)
(* <<priority, kind, target>> in that order; target 0 is the whole mesh.     *)

IsolateAll(priority, degraded) == { <<priority, 1, n>> : n \in degraded }

RecoveryActions(fault, degraded, healthy) ==
    CASE fault = 0 -> {<<200, 0, 0>>}
      [] fault = 1 -> {<<10, 2, IF degraded = {} THEN 0 ELSE Min(degraded)>>, <<100, 0, 0>>}
      [] fault = 2 -> IsolateAll(20, degraded) \cup {<<30, 4, 0>>, <<40, 3, 0>>}
      [] OTHER -> IF healthy THEN IsolateAll(15, degraded) \cup {<<5, 5, 0>>, <<25, 4, 0>>}
                  ELSE {<<0, 6, 0>>}

PlanBefore(a, b) == a[1] < b[1] \/ (a[1] = b[1] /\ (a[2] < b[2] \/ (a[2] = b[2] /\ a[3] < b[3])))

plan_recovery ==
    /\ Serve("recovery_planner")
    /\ \E e \in Epochs, fault \in 0..3, degraded \in SUBSET Peers, healthy \in BOOLEAN :
          LET plan == Sorted(RecoveryActions(fault, degraded, healthy), PlanBefore)
          IN  IF StaleIn(0, e, 1) THEN Stale(<<e>>)
              ELSE /\ logs' = Chained(0, <<e, fault, Len(plan)>>)
                   /\ Return("plan", <<e, fault, degraded, healthy>>, plan)
                   /\ UNCHANGED st

(* Interventions per alert severity (0 None .. 4 Emergency), as <<priority,  *)
(* kind>>, the most urgent first; kind 0 is MonitorOnly, 6 EmergencyHalt.    *)
When(condition, action) == IF condition THEN {action} ELSE {}

recommend_actions(alert, v) ==
    CASE alert = 0 -> {<<10, 0>>}
      [] alert = 1 -> {<<20, 0>>} \cup When(v.declining, <<35, 1>>)
      [] alert = 2 -> {<<55, 1>>, <<30, 0>>} \cup When(v.resilience \notin {0, 1}, <<60, 2>>)
                        \cup When(v.pulse # 0, <<50, 4>>)
      [] alert = 3 -> {<<75, 2>>, <<65, 3>>, <<30, 0>>} \cup When(v.failed, <<90, 6>>)
                        \cup When(v.phase \notin {0, 2}, <<80, 5>>)
      [] OTHER -> {<<100, 6>>, <<95, 5>>, <<85, 3>>, <<80, 2>>, <<30, 0>>}
                    \cup When(v.pulse = 2, <<75, 4>>)

Urgency(a, b) == a[1] > b[1] \/ (a[1] = b[1] /\ a[2] < b[2])

HealthVectors ==
    [declining : BOOLEAN, failed : BOOLEAN, resilience : {1, 3}, pulse : {0, 2}, phase : {0, 3}]

plan_intervention ==
    /\ Serve("intervention_recommender")
    /\ \E e \in Epochs, alert \in 0..4, v \in HealthVectors :
          LET plan == Sorted(recommend_actions(alert, v), Urgency)
          IN  IF StaleIn(0, e, 1) THEN Stale(<<e>>)
              ELSE /\ logs' = Chained(0, <<e, alert, plan[1][1]>>)
                   /\ Return("plan", <<e, alert, v>>, plan)
                   /\ UNCHANGED st

-----------------------------------------------------------------------------
(* Verdicts of the swarm's nodes, and the frames they exchange. *)

SixtyTwoPercent(part, whole) == whole > 0 /\ part * 1000000 >= whole * 618034

\* A node's verdict counts in the order it is recorded, not in epoch order.
t0_verdict(p) == LastRecord(p)[3] = 1
consensus_t0 == logs # << >> /\ \A p \in DOMAIN logs : t0_verdict(p)
quorum_t0 == SixtyTwoPercent(Cardinality({ p \in DOMAIN logs : t0_verdict(p) }), Cardinality(DOMAIN logs))

record_verdict ==
    /\ Serve("verdict_ledger")
    /\ \E p \in Peers, e \in Epochs, t0 \in BOOLEAN, class \in 0..2, certified \in BOOLEAN :
          /\ logs' = Chained(p, <<p, e, Byte(t0), class, Byte(certified)>>)
          /\ Return("verdict", <<p, e, t0>>, TRUE)
    /\ UNCHANGED st

\* A frame: the sender's epoch, seal prefix and flags are under its checksum,
\* the prefixes of its health and resonance hashes are not.
Frames == [epoch : Epochs, t0 : BOOLEAN, damage : {"none", "covered", "prefixes"}]
verify_checksum(frame) == frame.damage # "covered"

\* 0 Accepted, 1 Degraded, 2 Diverged, 3 Rejected, 4 EpochStale.
classify_frame(frame, local) ==
    CASE ~verify_checksum(frame) -> 3
      [] verify_checksum(frame) /\ frame.epoch + MAX_EPOCH_LAG < local.epoch -> 4
      [] OTHER -> IF frame.t0 = local.t0 THEN 0 ELSE IF local.quorum /\ ~frame.t0 THEN 2 ELSE 1

validate_frame ==
    /\ Serve("peer_frame_validator")
    /\ \E p \in Peers, frame \in Frames, local \in [epoch : Epochs, t0 : BOOLEAN, quorum : BOOLEAN] :
          LET verdict == classify_frame(frame, local)
          IN  /\ logs' = Chained(p, <<p, frame.epoch, verdict, Byte(frame.t0), Byte(local.t0)>>)
              /\ Return("validate", <<p, frame, local>>, verdict)
    /\ UNCHANGED st

latest_verdict(p) == LastRecord(p)[3]
quorum_converged ==
    SixtyTwoPercent(Cardinality({ p \in DOMAIN logs : latest_verdict(p) = 0 }), Cardinality(DOMAIN logs))

-----------------------------------------------------------------------------
HealthNext ==
    \/ observe_latency \/ sample_link      \/ sample_timeout  \/ assess_liveness
    \/ update_score    \/ observe_quorum   \/ watchdog_record \/ phase_record
    \/ plan_recovery   \/ plan_intervention \/ record_verdict \/ validate_frame

-----------------------------------------------------------------------------
(* What the verdicts follow from. *)

\* The average is over the last samples, wherever the ring has wrapped; the
\* smoothed latency never leaves the range of what was measured.
MeansOfSamples ==
    kind \in {"latency_tracker", "link_quality_monitor"} =>
    \A p \in DOMAIN logs :
      LET samples == FieldOf(logs[p], 3)
      IN  \A n \in DOMAIN samples :
            IF kind = "latency_tracker"
            THEN logs[p][n].data[4] = Mean(SubSeq(samples, SaturatingSub(n, LATENCY_WINDOW) + 1, n))
            ELSE logs[p][n].data[4] \in Min(Range(SubSeq(samples, 1, n)))..Max(Range(SubSeq(samples, 1, n)))

\* Worse signals never give a better verdict, better ones never a lower score.
NoWorse(i, j) ==
    \A n \in DOMAIN calls[i].args \ {1} :
      IF n = 4 /\ calls[i].op = "assess" THEN Arg(i, n) >= Arg(j, n)
      ELSE IF calls[i].op = "assess" \/ n = 2 THEN Arg(i, n) <= Arg(j, n)
      ELSE Arg(i, n) >= Arg(j, n)

VerdictsMonotone ==
    kind \in {"peer_liveness_oracle", "peer_scoring_engine"} =>
      \A i, j \in DOMAIN calls :
        NoWorse(i, j) =>
          IF calls[i].op = "assess" THEN calls[i].result <= calls[j].result
          ELSE calls[i].result >= calls[j].result /\ calls[i].result <= 100

\* The deltas of the quorum log add up to the share it stands at, and a level
\* is never better than the share allows.
QuorumAddsUp ==
    kind = "quorum_guard" =>
      /\ LogOf(0) # << >> => Total(FieldOf(LogOf(0), 6)) = LastRecord(0)[5]
      /\ \A n \in DOMAIN LogOf(0) :
           LET r == LogOf(0)[n].data
           IN  /\ r[4] = 0 => r[5] >= 70
               /\ r[4] = 1 => r[5] \in 61..69

\* The watchdog calls a window oscillating iff it rises and falls and rises, or
\* the reverse; recovering iff it ends below its peak, degrading iff it rose.
Zigzag(w) ==
    \E a, b, c, d \in DOMAIN w :
      /\ a < b /\ b < c /\ c < d
      /\ \/ w[a] < w[b] /\ w[b] > w[c] /\ w[c] < w[d]
         \/ w[a] > w[b] /\ w[b] < w[c] /\ w[c] > w[d]

WatchdogFollowsWindow ==
    kind = "resilience_watchdog" =>
      \A i \in Made("watch") :
        LET w == calls[i].args
        IN  /\ Got(i, 2) <=> Zigzag(w)
            /\ Got(i, 0) <=> ~Zigzag(w) /\ Len(w) > 1 /\ \E n \in DOMAIN w : w[n] > w[Len(w)]
            /\ Got(i, 3) => w[1] < w[Len(w)]

\* A node leaves Degraded or Critical only through Recovery, and is Nominal
\* only on a green pulse and a healthy window.
NominalIsEarned ==
    kind = "phase_transition" =>
      /\ \A n \in 2..Len(LogOf(0)) :
           LogOf(0)[n].data[2] = 0 => LogOf(0)[n - 1].data[2] \in {0, 2}
      /\ \A i \in Made("phase") : Got(i, 0) => Arg(i, 2) = 0 /\ Arg(i, 3) \in {0, 1}

\* Plans are in order of urgency.  Recovery isolates every degraded node when
\* several are, and halts the mesh only when a cascade has cost the quorum;
\* intervention always monitors, and a worse alert is never less urgent.
RecoveryFits(i) ==
    LET kinds == { calls[i].result[n][2] : n \in DOMAIN calls[i].result }
        isolated == { a[3] : a \in { b \in Range(calls[i].result) : b[2] = 1 } }
    IN  /\ \A n \in 2..Len(calls[i].result) : calls[i].result[n - 1][1] <= calls[i].result[n][1]
        /\ 6 \in kinds <=> Arg(i, 2) = 3 /\ ~Arg(i, 4)
        /\ (Arg(i, 2) >= 2 /\ 6 \notin kinds) => isolated = Arg(i, 3)

InterventionFits(i) ==
    /\ \A n \in 2..Len(calls[i].result) : calls[i].result[n - 1][1] >= calls[i].result[n][1]
    /\ 0 \in { a[2] : a \in Range(calls[i].result) }
    /\ \A j \in Made("plan") :
         (Arg(i, 2) < Arg(j, 2) /\ Arg(i, 3) = Arg(j, 3)) =>
            calls[i].result[1][1] <= calls[j].result[1][1]

PlansFit ==
    \A i \in Made("plan") :
      /\ kind = "recovery_planner" => RecoveryFits(i)
      /\ kind = "intervention_recommender" => InterventionFits(i)

\* The swarm's quorums count each node by what it said last; a frame damaged
\* under its checksum is rejected, and no other.
LastSaid(p) == Max({ i \in DOMAIN calls : Arg(i, 1) = p })
Said(answer) == { p \in { Arg(i, 1) : i \in DOMAIN calls } : answer[LastSaid(p)] }
Heard == { Arg(i, 1) : i \in DOMAIN calls }

QuorumsCountLatest ==
    /\ kind = "verdict_ledger" =>
         /\ quorum_t0 <=> SixtyTwoPercent(Cardinality(Said([i \in DOMAIN calls |-> Arg(i, 3)])),
                                          Cardinality(Heard))
         /\ consensus_t0 => quorum_t0
    /\ kind = "peer_frame_validator" =>
         /\ quorum_converged <=> SixtyTwoPercent(
                Cardinality(Said([i \in DOMAIN calls |-> Got(i, 0)])), Cardinality(Heard))
         /\ \A i \in DOMAIN calls : Got(i, 3) <=> Arg(i, 2).damage = "covered"

HealthVerdicts ==
    /\ MeansOfSamples /\ VerdictsMonotone /\ QuorumAddsUp /\ WatchdogFollowsWindow
    /\ NominalIsEarned /\ PlansFit /\ QuorumsCountLatest
=============================================================================
