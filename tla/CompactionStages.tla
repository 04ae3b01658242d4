-------------------------- MODULE CompactionStages --------------------------
(***************************************************************************)
(* What each stage of the compaction reporting pipeline computes for one   *)
(* epoch (src/aegis-cl-psi, gates 328-349 and their gossip mirrors,        *)
(* gates 358-372).  The two families are the same program over other type  *)
(* names except where a definition below says otherwise: a Gossip* operator*)
(* that only names another stands for a file whose token stream agrees     *)
(* with its twin's.                                                        *)
(*                                                                         *)
(* Enumerations are their repr(u8) values: grades and joint conditions     *)
(* 0..3 from best to worst, directions 0 improving, 1 stable, 2 declining, *)
(* alerts 0 green, 1 amber, 2 red, trends 0 stable, 1 improving,           *)
(* 2 degrading, 3 volatile.                                                *)
(***************************************************************************)
EXTENDS Arithmetic

\* Constants of the code, scaled down by the configurations.
CONSTANTS
    PRUNE_ALERT_THRESHOLD,    \* 1000 entries pruned in an epoch
    HIGH_PRUNE_THRESHOLD,     \* 500
    MISSED_ALERT_THRESHOLD,   \* 10 missed deliveries
    CAPACITY_CEILING,         \* 10 000
    GOSSIP_DELIVERY_CEILING,  \* 1 000 000
    U64Max                    \* u64::MAX

\* No ceiling is u32::MAX, the value that stands for never reaching it.
ASSUME ThresholdsAssumption ==
    /\ {PRUNE_ALERT_THRESHOLD, HIGH_PRUNE_THRESHOLD, MISSED_ALERT_THRESHOLD,
        CAPACITY_CEILING, GOSSIP_DELIVERY_CEILING} \subseteq Nat \ {0}
    /\ CAPACITY_CEILING < U32Max /\ GOSSIP_DELIVERY_CEILING < U32Max
    /\ U64Max \in Nat /\ U64Max >= 100 * U32Max

Never == U32Max     \* epochs_to_ceiling = u32::MAX

\* u64 sums and products wrap.
AsU64(n) == n % (U64Max + 1)

\* Integer division truncating toward zero, as i64 division does.
TruncDiv(a, b) == IF a >= 0 THEN a \div b ELSE -((-a) \div b)

-----------------------------------------------------------------------------
(* The three compactors drop all but the last retain entries and anchor    *)
(* what they dropped; an entry is its class (health) or <<resonant,        *)
(* certified>> (resonance).                                                *)
pruned_count(entries, retain) == SaturatingSub(Len(entries), retain)

compact(entries, retain) ==
    LET n == pruned_count(entries, retain)
    IN  [pruned_count |-> n, retained_count |-> Len(entries) - n,
         anchor |-> SubSeq(entries, 1, n)]

compact_health(entries, retain) ==
    LET c == compact(entries, retain)
    IN  [pruned_count |-> c.pruned_count, retained_count |-> c.retained_count,
         anchor |-> c.anchor, peak_class |-> Max({0} \cup Range(c.anchor))]

compact_resonance(entries, retain) ==
    LET c == compact(entries, retain)
    IN  [pruned_count |-> c.pruned_count, retained_count |-> c.retained_count,
         anchor |-> c.anchor,
         certified_count |-> Cardinality({ i \in DOMAIN c.anchor : c.anchor[i][2] }),
         any_resonant |-> \E i \in DOMAIN c.anchor : c.anchor[i][1]]

\* UnifiedCompactionLog after tick: the record of the three prune counts.
tick(log_, inp) ==
    Append(log_, [spsf |-> compact(inp.spsf, inp.retain).pruned_count,
                  health |-> compact_health(inp.health, inp.retain).pruned_count,
                  resonance |-> compact_resonance(inp.resonance, inp.retain).pruned_count])

unified_total(log_, f) == AsU64(Total([i \in DOMAIN log_ |-> log_[i][f]]))

\* CompactionSealChain::append: the running totals at the close of the epoch.
epoch_seal(spsf, health, resonance) ==
    [spsf |-> spsf, health |-> health, resonance |-> resonance,
     total |-> AtMost(AtMost(spsf + health, U64Max) + resonance, U64Max)]

\* CertifierLog::certify_window over the seals of a window.
certify_window(seals, chains_valid) ==
    LET last == IF seals = << >> THEN epoch_seal(0, 0, 0) ELSE seals[Len(seals)]
    IN  [epoch_count |-> Len(seals), chains_valid |-> chains_valid, totals |-> last]

\* encode: the bytes of the telemetry frame that are not copied verbatim.
Share(part, whole) == AtMost(AsU64(part * 100) \div AtLeastOne(whole), 100)
telemetry_encode(cert) ==
    [chains_valid |-> cert.chains_valid,
     spsf_pct |-> Share(cert.totals.spsf, cert.totals.total),
     health_pct |-> Share(cert.totals.health, cert.totals.total),
     res_pct |-> Share(cert.totals.resonance, cert.totals.total)]

-----------------------------------------------------------------------------
(* Health: grade, joint condition, momentum, report. *)

HealthGrade(chains_valid, high) ==
    IF chains_valid THEN Byte(high) ELSE 2 + Byte(high)

\* OverallCondition: 0 Optimal, 1 Good, 2 Caution, 3 Alert, 4 Emergency.
joint_from_axes(grade, cond) ==
    IF grade = 3 \/ cond = 4 THEN 3
    ELSE IF grade = 2 \/ cond = 3 THEN 2
    ELSE IF grade = 0 /\ cond = 0 THEN 0
    ELSE 1

compaction_health(inp) ==
    LET grade == HealthGrade(inp.chains_valid, inp.total >= PRUNE_ALERT_THRESHOLD)
    IN  [grade |-> grade, joint |-> joint_from_axes(grade, inp.cond),
         total |-> inp.total, chains_valid |-> inp.chains_valid]

\* GossipHealthLog::record; class 0 green, 1 yellow, 2 red.  Other than on
\* the compaction side, a yellow class alone degrades the joint condition.
gossip_joint(grade, class) ==
    IF grade = 3 \/ class = 2 THEN 3
    ELSE IF grade = 2 THEN 2
    ELSE IF grade = 0 /\ class = 0 THEN 0
    ELSE IF class = 1 THEN 2
    ELSE 1

gossip_health(inp) ==
    LET grade == HealthGrade(inp.chains_valid, inp.missed >= MISSED_ALERT_THRESHOLD)
    IN  [grade |-> grade, joint |-> gossip_joint(grade, inp.class),
         total |-> inp.delivered, chains_valid |-> inp.chains_valid]

from_delta(delta) == IF delta < 0 THEN 0 ELSE IF delta = 0 THEN 1 ELSE 2

\* CompactionMomentumLog::append: a window of the last four scores.
Momentum(earliest, latest) ==
    [momentum |-> latest - earliest, dir |-> from_delta(latest - earliest)]

momentum_append(window, score) ==
    LET w == Slide(window, score, 4)
    IN  [carried |-> w, record |-> Momentum(w[1], w[Len(w)])]

\* GossipMomentumLog::append keeps the same scores in a ring of four slots.
EmptyRing == [slots |-> <<0, 0, 0, 0>>, len |-> 0, head |-> 0]

\* Mutant: once the ring is full its oldest score is read one slot too far.
gossip_momentum_append_late(ring, score) ==
    LET next == [slots |-> [ring.slots EXCEPT ![(ring.head % 4) + 1] = score],
                 len |-> AtMost(ring.len + 1, 4),
                 head |-> ring.head + 1]
        oldest == IF next.len < 4 THEN 1 ELSE ((next.head + 1) % 4) + 1
        newest == ((next.head - 1) % 4) + 1
    IN  [carried |-> next, record |-> Momentum(next.slots[oldest], next.slots[newest])]

gossip_momentum_append(ring, score) ==
    LET next == [slots |-> [ring.slots EXCEPT ![(ring.head % 4) + 1] = score],
                 len |-> AtMost(ring.len + 1, 4),
                 head |-> ring.head + 1]
        oldest == IF next.len < 4 THEN 1 ELSE (next.head % 4) + 1
        newest == ((next.head - 1) % 4) + 1
    IN  [carried |-> next,
         record |-> IF next.len = 1 THEN Momentum(score, score)
                    ELSE Momentum(next.slots[oldest], next.slots[newest])]

\* CompactionEpochReportLog::append joins the two records.
epoch_report(health, momentum, pct) ==
    [joint |-> health.joint, grade |-> health.grade, total |-> health.total,
     chains_valid |-> health.chains_valid, dir |-> momentum.dir,
     momentum |-> momentum.momentum, pct |-> pct]
gossip_epoch_report(health, momentum, pct) == epoch_report(health, momentum, pct)

-----------------------------------------------------------------------------
(* Judgement: alert, SLA, capacity, recovery. *)

AlertLevel(joint, dir, streak) ==
    IF joint = 3 \/ streak >= 3 THEN 2
    ELSE IF joint = 2 \/ (dir = 2 /\ streak >= 2) THEN 1
    ELSE 0

\* append: the streak of declining epochs is carried from report to report.
alert_append(streak, report) ==
    LET s == IF report.dir = 2 THEN SaturatingAdd(streak, 1) ELSE 0
    IN  [carried |-> s, level |-> AlertLevel(report.joint, report.dir, s)]
gossip_alert_append(streak, report) == alert_append(streak, report)

sla_append(level, report) ==
    [joint_ok |-> report.joint <= 1, alert_ok |-> level <= 1,
     chains_ok |-> report.chains_valid]
sla_compliant(sla) == sla.joint_ok /\ sla.alert_ok /\ sla.chains_ok
violation_mask(sla) ==
    Byte(~sla.joint_ok) + 2 * Byte(~sla.alert_ok) + 4 * Byte(~sla.chains_ok)
gossip_sla_append(level, report) == sla_append(level, report)

\* Mutant: the pace is taken over the window's length, not over its steps.
Projection_flat(w, ceiling) ==
    LET now == w[Len(w)]
        mean == TruncDiv(now - w[1], Len(w))
    IN  [mean |-> mean, at_capacity |-> now >= ceiling,
         left |-> IF now >= ceiling THEN 0
                  ELSE IF mean <= 0 THEN Never
                  ELSE AtMost((ceiling - now) \div mean, U32Max)]

\* The projection over a window of the last four totals.
Projection(w, ceiling) ==
    LET now == w[Len(w)]
        mean == IF Len(w) < 2 THEN 0 ELSE TruncDiv(now - w[1], Len(w) - 1)
    IN  [mean |-> mean, at_capacity |-> now >= ceiling,
         left |-> IF now >= ceiling THEN 0
                  ELSE IF mean <= 0 THEN Never
                  ELSE AtMost((ceiling - now) \div mean, U32Max)]

capacity_append(window, report) ==
    LET w == Slide(window, report.total, 4)
    IN  [carried |-> w, record |-> Projection(w, CAPACITY_CEILING)]
gossip_capacity_append(window, report) ==
    LET w == Slide(window, report.total, 4)
    IN  [carried |-> w, record |-> Projection(w, GOSSIP_DELIVERY_CEILING)]

\* advise: 0 repair chains, 1 reduce the load, 2 stabilise, 3 monitor.
Advice(broken, high, declining) ==
    [priority |-> IF broken THEN 0 ELSE IF high THEN 1 ELSE IF declining THEN 2 ELSE 3,
     reason |-> Byte(broken) + 2 * Byte(high) + 4 * Byte(declining)]
recovery_advise(report, streak) ==
    Advice(~report.chains_valid, report.total >= HIGH_PRUNE_THRESHOLD, report.dir = 2 /\ streak >= 2)
gossip_recovery_advise(report, streak) ==
    Advice(~report.chains_valid, report.pct >= 50, report.dir = 2 /\ streak >= 2)

-----------------------------------------------------------------------------
(* Change: comparator, trend, dashboard. *)

\* compare(prev, curr)
epoch_compare(p, c) ==
    [improved |-> c.joint < p.joint \/ (~p.chains_valid /\ c.chains_valid),
     worsened |-> c.joint > p.joint \/ (p.chains_valid /\ ~c.chains_valid),
     total_delta |-> c.total - p.total,
     momentum_delta |-> c.momentum - p.momentum,
     direction_changed |-> c.dir # p.dir]
gossip_epoch_compare(p, c) == epoch_compare(p, c)

TrendClass(improvements, degradations, size) ==
    LET threshold == IF size >= 4 THEN 3 ELSE Max({1, size - 1})
    IN  IF improvements >= threshold /\ degradations = 0 THEN 1
        ELSE IF degradations >= threshold /\ improvements = 0 THEN 2
        ELSE IF improvements >= 1 /\ degradations >= 1 THEN 3
        ELSE 0

trend_append(window, delta) ==
    LET w == Slide(window, delta, 4)
        up == Cardinality({ i \in DOMAIN w : w[i].improved })
        down == Cardinality({ i \in DOMAIN w : w[i].worsened })
    IN  [carried |-> w,
         record |-> [class |-> TrendClass(up, down, Len(w)), up |-> up, down |-> down,
                     net |-> Total([i \in DOMAIN w |-> w[i].total_delta])]]
gossip_trend_append(window, delta) == trend_append(window, delta)

\* Mutant: a worsening trend hides a violated SLA.
dashboard_condition_trend(level, trend, compliant) ==
    IF level = 2 \/ trend = 2 THEN 3
    ELSE IF trend = 3 THEN 2 ELSE IF trend = 1 /\ level = 0 THEN 0 ELSE 1

\* DashboardCondition: 0 thriving, 1 stable, 2 concerning, 3 critical.
dashboard_condition(level, trend, compliant) ==
    IF level = 2 \/ trend = 2 THEN 3
    ELSE IF ~compliant \/ trend = 3 \/ level = 1 THEN 2
    ELSE IF compliant /\ trend = 1 /\ level = 0 THEN 0
    ELSE 1
gossip_dashboard_condition(level, trend, compliant) ==
    dashboard_condition(level, trend, compliant)

\* GossipCertifierLog::certify_window sums the seals of the window; the
\* gossip telemetry frame holds the shares of red, yellow and green epochs.
gossip_certify_window(seals, chains_valid) ==
    LET n(f) == Total([i \in DOMAIN seals |-> seals[i][f]])
    IN  [epoch_count |-> Len(seals), chains_valid |-> chains_valid,
         delivered |-> AsU64(n("delivered")), missed |-> AsU64(n("missed")),
         red |-> AsU32(n("red")), yellow |-> AsU32(n("yellow")), green |-> AsU32(n("green"))]

gossip_epoch_seal(class, delivered, missed) ==
    [delivered |-> delivered, missed |-> missed, red |-> Byte(class = 2),
     yellow |-> Byte(class = 1), green |-> Byte(class = 0)]

gossip_telemetry_encode(cert) ==
    [chains_valid |-> cert.chains_valid,
     red_pct |-> Share(cert.red, cert.epoch_count),
     yellow_pct |-> Share(cert.yellow, cert.epoch_count),
     green_pct |-> Share(cert.green, cert.epoch_count)]
=============================================================================
