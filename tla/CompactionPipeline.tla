------------------------- MODULE CompactionPipeline -------------------------
(***************************************************************************)
(* One epoch after another through the compaction reporting pipeline of    *)
(* src/aegis-cl-psi, on the compaction side or on its gossip mirror.  The  *)
(* logs advance together: row n holds what the stages appended for epoch   *)
(* n, and `carry' what they keep between epochs (windows, the ring, the    *)
(* streak, the running seals).  The stages have no caller in the           *)
(* repository other than tests; an epoch feeds each stage the records that *)
(* its parameter types name, the comparator from the second epoch on.      *)
(***************************************************************************)
EXTENDS CompactionStages

CONSTANTS
    MaxEpochs,     \* bound: epochs of a run
    PruneInputs,   \* [spsf, health, resonance, retain, chains_valid, cond]
    GossipInputs   \* [class, delivered, missed, chains_valid]

\* The streak's u32 counter can reach the three epochs of a red alert, and
\* the deliveries of an epoch fit the i64 the planner casts them to.
ASSUME PipelineAssumption ==
    /\ MaxEpochs \in Nat \ {0}
    /\ U32Max >= 3
    /\ \A inp \in PruneInputs \cup GossipInputs : inp.chains_valid \in BOOLEAN
    /\ \A inp \in PruneInputs :
          {Len(inp.spsf), Len(inp.health), Len(inp.resonance), inp.retain} \subseteq Nat
    /\ \A inp \in GossipInputs :
          inp.class \in 0..2 /\ inp.delivered \in 0..(U64Max \div 2)

VARIABLES side, rows, carry

vars == <<side, rows, carry>>

NoDelta == [improved |-> FALSE, worsened |-> FALSE, total_delta |-> 0,
            momentum_delta |-> 0, direction_changed |-> FALSE]
NoTrend == [class |-> 0, up |-> 0, down |-> 0, net |-> 0]

Init ==
    /\ side \in {"compaction", "gossip"}
    /\ rows = << >>
    /\ carry = [momentum |-> IF side = "gossip" THEN EmptyRing ELSE << >>,
                streak |-> 0, totals |-> << >>, deltas |-> << >>,
                unified |-> << >>, seals |-> << >>]

FirstEpoch == rows = << >>
LastReport == rows[Len(rows)].report

\* What an epoch appends, and what the stages carry on.
Advance(report, momentum, alert, sla, capacity, advice, trend, condition, unified, seals) ==
    /\ rows' = Append(rows,
          [report |-> report, level |-> alert.level, sla |-> sla,
           capacity |-> capacity.record, advice |-> advice,
           trend |-> trend.record, condition |-> condition])
    /\ carry' = [momentum |-> momentum, streak |-> alert.carried,
                 totals |-> capacity.carried, deltas |-> trend.carried,
                 unified |-> unified, seals |-> seals]
    /\ UNCHANGED side

CompactionEpoch(inp) ==
    LET unified == tick(carry.unified, inp)
        now == unified[Len(unified)]
        seals == Append(carry.seals, epoch_seal(unified_total(unified, "spsf"),
                                                unified_total(unified, "health"),
                                                unified_total(unified, "resonance")))
        health == compaction_health([chains_valid |-> inp.chains_valid, cond |-> inp.cond,
                                     total |-> now.spsf + now.health + now.resonance])
        momentum == momentum_append(carry.momentum, health.joint)
        report == epoch_report(health, momentum.record, 0)
        alert == alert_append(carry.streak, report)
        sla == sla_append(alert.level, report)
        trend == IF FirstEpoch THEN [carried |-> << >>, record |-> NoTrend]
                 ELSE trend_append(carry.deltas, epoch_compare(LastReport, report))
    IN  Advance(report, momentum.carried, alert, sla,
                capacity_append(carry.totals, report),
                recovery_advise(report, alert.carried), trend,
                dashboard_condition(alert.level, trend.record.class, sla_compliant(sla)),
                unified, seals)

\* red_pct is handed to the report by its caller: the share of red epochs.
GossipEpoch(inp) ==
    LET seals == Append(carry.seals, gossip_epoch_seal(inp.class, inp.delivered, inp.missed))
        red_pct == gossip_telemetry_encode(gossip_certify_window(seals, TRUE)).red_pct
        health == gossip_health(inp)
        momentum == gossip_momentum_append(carry.momentum, health.joint)
        report == gossip_epoch_report(health, momentum.record, red_pct)
        alert == gossip_alert_append(carry.streak, report)
        sla == gossip_sla_append(alert.level, report)
        trend == IF FirstEpoch THEN [carried |-> << >>, record |-> NoTrend]
                 ELSE gossip_trend_append(carry.deltas, gossip_epoch_compare(LastReport, report))
    IN  Advance(report, momentum.carried, alert, sla,
                gossip_capacity_append(carry.totals, report),
                gossip_recovery_advise(report, alert.carried), trend,
                gossip_dashboard_condition(alert.level, trend.record.class, sla_compliant(sla)),
                carry.unified, seals)

Next ==
    /\ Len(rows) < MaxEpochs
    /\ \/ side = "compaction" /\ \E inp \in PruneInputs : CompactionEpoch(inp)
       \/ side = "gossip" /\ \E inp \in GossipInputs : GossipEpoch(inp)

Spec == Init /\ [][Next]_vars

-----------------------------------------------------------------------------
(* Correctness *)

Joint(n) == rows[n].report.joint
PruneTotal(n) == rows[n].report.total
EpochsBack(n, k) == Max({1, n - k})

\* The direction an epoch reports compares its joint condition with that of
\* three epochs before (or the first), whether the scores are kept in the
\* compaction side's window or in the gossip side's ring of four slots.
Rising(n) == Joint(n) > Joint(EpochsBack(n, 3))

MomentumFromHistory ==
    \A n \in DOMAIN rows :
        /\ rows[n].report.momentum = Joint(n) - Joint(EpochsBack(n, 3))
        /\ rows[n].report.dir = 2 <=> Rising(n)

\* An alert is red exactly on a critical epoch or on the third of an unbroken
\* run of declining epochs, amber on a degraded one or on the second.
AlertFromHistory ==
    \A n \in DOMAIN rows :
        LET run(k) == n >= k /\ \A m \in (n - k + 1)..n : Rising(m)
        IN  /\ rows[n].level = 2 <=> (Joint(n) = 3 \/ run(3))
            /\ rows[n].level >= 1 <=> (Joint(n) >= 2 \/ run(2))

\* The alarms of an epoch are those its history calls for.
AlarmsFollowHistory == MomentumFromHistory /\ AlertFromHistory

\* A broken chain or a critical condition passes every stage in between: the
\* SLA is violated with the matching bit, repair outranks the other advice
\* and the dashboard shows concern; it never calls an epoch thriving when any
\* of the last four steps got worse.
AlarmReachesDashboard ==
    \A n \in DOMAIN rows :
        LET row == rows[n]
            mask == violation_mask(row.sla)
        IN  /\ ~row.report.chains_valid =>
                 mask >= 4 /\ row.advice.priority = 0 /\ row.condition >= 2
            /\ row.report.joint = 3 => mask % 4 = 3 /\ row.condition = 3
            /\ row.condition = 0 =>
                 \A m \in EpochsBack(n, 3)..n :
                    m > 1 => Joint(m) <= Joint(m - 1)

\* The trend's net change is the difference of two reported totals: what the
\* window drops and adds never loses or repeats a step.
TrendTelescopes ==
    \A n \in DOMAIN rows :
        /\ rows[n].trend.net = PruneTotal(n) - PruneTotal(EpochsBack(n, 4))
        /\ rows[n].trend.up + rows[n].trend.down <= 2 * (n - EpochsBack(n, 4))

\* epochs_to_ceiling is the last number of further epochs at the window's
\* mean pace that keeps the total at or below the ceiling.
Ceiling == IF side = "gossip" THEN GOSSIP_DELIVERY_CEILING ELSE CAPACITY_CEILING

ProjectionBrackets ==
    \A n \in DOMAIN rows :
        LET c == rows[n].capacity
            reach(k) == PruneTotal(n) + k * c.mean
        IN  /\ c.at_capacity => c.left = 0
            /\ ~c.at_capacity /\ c.left # Never =>
                 reach(c.left) <= Ceiling /\ reach(c.left + 1) > Ceiling
            /\ c.left = Never =>
                 PruneTotal(n) - PruneTotal(EpochsBack(n, 3)) < Max({1, n - EpochsBack(n, 3)})

\* A certificate over all seals accounts for every entry pruned in every
\* epoch (or every epoch's class), and the shares its telemetry frame
\* truncates to whole percents lose less than one each, as long as the
\* counts fit their widths.
CertificateAccounts ==
    LET sum(a, b, c) == a + b + c \in 98..100
        all == Total([n \in DOMAIN rows |-> PruneTotal(n)])
    IN  rows # << >> =>
          IF side = "compaction"
          THEN LET cert == certify_window(carry.seals, TRUE)
                   frame == telemetry_encode(cert)
               IN  /\ all <= U64Max => cert.totals.total = all
                   /\ all \in 1..(U64Max \div 100) =>
                        sum(frame.spsf_pct, frame.health_pct, frame.res_pct)
          ELSE LET cert == gossip_certify_window(carry.seals, TRUE)
                   frame == gossip_telemetry_encode(cert)
               IN  /\ all <= U64Max => cert.delivered = all
                   /\ Len(rows) <= U32Max =>
                        /\ cert.red + cert.yellow + cert.green = cert.epoch_count
                        /\ sum(frame.red_pct, frame.yellow_pct, frame.green_pct)

\* What windows, projections and certificates say of the totals adds up to
\* the totals of the epochs themselves.
TotalsTelescope == TrendTelescopes /\ ProjectionBrackets /\ CertificateAccounts
=============================================================================
