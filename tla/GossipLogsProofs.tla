-------------------------- MODULE GossipLogsProofs --------------------------
(***************************************************************************)
(* Proofs about GossipLogs for any counts, peers, widths and lengths of a  *)
(* log.  An entry is a tuple of the columns its file declares; the         *)
(* invariant says how wide it is and what its derived columns are of the   *)
(* others, so that what the entries of one log say can be compared, and    *)
(* what the struct keeps beside them is what they give.                    *)
(***************************************************************************)
EXTENDS GossipLogs, ArithmeticProofs

U32 == 0..U32Max

\* The number of columns of a file's entries.
Width(k) ==
    CASE k \in {"gossip_backpressure_epoch", "gossip_jitter", "gossip_reachability",
                "gossip_retransmit"} -> 3
      [] k \in {"gossip_backpressure", "gossip_drop_rate", "gossip_fanout_tracker",
                "gossip_ack_latency", "gossip_epoch_window", "gossip_frame_rate",
                "gossip_topology_change", "gossip_latency_tracker", "gossip_peer_churn"} -> 4
      [] k \in {"gossip_broadcast", "gossip_dedup_window", "gossip_delivery_ratio",
                "gossip_epoch_convergence", "gossip_message_size", "gossip_queue_depth",
                "gossip_round_trip_time", "gossip_peer_diversity", "gossip_peer_timeout",
                "gossip_peer_uptime", "gossip_health_snapshot", "gossip_epoch_finalizer",
                "gossip_frame_size_histogram"} -> 5
      [] k \in {"gossip_latency_histogram", "gossip_neighbor_score",
                "gossip_broadcast_summary"} -> 7
      [] k = "gossip_health_report" -> 10
      [] OTHER -> 6

Typed(k, d) == d \in [1..Width(k) -> Int]

\* The top of the range that a range entry flags.
Limit(k) == CASE k = "gossip_message_size" -> 65536
              [] k = "gossip_queue_depth"  -> 1000
              [] OTHER -> 500
RangeKinds == {"gossip_message_size", "gossip_queue_depth", "gossip_round_trip_time"}

AllOf(d) == SaturatingAdd(SaturatingAdd(SaturatingAdd(d[2], d[3]), d[4]), d[5])

\* What the derived columns of an entry are of the others.
Derived(k, d) ==
    /\ k = "gossip_backpressure" => d[4] = Byte(d[2] > d[3])
    /\ k = "gossip_connection_pool" =>
          d[2] \in U32 /\ d[3] \in U32 /\ d[6] = Byte(Pct(d[3], d[2]) < 30)
    /\ k = "gossip_dedup_window" =>
          d[2] \in U32 /\ d[3] \in U32 /\ d[5] = Byte(Pct(d[3], SaturatingAdd(d[2], d[3])) >= 25)
    /\ k = "gossip_delivery_ratio" =>
          d[2] \in U32 /\ d[3] \in 0..d[2] /\ d[5] = DeliveryClass(Pct(d[3], d[2]))
    /\ k = "gossip_drop_rate" =>
          /\ d[2] \in U32 /\ d[3] \in 0..d[2]
          /\ d[4] = IF d[2] = 0 THEN 0 ELSE Pct(d[3], d[2])
    /\ k = "gossip_epoch_bandwidth" =>
          /\ d[2] \in U32 /\ d[3] \in U32 /\ d[4] \in U32
          /\ d[6] = Byte(Pct(d[4], d[2] + d[3]) >= 20)
    /\ k = "gossip_epoch_convergence" =>
          d[2] \in U32 /\ d[3] \in U32 /\ d[5] = Byte(Pct(d[3], d[2]) < 75)
    /\ k = "gossip_epoch_error" =>
          d[2] \in U32 /\ d[4] \in U32 /\ d[6] = Byte(Pct(d[2], d[4]) >= 2)
    /\ k = "gossip_epoch_health" =>
          d[6] = EpochHealthVerdict(d[2], d[3], d[4], d[5]) /\ d[5] \in Flags
    /\ k = "gossip_fanout_epoch" =>
          /\ d[2] \in U32 /\ d[3] \in U32
          /\ d[5] = Byte(Pct(d[2], d[3]) >= 600) /\ d[6] = Byte(Pct(d[2], d[3]) < 200)
    /\ k = "gossip_health_report" =>
          d[10] = NetworkHealthClass(d[5], d[3], d[4], d[6], d[7], d[8]) /\ d[5] >= 0
    /\ k = "gossip_latency_histogram" =>
          /\ d[2] \in U32 /\ d[3] \in U32 /\ d[4] \in U32 /\ d[5] \in U32
          /\ d[7] = Byte(Pct(d[5], AllOf(d)) >= 5)
    /\ k \in RangeKinds =>
          /\ d[2] \in U32 /\ d[3] \in U32
          /\ d[4] = SaturatingAdd(d[2], d[3]) \div 2 /\ d[5] = Byte(d[3] >= Limit(k))
    /\ k = "gossip_peer_diversity" =>
          d[2] \in U32 /\ d[3] \in U32 /\ d[5] = Byte(AtMost(Pct(d[2], d[3]), 100) < 20)
    /\ k = "gossip_peer_timeout" =>
          d[2] \in U32 /\ d[3] \in U32 /\ d[5] = Byte(Pct(d[2], d[3]) >= 10)
    /\ k = "gossip_peer_uptime" =>
          d[2] \in U32 /\ d[3] \in U32 /\ d[5] = Byte(Pct(d[2], d[3]) < 80)
    /\ k = "gossip_ttl_tracker" =>
          d[2] \in U32 /\ d[3] \in U32 /\ d[6] = Byte(Pct(d[3], SaturatingAdd(d[2], d[3])) < 70)
    /\ k = "gossip_window_fill" =>
          /\ d[2] \in U32 /\ d[3] \in U32
          /\ d[5] = Byte(Pct(d[2], d[3]) >= 90) /\ d[6] = Byte(Pct(d[2], d[3]) = 0)
    /\ k = "gossip_epoch_window" => d[4] = GossipWindowState(d[3])
    /\ k = "gossip_neighbor_score" =>
          /\ d[3] \in U32 /\ d[4] \in U32 /\ d[5] \in U32
          /\ d[7] = NeighborTier(SaturatingAdd(SaturatingAdd(d[3], d[4]), d[5]) \div 3)
    /\ k = "gossip_peer_reputation" => d[4] = ReputationClass(d[3])

\* A monitor's policy, and the entries recorded under it.
Policies == [side : {"high", "low"}, threshold : 1..99]
Monitored(policy, d) ==
    d[2] \in Nat /\ d[3] \in Nat /\ d[5] = Byte(flagged(policy, rate_pct(d[2], d[3])))

\* An entry of the file k, a being what is kept beside the entries.
Row(k, a, d) ==
    /\ Typed(k, d) /\ Derived(k, d)
    /\ k = "gossip_broadcast" => Monitored(a[1], d)

\* A window of at most four numbers.
Window(w) == IsSeq(w) /\ Len(w) <= 4 /\ \A i \in 1..Len(w) : w[i] \in Int

\* What each file keeps beside its entries.
Beside(k, a) ==
    /\ k = "gossip_broadcast" => a \in { <<policy>> : policy \in Catalogue }
    /\ k \in {"gossip_epoch_window", "gossip_frame_rate"} => Window(a)
    /\ k \in {"gossip_jitter", "gossip_topology_change"} => Window(a)
    /\ k = "gossip_ack_latency" => \A p \in DOMAIN a : Window(a[p])
    /\ k \in {"gossip_neighbor_score", "gossip_reachability", "gossip_retransmit",
              "gossip_peer_reputation"} => \A p \in DOMAIN a : a[p] \in Int
    /\ k = "gossip_peer_score" => \A p \in DOMAIN a : a[p] \in Nat \X Nat

\* The inductive invariant.
IInv ==
    /\ kind \in RatioKinds \cup CarriedKinds \cup StoredKinds \cup {"gossip_broadcast"}
    /\ IsChain(log, 1..Width(kind))
    /\ \A i \in DOMAIN log : Row(kind, aux, log[i].data)
    /\ Beside(kind, aux)

-----------------------------------------------------------------------------
(* Numbers. *)

\* Shares and saturating sums fit a u32.
LEMMA Fits ==
  ASSUME NEW a \in Nat, NEW b \in Nat
  PROVE  /\ Pct(a, b) \in U32 /\ SaturatingAdd(a, b) \in U32
         /\ SaturatingSub(a, b) \in 0..a
  <1>1. U32Max \in Nat \ {0}
    BY U32MaxAssumption
  <1>2. AtLeastOne(b) \in Nat \ {0} /\ a * 100 \in Nat
    BY DEF AtLeastOne
  <1>3. PICK m, n : m = AtLeastOne(b) /\ n = a * 100
    OBVIOUS
  <1>4. n \div m \in Nat
    BY <1>2, <1>3
  <1>5. Pct(a, b) = (n \div m) % (U32Max + 1)
    BY <1>3 DEF Pct, AsU32
  <1>6. Pct(a, b) \in U32
    BY <1>1, <1>4, <1>5 DEF U32
  <1>7. SaturatingAdd(a, b) \in U32 /\ SaturatingSub(a, b) \in 0..a
    BY <1>1 DEF SaturatingAdd, SaturatingSub, AtMost, U32
  <1> QED
    BY <1>6, <1>7

\* Inputs are u32 and an epoch is a number.
LEMMA Inputs ==
  /\ \A n \in Counts \cup FewCounts : n \in U32
  /\ U32 \subseteq Nat /\ Peers \subseteq Nat /\ U32Max >= 100 /\ U32Max \in Nat
  BY InputsAssumption, U32MaxAssumption DEF U32

\* The epoch of the next entry is a number.
LEMMA EpochIsNat == IInv => Epoch \in Nat
  BY SeqFacts DEF IInv, IsChain, Epoch

-----------------------------------------------------------------------------
(* A log with one more entry. *)

\* What pushing a row does to the invariant.
LEMMA PushKeeps ==
  ASSUME IInv, NEW d, NEW a, Push(d, a), Row(kind, aux, d), Beside(kind, a),
         kind = "gossip_broadcast" => a = aux
  PROVE  IInv'
  <1>1. PICK F : F = 1..Width(kind)
    OBVIOUS
  <1>2. d \in [F -> Int] /\ DOMAIN d = F
    BY <1>1 DEF Row, Typed
  <1>3. /\ log' = ChainPush(log, d, F) /\ aux' = a /\ kind' = kind
    BY <1>2 DEF Push
  <1>4. IsChain(log, F)
    BY <1>1 DEF IInv
  <1>5. IsChain(log', F)
    BY <1>2, <1>3, <1>4, PushKeepsChain
  <1>6. PICK e : log' = Append(log, e) /\ e.data = d
    BY <1>3 DEF ChainPush
  <1>7. /\ DOMAIN log = 1..Len(log) /\ DOMAIN log' = 1..(Len(log) + 1) /\ Len(log) \in Nat
        /\ log'[Len(log) + 1].data = d
        /\ \A i \in 1..Len(log) : log'[i] = log[i]
    <2>1. IsSeq(log)
      BY <1>4 DEF IsChain
    <2>2. /\ Len(log) \in Nat /\ DOMAIN log = 1..Len(log)
          /\ DOMAIN Append(log, e) = 1..(Len(log) + 1)
          /\ \A i \in 1..Len(log) : Append(log, e)[i] = log[i]
          /\ Append(log, e)[Len(log) + 1] = e
      BY <2>1, AppendSeq
    <2> QED BY <1>6, <2>2
  <1>8. ASSUME NEW i \in DOMAIN log' PROVE Row(kind, a, log'[i].data)
    <2>1. CASE i = Len(log) + 1
      BY <1>7, <2>1 DEF Row
    <2>2. CASE i \in 1..Len(log)
      <3>1. Row(kind, aux, log[i].data)
        BY <1>7, <2>2 DEF IInv
      <3> QED BY <1>7, <2>2, <3>1 DEF Row
    <2> QED BY <1>7, <2>1, <2>2
  <1> QED
    BY <1>1, <1>3, <1>5, <1>8 DEF IInv

\* Row by row: what each file whose struct keeps nothing beside its entries
\* appends.
LEMMA PlainRows ==
  ASSUME IInv,
         \/ gossip_backpressure      \/ gossip_backpressure_epoch \/ gossip_connection_pool
         \/ gossip_dedup_window      \/ gossip_delivery_ratio     \/ gossip_drop_rate
         \/ gossip_epoch_bandwidth   \/ gossip_epoch_convergence  \/ gossip_epoch_error
         \/ gossip_epoch_health      \/ gossip_fanout_epoch       \/ gossip_fanout_tracker
         \/ gossip_health_report     \/ gossip_message_size       \/ gossip_queue_depth
         \/ gossip_round_trip_time   \/ gossip_peer_diversity     \/ gossip_peer_timeout
         \/ gossip_peer_uptime       \/ gossip_window_fill        \/ gossip_broadcast_summary
         \/ gossip_epoch_seal        \/ gossip_health_snapshot    \/ gossip_epoch_finalizer
         \/ gossip_latency_tracker   \/ gossip_peer_churn         \/ gossip_pipeline_summary
  PROVE  \E d : Push(d, aux) /\ Row(kind, aux, d) /\ kind # "gossip_broadcast"
  <1> USE Inputs, EpochIsNat DEF Row, Typed, Width, Derived, RangeKinds
  <1>1. ASSUME gossip_backpressure
       PROVE  \E d : Push(d, aux) /\ Row(kind, aux, d) /\ kind # "gossip_broadcast"
    <2>1. PICK depth, threshold \in Counts :
               kind = "gossip_backpressure"
                 /\ Push(<<Epoch, depth, threshold, Byte(depth > threshold)>>, aux)
      BY <1>1 DEF gossip_backpressure, Of
    <2>2. PICK d : d = <<Epoch, depth, threshold, Byte(depth > threshold)>>
      OBVIOUS
    <2>3. Row(kind, aux, d)
      BY <2>1, <2>2 DEF Byte
    <2> QED BY <2>1, <2>2, <2>3
  <1>2. ASSUME gossip_backpressure_epoch
       PROVE  \E d : Push(d, aux) /\ Row(kind, aux, d) /\ kind # "gossip_broadcast"
    <2>1. PICK events \in Counts :
               kind = "gossip_backpressure_epoch"
                 /\ Push(<<Epoch, events, Byte(events >= 10)>>, aux)
      BY <1>2 DEF gossip_backpressure_epoch, Of
    <2>2. PICK d : d = <<Epoch, events, Byte(events >= 10)>>
      OBVIOUS
    <2>3. Row(kind, aux, d)
      BY <2>1, <2>2 DEF Byte
    <2> QED BY <2>1, <2>2, <2>3
  <1>3. ASSUME gossip_connection_pool
       PROVE  \E d : Push(d, aux) /\ Row(kind, aux, d) /\ kind # "gossip_broadcast"
    <2>1. PICK pool, active \in Counts :
               kind = "gossip_connection_pool"
                 /\ Push(<<Epoch, pool, active, SaturatingSub(pool, active), Pct(active, pool),
              Byte(Pct(active, pool) < 30)>>, aux)
      BY <1>3 DEF gossip_connection_pool, Of
    <2>2. Pct(active, pool) \in U32 /\ SaturatingSub(pool, active) \in Nat
      <3>1. pool \in Nat /\ active \in Nat
        BY Inputs
      <3> QED BY <3>1, Fits
    <2>3. PICK d : d = <<Epoch, pool, active, SaturatingSub(pool, active), Pct(active, pool),
              Byte(Pct(active, pool) < 30)>>
      OBVIOUS
    <2>4. Row(kind, aux, d)
      BY <2>1, <2>2, <2>3 DEF Byte
    <2> QED BY <2>1, <2>3, <2>4
  <1>4. ASSUME gossip_dedup_window
       PROVE  \E d : Push(d, aux) /\ Row(kind, aux, d) /\ kind # "gossip_broadcast"
    <2>1. PICK seen, dup \in Counts :
               kind = "gossip_dedup_window"
                 /\ Push(<<Epoch, seen, dup, Pct(dup, SaturatingAdd(seen, dup)),
              Byte(Pct(dup, SaturatingAdd(seen, dup)) >= 25)>>, aux)
      BY <1>4 DEF gossip_dedup_window, Of
    <2>2. Pct(dup, SaturatingAdd(seen, dup)) \in U32
      <3>1. seen \in Nat /\ dup \in Nat
        BY Inputs
      <3>2. SaturatingAdd(seen, dup) \in U32
        BY <3>1, Fits
      <3> QED BY <3>1, <3>2, Fits
    <2>3. PICK d : d = <<Epoch, seen, dup, Pct(dup, SaturatingAdd(seen, dup)),
              Byte(Pct(dup, SaturatingAdd(seen, dup)) >= 25)>>
      OBVIOUS
    <2>4. Row(kind, aux, d)
      BY <2>1, <2>2, <2>3 DEF Byte
    <2> QED BY <2>1, <2>3, <2>4
  <1>5. ASSUME gossip_delivery_ratio
       PROVE  \E d : Push(d, aux) /\ Row(kind, aux, d) /\ kind # "gossip_broadcast"
    <2>1. PICK dispatched, acked \in Counts :
               kind = "gossip_delivery_ratio"
                 /\ Push(<<Epoch, dispatched, AtMost(acked, dispatched),
                           Pct(AtMost(acked, dispatched), dispatched),
              DeliveryClass(Pct(AtMost(acked, dispatched), dispatched))>>, aux)
      BY <1>5 DEF gossip_delivery_ratio, Of
    <2>2. AtMost(acked, dispatched) \in 0..dispatched
          /\ Pct(AtMost(acked, dispatched), dispatched) \in U32
      <3>1. dispatched \in Nat /\ acked \in Nat
        BY Inputs
      <3>2. AtMost(acked, dispatched) \in 0..dispatched
        BY <3>1 DEF AtMost
      <3> QED BY <3>1, <3>2, Fits
    <2>3. PICK d : d = <<Epoch, dispatched, AtMost(acked, dispatched),
                         Pct(AtMost(acked, dispatched), dispatched),
              DeliveryClass(Pct(AtMost(acked, dispatched), dispatched))>>
      OBVIOUS
    <2>4. Row(kind, aux, d)
      BY <2>1, <2>2, <2>3 DEF DeliveryClass
    <2> QED BY <2>1, <2>3, <2>4
  <1>6. ASSUME gossip_drop_rate
       PROVE  \E d : Push(d, aux) /\ Row(kind, aux, d) /\ kind # "gossip_broadcast"
    <2>1. PICK dispatched, delivered \in Counts :
               kind = "gossip_drop_rate"
                 /\ Push(<<Epoch, dispatched, SaturatingSub(dispatched, delivered),
              IF dispatched = 0 THEN 0 ELSE Pct(SaturatingSub(dispatched, delivered),
                    dispatched)>>, aux)
      BY <1>6 DEF gossip_drop_rate, Of
    <2>2. SaturatingSub(dispatched, delivered) \in 0..dispatched
          /\ Pct(SaturatingSub(dispatched, delivered), dispatched) \in U32
      <3>1. dispatched \in Nat /\ delivered \in Nat
        BY Inputs
      <3>2. SaturatingSub(dispatched, delivered) \in 0..dispatched
        BY <3>1, Fits
      <3> QED BY <3>1, <3>2, Fits
    <2>3. PICK d : d = <<Epoch, dispatched, SaturatingSub(dispatched, delivered),
              IF dispatched = 0 THEN 0 ELSE Pct(SaturatingSub(dispatched, delivered),
                    dispatched)>>
      OBVIOUS
    <2>4. Row(kind, aux, d)
      BY <2>1, <2>2, <2>3
    <2> QED BY <2>1, <2>3, <2>4
  <1>7. ASSUME gossip_epoch_bandwidth
       PROVE  \E d : Push(d, aux) /\ Row(kind, aux, d) /\ kind # "gossip_broadcast"
    <2>1. PICK sent, received, overhead \in FewCounts :
               kind = "gossip_epoch_bandwidth"
                 /\ Push(<<Epoch, sent, received, overhead, Pct(overhead, sent + received),
              Byte(Pct(overhead, sent + received) >= 20)>>, aux)
      BY <1>7 DEF gossip_epoch_bandwidth, Of
    <2>2. Pct(overhead, sent + received) \in U32
      <3>1. sent \in Nat /\ received \in Nat /\ overhead \in Nat
        BY Inputs
      <3> QED BY <3>1, Fits
    <2>3. PICK d : d = <<Epoch, sent, received, overhead, Pct(overhead, sent + received),
              Byte(Pct(overhead, sent + received) >= 20)>>
      OBVIOUS
    <2>4. Row(kind, aux, d)
      BY <2>1, <2>2, <2>3 DEF Byte
    <2> QED BY <2>1, <2>3, <2>4
  <1>8. ASSUME gossip_epoch_convergence
       PROVE  \E d : Push(d, aux) /\ Row(kind, aux, d) /\ kind # "gossip_broadcast"
    <2>1. PICK peers, converged \in Counts :
               kind = "gossip_epoch_convergence"
                 /\ Push(<<Epoch, peers, converged, Pct(converged, peers),
                           Byte(Pct(converged, peers) < 75)>>, aux)
      BY <1>8 DEF gossip_epoch_convergence, Of
    <2>2. Pct(converged, peers) \in U32
      <3>1. peers \in Nat /\ converged \in Nat
        BY Inputs
      <3> QED BY <3>1, Fits
    <2>3. PICK d : d = <<Epoch, peers, converged, Pct(converged, peers),
                         Byte(Pct(converged, peers) < 75)>>
      OBVIOUS
    <2>4. Row(kind, aux, d)
      BY <2>1, <2>2, <2>3 DEF Byte
    <2> QED BY <2>1, <2>3, <2>4
  <1>9. ASSUME gossip_epoch_error
       PROVE  \E d : Push(d, aux) /\ Row(kind, aux, d) /\ kind # "gossip_broadcast"
    <2>1. PICK errors, warnings, events \in FewCounts :
               kind = "gossip_epoch_error"
                 /\ Push(<<Epoch, errors, warnings, events, Pct(errors, events),
                           Byte(Pct(errors, events) >= 2)>>, aux)
      BY <1>9 DEF gossip_epoch_error, Of
    <2>2. Pct(errors, events) \in U32
      <3>1. errors \in Nat /\ warnings \in Nat /\ events \in Nat
        BY Inputs
      <3> QED BY <3>1, Fits
    <2>3. PICK d : d = <<Epoch, errors, warnings, events, Pct(errors, events),
                         Byte(Pct(errors, events) >= 2)>>
      OBVIOUS
    <2>4. Row(kind, aux, d)
      BY <2>1, <2>2, <2>3 DEF Byte
    <2> QED BY <2>1, <2>3, <2>4
  <1>10. ASSUME gossip_epoch_health
       PROVE  \E d : Push(d, aux) /\ Row(kind, aux, d) /\ kind # "gossip_broadcast"
    <2>0. kind = "gossip_epoch_health"
          /\ \E ratio \in {49, 50, 79, 80}, drop \in {10, 11, 50, 51},
               churn \in {5, 6, 20, 21}, pressure \in Flags :
               Push(<<Epoch, ratio, drop, churn, pressure,
                     EpochHealthVerdict(ratio, drop, churn, pressure)>>, aux)
      BY <1>10 DEF gossip_epoch_health, Of
    <2>1. PICK ratio \in {49, 50, 79, 80}, drop \in {10, 11, 50, 51},
               churn \in {5, 6, 20, 21}, pressure \in Flags :
               Push(<<Epoch, ratio, drop, churn, pressure,
                     EpochHealthVerdict(ratio, drop, churn, pressure)>>, aux)
      BY <2>0, Zenon
    <2>2. EpochHealthVerdict(ratio, drop, churn, pressure) \in 0..2
      BY Fits DEF EpochHealthVerdict
    <2>3. PICK d : d = <<Epoch, ratio, drop, churn, pressure,
                         EpochHealthVerdict(ratio, drop, churn, pressure)>>
      OBVIOUS
    <2>4. Row(kind, aux, d)
      BY <2>0, <2>1, <2>2, <2>3 DEF Flags
    <2> QED BY <2>0, <2>1, <2>3, <2>4
  <1>11. ASSUME gossip_fanout_epoch
       PROVE  \E d : Push(d, aux) /\ Row(kind, aux, d) /\ kind # "gossip_broadcast"
    <2>1. PICK forwards, messages \in Counts :
               kind = "gossip_fanout_epoch"
                 /\ Push(<<Epoch, forwards, messages, Pct(forwards, messages),
              Byte(Pct(forwards, messages) >= 600), Byte(Pct(forwards, messages) < 200)>>, aux)
      BY <1>11 DEF gossip_fanout_epoch, Of
    <2>2. Pct(forwards, messages) \in U32
      <3>1. forwards \in Nat /\ messages \in Nat
        BY Inputs
      <3> QED BY <3>1, Fits
    <2>3. PICK d : d = <<Epoch, forwards, messages, Pct(forwards, messages),
              Byte(Pct(forwards, messages) >= 600), Byte(Pct(forwards, messages) < 200)>>
      OBVIOUS
    <2>4. Row(kind, aux, d)
      BY <2>1, <2>2, <2>3 DEF Byte
    <2> QED BY <2>1, <2>3, <2>4
  <1>12. ASSUME gossip_fanout_tracker
       PROVE  \E d : Push(d, aux) /\ Row(kind, aux, d) /\ kind # "gossip_broadcast"
    <2>1. PICK peers, reached \in Counts :
               kind = "gossip_fanout_tracker"
                 /\ Push(<<Epoch, peers, reached, IF peers = 0 THEN 0 ELSE Pct(reached, peers)>>,
                           aux)
      BY <1>12 DEF gossip_fanout_tracker, Of
    <2>2. Pct(reached, peers) \in U32
      <3>1. peers \in Nat /\ reached \in Nat
        BY Inputs
      <3> QED BY <3>1, Fits
    <2>3. PICK d : d = <<Epoch, peers, reached, IF peers = 0 THEN 0 ELSE Pct(reached, peers)>>
      OBVIOUS
    <2>4. Row(kind, aux, d)
      BY <2>1, <2>2, <2>3
    <2> QED BY <2>1, <2>3, <2>4
  <1>13. ASSUME gossip_health_report
       PROVE  \E d : Push(d, aux) /\ Row(kind, aux, d) /\ kind # "gossip_broadcast"
    <2>0. kind = "gossip_health_report" /\ \E degraded, suspect, dead \in Flags,
               dropped \in {99, 100}, exceeded \in {2, 3}, gaps \in {0, 9, 10} :
               Push(<<Epoch, Epoch, degraded, suspect, dead, dropped, exceeded, gaps, Epoch,
              NetworkHealthClass(dead, degraded, suspect, dropped, exceeded, gaps)>>, aux)
      BY <1>13 DEF gossip_health_report, Of
    <2>1. PICK degraded, suspect, dead \in Flags,
               dropped \in {99, 100}, exceeded \in {2, 3}, gaps \in {0, 9, 10} :
               Push(<<Epoch, Epoch, degraded, suspect, dead, dropped, exceeded, gaps, Epoch,
              NetworkHealthClass(dead, degraded, suspect, dropped, exceeded, gaps)>>, aux)
      BY <2>0, Zenon
    <2>2. NetworkHealthClass(dead, degraded, suspect, dropped, exceeded, gaps) \in 0..2
      BY Fits DEF NetworkHealthClass
    <2>3. PICK d : d = <<Epoch, Epoch, degraded, suspect, dead, dropped, exceeded, gaps, Epoch,
              NetworkHealthClass(dead, degraded, suspect, dropped, exceeded, gaps)>>
      OBVIOUS
    <2>4. Row(kind, aux, d)
      BY <2>0, <2>1, <2>2, <2>3 DEF Flags
    <2> QED BY <2>0, <2>1, <2>3, <2>4
  <1>14. ASSUME gossip_message_size
       PROVE  \E d : Push(d, aux) /\ Row(kind, aux, d) /\ kind # "gossip_broadcast"
    <2>1. PICK low, high \in Counts :
               kind = "gossip_message_size" /\ Push(RangeEntry(low, high, 65536), aux)
      BY <1>14 DEF gossip_message_size, Of
    <2>2. SaturatingAdd(low, high) \in U32
      <3>1. low \in Nat /\ high \in Nat
        BY Inputs
      <3> QED BY <3>1, Fits
    <2>3. PICK d : d = RangeEntry(low, high, 65536)
      OBVIOUS
    <2>4. Row(kind, aux, d)
      BY <2>1, <2>2, <2>3 DEF Byte, RangeEntry, Limit
    <2> QED BY <2>1, <2>3, <2>4
  <1>15. ASSUME gossip_queue_depth
       PROVE  \E d : Push(d, aux) /\ Row(kind, aux, d) /\ kind # "gossip_broadcast"
    <2>1. PICK low, high \in Counts :
               kind = "gossip_queue_depth" /\ Push(RangeEntry(low, high, 1000), aux)
      BY <1>15 DEF gossip_queue_depth, Of
    <2>2. SaturatingAdd(low, high) \in U32
      <3>1. low \in Nat /\ high \in Nat
        BY Inputs
      <3> QED BY <3>1, Fits
    <2>3. PICK d : d = RangeEntry(low, high, 1000)
      OBVIOUS
    <2>4. Row(kind, aux, d)
      BY <2>1, <2>2, <2>3 DEF Byte, RangeEntry, Limit
    <2> QED BY <2>1, <2>3, <2>4
  <1>16. ASSUME gossip_round_trip_time
       PROVE  \E d : Push(d, aux) /\ Row(kind, aux, d) /\ kind # "gossip_broadcast"
    <2>1. PICK low, high \in Counts :
               kind = "gossip_round_trip_time" /\ Push(RangeEntry(low, high, 500), aux)
      BY <1>16 DEF gossip_round_trip_time, Of
    <2>2. SaturatingAdd(low, high) \in U32
      <3>1. low \in Nat /\ high \in Nat
        BY Inputs
      <3> QED BY <3>1, Fits
    <2>3. PICK d : d = RangeEntry(low, high, 500)
      OBVIOUS
    <2>4. Row(kind, aux, d)
      BY <2>1, <2>2, <2>3 DEF Byte, RangeEntry, Limit
    <2> QED BY <2>1, <2>3, <2>4
  <1>17. ASSUME gossip_peer_diversity
       PROVE  \E d : Push(d, aux) /\ Row(kind, aux, d) /\ kind # "gossip_broadcast"
    <2>1. PICK zones, peers \in Counts :
               kind = "gossip_peer_diversity"
                 /\ Push(<<Epoch, zones, peers, AtMost(Pct(zones, peers), 100),
                           Byte(AtMost(Pct(zones, peers), 100) < 20)>>, aux)
      BY <1>17 DEF gossip_peer_diversity, Of
    <2>2. AtMost(Pct(zones, peers), 100) \in Nat
      <3>1. zones \in Nat /\ peers \in Nat
        BY Inputs
      <3>2. Pct(zones, peers) \in U32
        BY <3>1, Fits
      <3> QED BY <3>1, <3>2, Fits DEF AtMost
    <2>3. PICK d : d = <<Epoch, zones, peers, AtMost(Pct(zones, peers), 100),
                         Byte(AtMost(Pct(zones, peers), 100) < 20)>>
      OBVIOUS
    <2>4. Row(kind, aux, d)
      BY <2>1, <2>2, <2>3 DEF Byte
    <2> QED BY <2>1, <2>3, <2>4
  <1>18. ASSUME gossip_peer_timeout
       PROVE  \E d : Push(d, aux) /\ Row(kind, aux, d) /\ kind # "gossip_broadcast"
    <2>1. PICK timeouts, active \in Counts :
               kind = "gossip_peer_timeout"
                 /\ Push(<<Epoch, timeouts, active, Pct(timeouts, active),
                           Byte(Pct(timeouts, active) >= 10)>>, aux)
      BY <1>18 DEF gossip_peer_timeout, Of
    <2>2. Pct(timeouts, active) \in U32
      <3>1. timeouts \in Nat /\ active \in Nat
        BY Inputs
      <3> QED BY <3>1, Fits
    <2>3. PICK d : d = <<Epoch, timeouts, active, Pct(timeouts, active),
                         Byte(Pct(timeouts, active) >= 10)>>
      OBVIOUS
    <2>4. Row(kind, aux, d)
      BY <2>1, <2>2, <2>3 DEF Byte
    <2> QED BY <2>1, <2>3, <2>4
  <1>19. ASSUME gossip_peer_uptime
       PROVE  \E d : Push(d, aux) /\ Row(kind, aux, d) /\ kind # "gossip_broadcast"
    <2>1. PICK connected, ticks \in Counts :
               kind = "gossip_peer_uptime"
                 /\ Push(<<Epoch, connected, ticks, Pct(connected, ticks),
                           Byte(Pct(connected, ticks) < 80)>>, aux)
      BY <1>19 DEF gossip_peer_uptime, Of
    <2>2. Pct(connected, ticks) \in U32
      <3>1. connected \in Nat /\ ticks \in Nat
        BY Inputs
      <3> QED BY <3>1, Fits
    <2>3. PICK d : d = <<Epoch, connected, ticks, Pct(connected, ticks),
                         Byte(Pct(connected, ticks) < 80)>>
      OBVIOUS
    <2>4. Row(kind, aux, d)
      BY <2>1, <2>2, <2>3 DEF Byte
    <2> QED BY <2>1, <2>3, <2>4
  <1>20. ASSUME gossip_window_fill
       PROVE  \E d : Push(d, aux) /\ Row(kind, aux, d) /\ kind # "gossip_broadcast"
    <2>1. PICK used, slots \in Counts :
               kind = "gossip_window_fill"
                 /\ Push(<<Epoch, used, slots, Pct(used, slots), Byte(Pct(used, slots) >= 90),
                           Byte(Pct(used, slots) = 0)>>, aux)
      BY <1>20 DEF gossip_window_fill, Of
    <2>2. Pct(used, slots) \in U32
      <3>1. used \in Nat /\ slots \in Nat
        BY Inputs
      <3> QED BY <3>1, Fits
    <2>3. PICK d : d = <<Epoch, used, slots, Pct(used, slots), Byte(Pct(used, slots) >= 90),
                         Byte(Pct(used, slots) = 0)>>
      OBVIOUS
    <2>4. Row(kind, aux, d)
      BY <2>1, <2>2, <2>3 DEF Byte
    <2> QED BY <2>1, <2>3, <2>4
  <1>21. ASSUME gossip_broadcast_summary
       PROVE  \E d : Push(d, aux) /\ Row(kind, aux, d) /\ kind # "gossip_broadcast"
    <2>1. PICK dispatched, delivered \in FewCounts, valid, failed \in Flags :
               kind = "gossip_broadcast_summary"
                 /\ Push(<<Epoch, dispatched, delivered, valid, failed, 0, failed>>, aux)
      BY <1>21 DEF gossip_broadcast_summary, Of
    <2>2. PICK d : d = <<Epoch, dispatched, delivered, valid, failed, 0, failed>>
      OBVIOUS
    <2>3. Row(kind, aux, d)
      BY <2>1, <2>2 DEF Flags
    <2> QED BY <2>1, <2>2, <2>3
  <1>22. ASSUME gossip_epoch_seal
       PROVE  \E d : Push(d, aux) /\ Row(kind, aux, d) /\ kind # "gossip_broadcast"
    <2>1. PICK coverage, latency, avg \in FewCounts, state \in 0..2 :
               kind = "gossip_epoch_seal"
                 /\ Push(<<Epoch, coverage, latency, avg, state, coverage>>, aux)
      BY <1>22 DEF gossip_epoch_seal, Of
    <2>2. PICK d : d = <<Epoch, coverage, latency, avg, state, coverage>>
      OBVIOUS
    <2>3. Row(kind, aux, d)
      BY <2>1, <2>2
    <2> QED BY <2>1, <2>2, <2>3
  <1>23. ASSUME gossip_health_snapshot
       PROVE  \E d : Push(d, aux) /\ Row(kind, aux, d) /\ kind # "gossip_broadcast"
    <2>1. PICK coverage, latency, avg \in FewCounts, state \in 0..2 :
               kind = "gossip_health_snapshot"
                 /\ Push(<<Epoch, coverage, latency, avg, state>>, aux)
      BY <1>23 DEF gossip_health_snapshot, Of
    <2>2. PICK d : d = <<Epoch, coverage, latency, avg, state>>
      OBVIOUS
    <2>3. Row(kind, aux, d)
      BY <2>1, <2>2
    <2> QED BY <2>1, <2>2, <2>3
  <1>24. ASSUME gossip_epoch_finalizer
       PROVE  \E d : Push(d, aux) /\ Row(kind, aux, d) /\ kind # "gossip_broadcast"
    <2>1. PICK epoch \in 1..(WindowLen + 1), trusted, blocked \in Flags :
               kind = "gossip_epoch_finalizer" /\ Push(<<epoch, epoch, 1, trusted, blocked>>, aux)
      BY <1>24 DEF gossip_epoch_finalizer, WindowOf
    <2>2. PICK d : d = <<epoch, epoch, 1, trusted, blocked>>
      OBVIOUS
    <2>3. Row(kind, aux, d)
      BY <2>1, <2>2 DEF Flags
    <2> QED BY <2>1, <2>2, <2>3
  <1>25. ASSUME gossip_latency_tracker
       PROVE  \E d : Push(d, aux) /\ Row(kind, aux, d) /\ kind # "gossip_broadcast"
    <2>1. PICK peer \in Peers, sent, acked \in FewCounts :
               kind = "gossip_latency_tracker"
                 /\ Push(<<peer, sent, acked, SaturatingSub(acked, sent)>>, aux)
      BY <1>25 DEF gossip_latency_tracker, Of
    <2>2. SaturatingSub(acked, sent) \in Nat
      <3>1. sent \in Nat /\ acked \in Nat
        BY Inputs
      <3> QED BY <3>1, Fits
    <2>3. PICK d : d = <<peer, sent, acked, SaturatingSub(acked, sent)>>
      OBVIOUS
    <2>4. Row(kind, aux, d)
      BY <2>1, <2>2, <2>3
    <2> QED BY <2>1, <2>3, <2>4
  <1>26. ASSUME gossip_peer_churn
       PROVE  \E d : Push(d, aux) /\ Row(kind, aux, d) /\ kind # "gossip_broadcast"
    <2>1. PICK joins, leaves \in Counts :
               kind = "gossip_peer_churn"
                 /\ Push(<<Epoch, joins, leaves, SaturatingAdd(joins, leaves)>>, aux)
      BY <1>26 DEF gossip_peer_churn, Of
    <2>2. SaturatingAdd(joins, leaves) \in U32
      <3>1. joins \in Nat /\ leaves \in Nat
        BY Inputs
      <3> QED BY <3>1, Fits
    <2>3. PICK d : d = <<Epoch, joins, leaves, SaturatingAdd(joins, leaves)>>
      OBVIOUS
    <2>4. Row(kind, aux, d)
      BY <2>1, <2>2, <2>3
    <2> QED BY <2>1, <2>3, <2>4
  <1>27. ASSUME gossip_pipeline_summary
       PROVE  \E d : Push(d, aux) /\ Row(kind, aux, d) /\ kind # "gossip_broadcast"
    <2>1. PICK retransmits, latency, churn \in FewCounts, verdict \in 0..2 :
               kind = "gossip_pipeline_summary"
                 /\ Push(<<Epoch, retransmits, latency, 100, churn, verdict>>, aux)
      BY <1>27 DEF gossip_pipeline_summary, Of
    <2>2. PICK d : d = <<Epoch, retransmits, latency, 100, churn, verdict>>
      OBVIOUS
    <2>3. Row(kind, aux, d)
      BY <2>1, <2>2
    <2> QED BY <2>1, <2>2, <2>3
  <1> QED
    BY <1>1, <1>2, <1>3, <1>4, <1>5, <1>6, <1>7, <1>8, <1>9, <1>10, <1>11, <1>12, <1>13,
       <1>14, <1>15, <1>16, <1>17, <1>18, <1>19, <1>20, <1>21, <1>22, <1>23, <1>24, <1>25,
       <1>26, <1>27

\* The three files that sum their counts with saturation.
LEMMA SummedRows ==
  ASSUME IInv,
         gossip_latency_histogram \/ gossip_ttl_tracker \/ gossip_frame_size_histogram
  PROVE  \E d : Push(d, aux) /\ Row(kind, aux, d) /\ kind # "gossip_broadcast"
  <1> USE Inputs, EpochIsNat DEF Row, Typed, Width, Derived, RangeKinds
  <1>1. ASSUME gossip_latency_histogram
        PROVE  \E d : Push(d, aux) /\ Row(kind, aux, d) /\ kind # "gossip_broadcast"
    <2>1. PICK fast, normal, slow, stall \in FewCounts :
             LET all == SaturatingAdd(SaturatingAdd(SaturatingAdd(fast, normal), slow), stall)
             IN  /\ kind = "gossip_latency_histogram"
                 /\ Push(<<Epoch, fast, normal, slow, stall, Pct(stall, all),
                           Byte(Pct(stall, all) >= 5)>>, aux)
      BY <1>1 DEF gossip_latency_histogram, Of
    <2>2. fast \in Nat /\ normal \in Nat /\ slow \in Nat /\ stall \in Nat
      BY Inputs
    <2>3. PICK all : all = SaturatingAdd(SaturatingAdd(SaturatingAdd(fast, normal), slow), stall)
      OBVIOUS
    <2>4. all \in Nat
      <3>1. SaturatingAdd(fast, normal) \in Nat
        BY <2>2, Fits
      <3>2. SaturatingAdd(SaturatingAdd(fast, normal), slow) \in Nat
        BY <2>2, <3>1, Fits
      <3> QED BY <2>2, <2>3, <3>2, Fits
    <2>5. Pct(stall, all) \in Nat
      BY <2>2, <2>4, Fits
    <2>6. PICK d : d = <<Epoch, fast, normal, slow, stall, Pct(stall, all),
                         Byte(Pct(stall, all) >= 5)>>
      OBVIOUS
    <2>7. d[2] = fast /\ d[3] = normal /\ d[4] = slow /\ d[5] = stall
          /\ d[7] = Byte(Pct(stall, all) >= 5)
      BY <2>6
    <2>8. AllOf(d) = all
      BY <2>3, <2>7 DEF AllOf
    <2>9. Typed(kind, d)
      BY <2>1, <2>2, <2>5, <2>6 DEF Byte
    <2>10. Row(kind, aux, d)
      BY <2>1, <2>7, <2>8, <2>9
    <2> QED BY <2>1, <2>3, <2>6, <2>10
  <1>2. ASSUME gossip_ttl_tracker
        PROVE  \E d : Push(d, aux) /\ Row(kind, aux, d) /\ kind # "gossip_broadcast"
    <2>1. PICK expired, delivered, hops \in FewCounts :
             LET pct == Pct(delivered, SaturatingAdd(expired, delivered))
             IN  /\ kind = "gossip_ttl_tracker"
                 /\ Push(<<Epoch, expired, delivered,
                           AsU32((hops * 10) \div AtLeastOne(delivered)), pct, Byte(pct < 70)>>,
                                 aux)
      BY <1>2 DEF gossip_ttl_tracker, Of
    <2>2. expired \in Nat /\ delivered \in Nat /\ hops \in Nat
      BY Inputs
    <2>3. SaturatingAdd(expired, delivered) \in Nat
      BY <2>2, Fits
    <2>4. PICK pct, h : /\ pct = Pct(delivered, SaturatingAdd(expired, delivered))
                        /\ h = AsU32((hops * 10) \div AtLeastOne(delivered))
      OBVIOUS
    <2>5. pct \in Nat
      BY <2>2, <2>3, <2>4, Fits
    <2>6. h \in Int
      <3>1. AtLeastOne(delivered) \in Nat \ {0} /\ hops * 10 \in Nat
        BY <2>2 DEF AtLeastOne
      <3>2. (hops * 10) \div AtLeastOne(delivered) \in Nat
        BY <3>1
      <3> QED BY <2>4, <3>2 DEF AsU32
    <2>7. PICK d : d = <<Epoch, expired, delivered, h, pct, Byte(pct < 70)>>
      OBVIOUS
    <2>8. Row(kind, aux, d)
      BY <2>1, <2>2, <2>4, <2>5, <2>6, <2>7 DEF Byte
    <2> QED BY <2>1, <2>4, <2>7, <2>8
  <1>3. ASSUME gossip_frame_size_histogram
        PROVE  \E d : Push(d, aux) /\ Row(kind, aux, d) /\ kind # "gossip_broadcast"
    <2>1. PICK small, medium, large \in FewCounts :
             /\ kind = "gossip_frame_size_histogram"
             /\ Push(<<Epoch, small, medium, large,
                       SaturatingAdd(SaturatingAdd(small, medium), large)>>, aux)
      BY <1>3 DEF gossip_frame_size_histogram, Of
    <2>2. PICK all : all = SaturatingAdd(SaturatingAdd(small, medium), large)
      OBVIOUS
    <2>3. all \in Nat
      BY <2>2, Fits, Inputs
    <2>4. PICK d : d = <<Epoch, small, medium, large, all>>
      OBVIOUS
    <2>5. Row(kind, aux, d)
      BY <2>1, <2>3, <2>4
    <2> QED BY <2>1, <2>2, <2>4, <2>5
  <1> QED
    BY <1>1, <1>2, <1>3

\* The 185 rate monitors flag a side of a threshold between 1 and 99.
LEMMA CatalogueIsPolicies == \A p \in Catalogue : p \in Policies
  <1>1. \A t \in 1..99 : High(t) \in Policies /\ Low(t) \in Policies
    BY DEF High, Low, Policies
  <1>2. SUFFICES ASSUME NEW p \in Catalogue PROVE \E t \in 1..99 : p = High(t) \/ p = Low(t)
    BY <1>1
  <1> QED
    BY <1>2 DEF Catalogue,
       gossip_broadcast_ack, gossip_broadcast_ack_delay_e5,
       gossip_broadcast_ack_delay_e6, gossip_broadcast_ack_timeout,
       gossip_broadcast_ack_timeout_e3, gossip_broadcast_ack_timeout_e4,
       gossip_broadcast_auth_fail_e6, gossip_broadcast_backpressure_e3,
       gossip_broadcast_backpressure_e4, gossip_broadcast_backpressure_e5,
       gossip_broadcast_backpressure_e6, gossip_broadcast_bandwidth_exceed,
       gossip_broadcast_bandwidth_exceed_e3, gossip_broadcast_bandwidth_exceed_e4,
       gossip_broadcast_batch, gossip_broadcast_batch_e3, gossip_broadcast_batch_e4,
       gossip_broadcast_broadcast_drop, gossip_broadcast_broadcast_drop_e3,
       gossip_broadcast_broadcast_drop_e4, gossip_broadcast_broadcast_storm_e5,
       gossip_broadcast_buffer_overflow_e5, gossip_broadcast_buffer_overflow_e6,
       gossip_broadcast_capacity_breach, gossip_broadcast_capacity_breach_e3,
       gossip_broadcast_capacity_breach_e4, gossip_broadcast_cert_expire_e6,
       gossip_broadcast_cert_reject_e5, gossip_broadcast_collision,
       gossip_broadcast_collision_e3, gossip_broadcast_collision_e4,
       gossip_broadcast_congestion, gossip_broadcast_congestion_e3,
       gossip_broadcast_congestion_e4, gossip_broadcast_consensus_lag_e5,
       gossip_broadcast_crc_fail_e6, gossip_broadcast_crypto_fail_e5,
       gossip_broadcast_dedup_miss, gossip_broadcast_dedup_miss_e3,
       gossip_broadcast_dedup_miss_e4, gossip_broadcast_dedup_miss_e6,
       gossip_broadcast_drop, gossip_broadcast_drop_cascade_e5,
       gossip_broadcast_drop_cascade_e6, gossip_broadcast_duplicate,
       gossip_broadcast_duplicate_e3, gossip_broadcast_duplicate_e4,
       gossip_broadcast_echo_detect_e6, gossip_broadcast_epoch_drift_e5,
       gossip_broadcast_epoch_drift_e6, gossip_broadcast_epoch_gap,
       gossip_broadcast_epoch_gap_e3, gossip_broadcast_epoch_gap_e4,
       gossip_broadcast_epoch_overlap, gossip_broadcast_epoch_overlap_e3,
       gossip_broadcast_epoch_overlap_e4, gossip_broadcast_epoch_seal_e5,
       gossip_broadcast_epoch_skip_e5, gossip_broadcast_epoch_skip_e6,
       gossip_broadcast_epoch_stall, gossip_broadcast_epoch_stall_e3,
       gossip_broadcast_epoch_stall_e4, gossip_broadcast_fanout,
       gossip_broadcast_fanout_drop_e5, gossip_broadcast_fanout_e3,
       gossip_broadcast_fanout_e4, gossip_broadcast_fanout_e5,
       gossip_broadcast_fanout_e6, gossip_broadcast_flood_burst_e6,
       gossip_broadcast_flood_guard_e5, gossip_broadcast_flood_rate,
       gossip_broadcast_flood_rate_e3, gossip_broadcast_flood_rate_e4,
       gossip_broadcast_fragmentation, gossip_broadcast_fragmentation_e3,
       gossip_broadcast_fragmentation_e4, gossip_broadcast_header_corrupt_e5,
       gossip_broadcast_header_corrupt_e6, gossip_broadcast_heartbeat_miss_e6,
       gossip_broadcast_jitter_e3, gossip_broadcast_jitter_e4,
       gossip_broadcast_latency_spike_e5, gossip_broadcast_latency_spike_e6,
       gossip_broadcast_link_fail_e5, gossip_broadcast_link_fail_e6,
       gossip_broadcast_loop_detect_e6, gossip_broadcast_loss, gossip_broadcast_loss_e3,
       gossip_broadcast_loss_e4, gossip_broadcast_malform_e6,
       gossip_broadcast_msg_loss_e5, gossip_broadcast_msg_loss_e6,
       gossip_broadcast_msg_ordering, gossip_broadcast_msg_ordering_e3,
       gossip_broadcast_msg_ordering_e4, gossip_broadcast_nack_rate,
       gossip_broadcast_nack_rate_e3, gossip_broadcast_nack_rate_e4,
       gossip_broadcast_nonce_collision_e5, gossip_broadcast_nonce_collision_e6,
       gossip_broadcast_orphan_msg_e5, gossip_broadcast_partial_delivery,
       gossip_broadcast_partial_delivery_e3, gossip_broadcast_partial_delivery_e4,
       gossip_broadcast_partition_detect_e5, gossip_broadcast_partition_detect_e6,
       gossip_broadcast_partition_heal_e5, gossip_broadcast_peer_churn,
       gossip_broadcast_peer_churn_e3, gossip_broadcast_peer_churn_e4,
       gossip_broadcast_peer_churn_e5, gossip_broadcast_peer_churn_e6,
       gossip_broadcast_peer_drift, gossip_broadcast_peer_drift_e3,
       gossip_broadcast_peer_drift_e4, gossip_broadcast_peer_isolation,
       gossip_broadcast_peer_isolation_e3, gossip_broadcast_peer_isolation_e4,
       gossip_broadcast_peer_latency, gossip_broadcast_peer_latency_e3,
       gossip_broadcast_peer_latency_e4, gossip_broadcast_peer_rejection,
       gossip_broadcast_peer_rejection_e3, gossip_broadcast_peer_rejection_e4,
       gossip_broadcast_peer_timeout, gossip_broadcast_peer_timeout_e3,
       gossip_broadcast_peer_timeout_e4, gossip_broadcast_phi_angular_e7,
       gossip_broadcast_phi_convergence_e7, gossip_broadcast_phi_deviation_e7,
       gossip_broadcast_phi_fibonacci_e7, gossip_broadcast_phi_holographic_e7,
       gossip_broadcast_phi_reciprocal_e7, gossip_broadcast_phi_seal_e8,
       gossip_broadcast_phi_squared_e7, gossip_broadcast_phi_stability_e8,
       gossip_broadcast_phi_unitary_e7, gossip_broadcast_priority_drop_e6,
       gossip_broadcast_priority_invert_e5, gossip_broadcast_probe_fail_e5,
       gossip_broadcast_propagation, gossip_broadcast_propagation_e3,
       gossip_broadcast_propagation_e4, gossip_broadcast_queue_overflow,
       gossip_broadcast_queue_overflow_e3, gossip_broadcast_queue_overflow_e4,
       gossip_broadcast_quorum_miss_e5, gossip_broadcast_quorum_miss_e6,
       gossip_broadcast_rebroadcast, gossip_broadcast_rebroadcast_e3,
       gossip_broadcast_rebroadcast_e4, gossip_broadcast_rebroadcast_e5,
       gossip_broadcast_rebroadcast_e6, gossip_broadcast_relay_drop_e5,
       gossip_broadcast_relay_drop_e6, gossip_broadcast_replay_detect_e6,
       gossip_broadcast_retry, gossip_broadcast_retry_e3, gossip_broadcast_retry_e4,
       gossip_broadcast_route_flap_e5, gossip_broadcast_route_flap_e6,
       gossip_broadcast_seq_gap_e5, gossip_broadcast_seq_gap_e6,
       gossip_broadcast_sequence, gossip_broadcast_state_desync_e5,
       gossip_broadcast_sync_lag, gossip_broadcast_sync_lag_e3,
       gossip_broadcast_sync_lag_e4, gossip_broadcast_sync_lag_e5,
       gossip_broadcast_sync_lag_e6, gossip_broadcast_timeout,
       gossip_broadcast_timeout_e3, gossip_broadcast_timeout_e4,
       gossip_broadcast_topology_stale_e5, gossip_broadcast_topology_stale_e6,
       gossip_broadcast_ttl_exceeded, gossip_broadcast_ttl_exceeded_e3,
       gossip_broadcast_ttl_exceeded_e4, gossip_broadcast_ttl_exhaust_e6,
       gossip_broadcast_ttl_expire_e5, gossip_broadcast_version_mismatch_e6,
       gossip_broadcast_window_exhaust_e5, gossip_broadcast_window_exhaust_e6,
       gossip_broadcast_window_miss_e3, gossip_broadcast_window_miss_e4

\* What a rate monitor appends.
LEMMA MonitorRows ==
  ASSUME IInv, gossip_broadcast
  PROVE  \E d : Push(d, aux) /\ Row(kind, aux, d) /\ aux[1] \in Policies
  <1>1. kind = "gossip_broadcast" /\ aux[1] \in Policies
    <2>1. kind = "gossip_broadcast"
      BY DEF gossip_broadcast, Of
    <2>2. PICK policy \in Catalogue : aux = <<policy>>
      BY <2>1 DEF IInv, Beside
    <2> QED BY <2>1, <2>2, CatalogueIsPolicies
  <1>2. PICK in \in Boundary(aux[1].threshold) : Push(MonitorEntry(aux[1], Epoch, in[1], in[2]),
        aux)
    BY DEF gossip_broadcast
  <1>3. PICK p, w : p = in[1] /\ w = in[2]
    OBVIOUS
  <1>4. p \in Nat /\ w \in Nat
    <2>1. PICK t \in 1..99 : t = aux[1].threshold
      BY <1>1 DEF Policies
    <2> QED BY <1>2, <1>3, <2>1 DEF Boundary
  <1>5. rate_pct(p, w) \in Int
    <2>1. AtLeastOne(w) \in Nat \ {0} /\ p * 100 \in Nat
      BY <1>4 DEF AtLeastOne
    <2>2. (p * 100) \div AtLeastOne(w) \in Nat
      BY <2>1
    <2> QED BY <2>2 DEF rate_pct, AtMost
  <1>6. PICK d : d = MonitorEntry(aux[1], Epoch, p, w)
    OBVIOUS
  <1>7. d = <<Epoch, p, w, rate_pct(p, w), Byte(flagged(aux[1], rate_pct(p, w)))>>
    BY <1>6 DEF MonitorEntry
  <1>8. Byte(flagged(aux[1], rate_pct(p, w))) \in Int
    BY DEF Byte
  <1>9. Typed(kind, d)
    BY <1>1, <1>4, <1>5, <1>7, <1>8, EpochIsNat DEF Typed, Width
  <1>10. Monitored(aux[1], d)
    BY <1>4, <1>7 DEF Monitored
  <1>11. Derived(kind, d)
    BY <1>1 DEF Derived, RangeKinds
  <1> QED
    BY <1>1, <1>2, <1>3, <1>6, <1>9, <1>10, <1>11 DEF Row

-----------------------------------------------------------------------------
(* Windows and maps. *)

\* The mean of a window, and a window that slides.
LEMMA WindowSlides ==
  ASSUME NEW w, Window(w), NEW v \in Int
  PROVE  /\ Mean(w) \in Int
         /\ Window(Slide(w, v, 4)) /\ Mean(Slide(w, v, 4)) \in Int
  <1>1. ASSUME NEW u, Window(u) PROVE Mean(u) \in Int
    <2>1. Len(u) \in Nat /\ \A i \in 1..Len(u) : u[i] \in Int
      BY <1>1, SeqFacts DEF Window
    <2>2. Total(u) \in Int
      BY <2>1, TotalType
    <2>3. u # << >> => Len(u) > 0
      <3>1. IsSeq(u)
        BY <1>1 DEF Window
      <3> QED BY <2>1, <3>1 DEF IsSeq
    <2> QED BY <2>1, <2>2, <2>3 DEF Mean
  <1>2. IsSeq(w) /\ Len(w) \in 0..4 /\ \A i \in 1..Len(w) : w[i] \in Int
    <2>1. IsSeq(w) /\ Len(w) <= 4 /\ \A i \in 1..Len(w) : w[i] \in Int
      BY DEF Window
    <2>2. PICK n \in Nat : n = Len(w)
      BY <2>1, SeqFacts
    <2>3. n \in 0..4
      BY <2>1, <2>2
    <2> QED BY <2>1, <2>2, <2>3, Zenon
  <1>3. PICK t : t = Slide(w, v, 4)
    OBVIOUS
  <1>4. Window(t)
    <2>1. CASE Len(w) < 4
      <3>1. /\ IsSeq(t) /\ Len(t) = Len(w) + 1 /\ t[Len(w) + 1] = v
            /\ \A i \in 1..Len(w) : t[i] = w[i]
        BY <1>2, <1>3, <2>1, SlideIs
      <3>2. \A i \in 1..Len(t) : i \in 1..Len(w) \/ i = Len(w) + 1
        BY <1>2, <3>1
      <3> QED BY <1>2, <2>1, <3>1, <3>2 DEF Window
    <2>2. CASE Len(w) = 4
      <3>1. /\ IsSeq(t) /\ Len(t) = 4 /\ t[4] = v
            /\ \A i \in 1..3 : t[i] = w[i + 1]
        BY <1>2, <1>3, <2>2, SlideIs
      <3>2. \A i \in 1..3 : w[i + 1] \in Int
        BY <1>2, <2>2
      <3>3. \A i \in 1..4 : i \in 1..3 \/ i = 4
        OBVIOUS
      <3> QED BY <3>1, <3>2, <3>3 DEF Window
    <2> QED BY <1>2, <2>1, <2>2
  <1> QED
    BY <1>1, <1>3, <1>4

\* No value, and one.
LEMMA SmallWindows ==
  /\ Window(<< >>)
  /\ \A v \in FewCounts : Window(<<v>>)
  <1>1. \A v \in Int : Window(<<v>>)
    BY DEF Window, IsSeq, Range
  <1>2. \A v \in FewCounts : v \in Int
    <2>1. \A v \in FewCounts : v \in U32
      BY Inputs
    <2>2. \A v \in U32 : v \in Int
      BY U32MaxAssumption DEF U32
    <2> QED BY <2>1, <2>2
  <1>3. Window(<< >>)
    BY DEF Window, IsSeq, Range
  <1> QED
    BY <1>1, <1>2, <1>3, Zenon

\* The newest value of a window that is not empty.
LEMMA WindowFirst ==
  ASSUME NEW w, Window(w), w # << >>
  PROVE  w[1] \in Int
  <1>1. IsSeq(w) /\ \A i \in 1..Len(w) : w[i] \in Int
    BY DEF Window
  <1>2. Len(w) \in Nat /\ Len(w) # 0
    BY <1>1, SeqFacts DEF IsSeq
  <1> QED
    BY <1>1, <1>2

\* What each file that carries something from entry to entry appends, and
\* what it carries on.
LEMMA CarriedRows ==
  ASSUME IInv,
         \/ gossip_ack_latency     \/ gossip_epoch_window    \/ gossip_frame_rate
         \/ gossip_jitter          \/ gossip_topology_change \/ gossip_neighbor_score
         \/ gossip_peer_reputation \/ gossip_peer_score      \/ gossip_reachability
         \/ gossip_retransmit
  PROVE  \E d, a : /\ Push(d, a) /\ Row(kind, aux, d) /\ Beside(kind, a)
                   /\ kind # "gossip_broadcast"
  <1> DEFINE Grows == \E d, a : /\ Push(d, a) /\ Row(kind, aux, d) /\ Beside(kind, a)
                                /\ kind # "gossip_broadcast"
  <1> USE Inputs, EpochIsNat DEF Row, Typed, Width, Derived, RangeKinds, Beside
  <1>0. Beside(kind, aux)
    BY DEF IInv
  <1>1. ASSUME gossip_ack_latency PROVE Grows
    <2>1. PICK peer \in Peers, sent \in {15}, acked \in FewCounts :
             LET latency == SaturatingSub(acked, sent)
                 window == Slide(Get(aux, peer, << >>), latency, 4)
             IN  /\ kind = "gossip_ack_latency"
                 /\ Push(<<peer, Epoch, latency, Mean(window)>>, Put(aux, peer, window))
      BY <1>1 DEF gossip_ack_latency, WindowOf
    <2>2. PICK old, latency, window, a :
             /\ old = Get(aux, peer, << >>) /\ latency = SaturatingSub(acked, sent)
             /\ window = Slide(old, latency, 4) /\ a = Put(aux, peer, window)
      OBVIOUS
    <2>3. latency \in Int
      BY <2>2, Inputs DEF SaturatingSub
    <2>4. Window(old)
      BY <1>0, <2>1, <2>2, SmallWindows DEF Get
    <2>5. Window(window) /\ Mean(window) \in Int
      BY <2>2, <2>3, <2>4, WindowSlides
    <2>6. Beside(kind, a)
      BY <1>0, <2>1, <2>2, <2>5 DEF Put
    <2>7. Row(kind, aux, <<peer, Epoch, latency, Mean(window)>>)
      BY <2>1, <2>3, <2>5
    <2> QED BY <2>1, <2>2, <2>6, <2>7
  <1>2. ASSUME gossip_epoch_window PROVE Grows
    <2>1. PICK coverage \in FewCounts :
             LET window == Slide(aux, coverage, 4)
             IN  /\ kind = "gossip_epoch_window"
                 /\ Push(<<Epoch, coverage, Mean(window), GossipWindowState(Mean(window))>>,
                           window)
      BY <1>2 DEF gossip_epoch_window, WindowOf
    <2>2. PICK window : window = Slide(aux, coverage, 4)
      OBVIOUS
    <2>3. Window(window) /\ Mean(window) \in Int
      BY <1>0, <2>1, <2>2, WindowSlides
    <2>4. GossipWindowState(Mean(window)) \in Int
      BY DEF GossipWindowState
    <2>5. Row(kind, aux, <<Epoch, coverage, Mean(window), GossipWindowState(Mean(window))>>)
      BY <2>1, <2>3, <2>4
    <2>6. Beside(kind, window)
      BY <2>1, <2>3
    <2> QED BY <2>1, <2>2, <2>5, <2>6
  <1>3. ASSUME gossip_frame_rate PROVE Grows
    <2>1. PICK frames \in FewCounts :
             LET flag == Byte(Mean(aux) > 0 /\ frames > AtMost(2 * Mean(aux), U32Max))
             IN  /\ kind = "gossip_frame_rate"
                 /\ Push(<<Epoch, frames, Mean(aux), flag>>, Slide(aux, frames, 4))
      BY <1>3 DEF gossip_frame_rate, WindowOf
    <2>2. PICK window, flag :
             /\ window = Slide(aux, frames, 4)
             /\ flag = Byte(Mean(aux) > 0 /\ frames > AtMost(2 * Mean(aux), U32Max))
      OBVIOUS
    <2>3. Window(window) /\ Mean(aux) \in Int
      BY <1>0, <2>1, <2>2, WindowSlides
    <2>4. flag \in Int
      BY <2>2 DEF Byte
    <2>5. Row(kind, aux, <<Epoch, frames, Mean(aux), flag>>)
      BY <2>1, <2>3, <2>4
    <2>6. Beside(kind, window)
      BY <2>1, <2>3
    <2> QED BY <2>1, <2>2, <2>5, <2>6
  <1>4. ASSUME gossip_jitter PROVE Grows
    <2>1. PICK frames \in FewCounts :
             LET jitter == IF aux = << >> THEN 0 ELSE Distance(frames, aux[1])
             IN  kind = "gossip_jitter" /\ Push(<<Epoch, frames, jitter>>, <<frames>>)
      BY <1>4 DEF gossip_jitter, WindowOf
    <2>2. PICK jitter : jitter = IF aux = << >> THEN 0 ELSE Distance(frames, aux[1])
      OBVIOUS
    <2>3. aux # << >> => aux[1] \in Int
      BY <1>0, <2>1, WindowFirst
    <2>4. jitter \in Int
      BY <2>2, <2>3 DEF Distance, SaturatingSub
    <2>5. Row(kind, aux, <<Epoch, frames, jitter>>)
      BY <2>1, <2>4
    <2>6. Window(<<frames>>)
      BY SmallWindows, Zenon
    <2>7. Beside(kind, <<frames>>)
      BY <2>1, <2>6 DEF Beside
    <2> QED BY <2>1, <2>2, <2>5, <2>7
  <1>5. ASSUME gossip_topology_change PROVE Grows
    <2>1. PICK peers \in FewCounts :
             LET delta == IF aux = << >> THEN 0 ELSE AsI32(peers) - AsI32(aux[1])
             IN  /\ kind = "gossip_topology_change"
                 /\ Push(<<Epoch, peers, delta, Byte(delta # 0)>>, <<peers>>)
      BY <1>5 DEF gossip_topology_change, WindowOf
    <2>2. PICK delta : delta = IF aux = << >> THEN 0 ELSE AsI32(peers) - AsI32(aux[1])
      OBVIOUS
    <2>3. aux # << >> => aux[1] \in Int
      BY <1>0, <2>1, WindowFirst
    <2>4. delta \in Int
      BY <2>2, <2>3 DEF AsI32
    <2>5. Row(kind, aux, <<Epoch, peers, delta, Byte(delta # 0)>>)
      BY <2>1, <2>4 DEF Byte
    <2>6. Window(<<peers>>)
      BY SmallWindows, Zenon
    <2>7. Beside(kind, <<peers>>)
      BY <2>1, <2>6 DEF Beside
    <2> QED BY <2>1, <2>2, <2>5, <2>7
  <1>6. ASSUME gossip_neighbor_score PROVE Grows
    <2>1. PICK peer \in Peers, latency, reliability, stability \in FewCounts :
             LET score == SaturatingAdd(SaturatingAdd(latency, reliability), stability) \div 3
             IN  /\ kind = "gossip_neighbor_score"
                 /\ Push(<<peer, Epoch, latency, reliability, stability, score,
                           NeighborTier(score)>>, Put(aux, peer, score))
      BY <1>6 DEF gossip_neighbor_score, Of
    <2>2. PICK score, a : /\ score = SaturatingAdd(SaturatingAdd(latency, reliability),
                                 stability) \div 3
                          /\ a = Put(aux, peer, score)
      OBVIOUS
    <2>3. score \in Int
      <3>1. latency \in Nat /\ reliability \in Nat /\ stability \in Nat
        BY Inputs
      <3>2. SaturatingAdd(latency, reliability) \in Nat
        BY <3>1, Fits
      <3>3. SaturatingAdd(SaturatingAdd(latency, reliability), stability) \in Nat
        BY <3>1, <3>2, Fits
      <3> QED BY <2>2, <3>3
    <2>4. NeighborTier(score) \in Int
      BY DEF NeighborTier
    <2>5. Row(kind, aux, <<peer, Epoch, latency, reliability, stability, score,
                           NeighborTier(score)>>)
      BY <2>1, <2>2, <2>3, <2>4
    <2>6. Beside(kind, a)
      BY <1>0, <2>1, <2>2, <2>3 DEF Put
    <2> QED BY <2>1, <2>2, <2>5, <2>6
  <1>7. ASSUME gossip_peer_reputation PROVE Grows
    <2>1. PICK peer \in Peers, delivered, churned \in Flags :
             LET score == ReputationAfter(Get(aux, peer, 50), delivered, churned)
             IN  /\ kind = "gossip_peer_reputation"
                 /\ Push(<<peer, Epoch, score, ReputationClass(score), delivered, churned>>,
                         Put(aux, peer, score))
      BY <1>7 DEF gossip_peer_reputation, WindowOf
    <2>2. PICK old, score, a : /\ old = Get(aux, peer, 50)
                               /\ score = ReputationAfter(old, delivered, churned)
                               /\ a = Put(aux, peer, score)
      OBVIOUS
    <2>3. old \in Int
      BY <1>0, <2>1, <2>2 DEF Get
    <2>4. score \in Int /\ ReputationClass(score) \in Int
      BY <2>2, <2>3, U32MaxAssumption
      DEF ReputationAfter, ReputationClass, SaturatingAdd, SaturatingSub, AtMost
    <2>5. Row(kind, aux, <<peer, Epoch, score, ReputationClass(score), delivered, churned>>)
      BY <2>1, <2>4 DEF Flags
    <2>6. Beside(kind, a)
      BY <1>0, <2>1, <2>2, <2>4 DEF Put
    <2> QED BY <2>1, <2>2, <2>5, <2>6
  <1>8. ASSUME gossip_peer_score PROVE Grows
    <2>1. PICK peer \in Peers, hit \in Flags :
             LET old == Get(aux, peer, <<0, 0>>)
                 hits == old[1] + hit
                 events == old[2] + 1
             IN  /\ kind = "gossip_peer_score"
                 /\ Push(<<peer, Epoch, hit, hits, events, (hits * 100) \div events>>,
                         Put(aux, peer, <<hits, events>>))
      BY <1>8 DEF gossip_peer_score, WindowOf
    <2>2. PICK old, hits, events, a :
             /\ old = Get(aux, peer, <<0, 0>>)
             /\ hits = old[1] + hit /\ events = old[2] + 1
             /\ a = Put(aux, peer, <<hits, events>>)
      OBVIOUS
    <2>3. old \in Nat \X Nat
      BY <1>0, <2>1, <2>2 DEF Get
    <2>4. hits \in Nat /\ events \in Nat \ {0}
      BY <2>2, <2>3 DEF Flags
    <2>5. (hits * 100) \div events \in Int
      BY <2>4
    <2>6. Row(kind, aux, <<peer, Epoch, hit, hits, events, (hits * 100) \div events>>)
      BY <2>1, <2>4, <2>5 DEF Flags
    <2>7. Beside(kind, a)
      BY <1>0, <2>1, <2>2, <2>4 DEF Put
    <2> QED BY <2>1, <2>2, <2>6, <2>7
  <1>9. ASSUME gossip_reachability PROVE Grows
    <2>1. PICK peer \in Peers, up \in Flags :
             kind = "gossip_reachability" /\ Push(<<peer, Epoch, up>>, Put(aux, peer, up))
      BY <1>9 DEF gossip_reachability, WindowOf
    <2>2. PICK a : a = Put(aux, peer, up)
      OBVIOUS
    <2>3. Row(kind, aux, <<peer, Epoch, up>>)
      BY <2>1 DEF Flags
    <2>4. Beside(kind, a)
      BY <1>0, <2>1, <2>2 DEF Put, Flags
    <2> QED BY <2>1, <2>2, <2>3, <2>4
  <1>10. ASSUME gossip_retransmit PROVE Grows
    <2>1. PICK peer \in Peers, n \in FewCounts :
             /\ kind = "gossip_retransmit"
             /\ Push(<<Epoch, peer, n>>, Put(aux, peer, Get(aux, peer, 0) + n))
      BY <1>10 DEF gossip_retransmit, WindowOf
    <2>2. PICK old, a : old = Get(aux, peer, 0) /\ a = Put(aux, peer, old + n)
      OBVIOUS
    <2>3. old \in Int
      BY <1>0, <2>1, <2>2 DEF Get
    <2>4. Row(kind, aux, <<Epoch, peer, n>>)
      BY <2>1
    <2>5. Beside(kind, a)
      BY <1>0, <2>1, <2>2, <2>3 DEF Put
    <2> QED BY <2>1, <2>2, <2>4, <2>5
  <1> QED
    BY <1>1, <1>2, <1>3, <1>4, <1>5, <1>6, <1>7, <1>8, <1>9, <1>10

\* Every action pushes a row of its file.
LEMMA NextPushes ==
  ASSUME IInv, Next
  PROVE  \E d, a : /\ Push(d, a) /\ Row(kind, aux, d) /\ Beside(kind, a)
                   /\ kind = "gossip_broadcast" => a = aux
  <1>1. Beside(kind, aux)
    BY DEF IInv
  <1>2. CASE gossip_broadcast
    BY <1>1, <1>2, MonitorRows
  <1>3. CASE gossip_latency_histogram \/ gossip_ttl_tracker \/ gossip_frame_size_histogram
    BY <1>1, <1>3, SummedRows
  <1>4. CASE \/ gossip_ack_latency     \/ gossip_epoch_window    \/ gossip_frame_rate
             \/ gossip_jitter          \/ gossip_topology_change \/ gossip_neighbor_score
             \/ gossip_peer_reputation \/ gossip_peer_score      \/ gossip_reachability
             \/ gossip_retransmit
    BY <1>4, CarriedRows
  <1>5. CASE
         \/ gossip_backpressure      \/ gossip_backpressure_epoch \/ gossip_connection_pool
         \/ gossip_dedup_window      \/ gossip_delivery_ratio     \/ gossip_drop_rate
         \/ gossip_epoch_bandwidth   \/ gossip_epoch_convergence  \/ gossip_epoch_error
         \/ gossip_epoch_health      \/ gossip_fanout_epoch       \/ gossip_fanout_tracker
         \/ gossip_health_report     \/ gossip_message_size       \/ gossip_queue_depth
         \/ gossip_round_trip_time   \/ gossip_peer_diversity     \/ gossip_peer_timeout
         \/ gossip_peer_uptime       \/ gossip_window_fill        \/ gossip_broadcast_summary
         \/ gossip_epoch_seal        \/ gossip_health_snapshot    \/ gossip_epoch_finalizer
         \/ gossip_latency_tracker   \/ gossip_peer_churn         \/ gossip_pipeline_summary
    BY <1>1, <1>5, PlainRows
  <1> QED
    BY <1>2, <1>3, <1>4, <1>5, Zenon DEF Next

\* An empty log.
LEMMA InitIInv == Init => IInv
  <1>1. SUFFICES ASSUME Init PROVE IInv
    OBVIOUS
  <1>2. log = << >>
    BY <1>1 DEF Init
  <1>3. IsChain(log, 1..Width(kind)) /\ DOMAIN log = {}
    BY <1>2 DEF IsChain, IsSeq
  <1>4. CASE kind \in RatioKinds \cup CarriedKinds \cup StoredKinds /\ aux = << >>
    <2>1. DOMAIN aux = {} /\ Window(aux) /\ kind # "gossip_broadcast"
      BY <1>4, SmallWindows DEF RatioKinds, CarriedKinds, StoredKinds
    <2>2. Beside(kind, aux)
      BY <2>1 DEF Beside
    <2> QED BY <1>3, <1>4, <2>2 DEF IInv
  <1>5. CASE kind = "gossip_broadcast" /\ aux \in { <<policy>> : policy \in Catalogue }
    <2>1. Beside(kind, aux)
      BY <1>5 DEF Beside
    <2> QED BY <1>3, <1>5, <2>1 DEF IInv
  <1> QED
    BY <1>1, <1>4, <1>5 DEF Init

\* The inductive invariant holds in every reachable state.
THEOREM InvariantHolds == Spec => []IInv
  <1>1. ASSUME IInv, Next PROVE IInv'
    BY <1>1, NextPushes, PushKeeps
  <1>2. ASSUME IInv, UNCHANGED vars PROVE IInv'
    BY <1>2 DEF IInv, vars
  <1> QED
    BY <1>1, <1>2, InitIInv, PTL DEF Spec

-----------------------------------------------------------------------------
\* verify_chain accepts every log of every file and names the first entry of
\* which a field, the link or the hash was changed, also when the hash of a
\* later one was, too.
THEOREM DamageIsLocated == Spec => []DamageLocated
  <1>1. ASSUME IInv PROVE DamageLocated
    <2>1. SUFFICES ASSUME log # << >>
          PROVE  LET verdict(l) == verify_chain(l, DOMAIN log[1].data)
                 IN  /\ verdict(log) = 0
                     /\ \A i \in DOMAIN log : \A d \in DamageOf(log[i]) :
                           /\ verdict([log EXCEPT ![i] = d]) = i
                           /\ \A j \in (i + 1)..Len(log) :
                                 verdict([log EXCEPT ![i] = d, ![j] = HashDamaged(@)]) = i
      BY DEF DamageLocated
    <2>2. PICK F : F = 1..Width(kind)
      OBVIOUS
    <2>3. IsChain(log, F) /\ IsSeq(log) /\ DOMAIN log = 1..Len(log) /\ Len(log) \in Nat \ {0}
      <3>1. IsChain(log, F) /\ IsSeq(log)
        BY <1>1, <2>2 DEF IInv, IsChain
      <3>2. Len(log) # 0
        BY <2>1, <3>1 DEF IsSeq
      <3> QED BY <3>1, <3>2, SeqFacts
    <2>4. \A i \in DOMAIN log : DOMAIN log[i].data = F
      BY <2>3 DEF IsChain
    <2>5. DOMAIN log[1].data = F
      BY <2>3, <2>4
    <2>6. verify_chain(log, F) = 0
      BY <2>3, ChainAccepted
    <2>7. ASSUME NEW i \in DOMAIN log, NEW d \in DamageOf(log[i]),
                 NEW l, DOMAIN l = DOMAIN log, l[i] = d, \A k \in 1..(i - 1) : l[k] = log[k]
          PROVE  verify_chain(l, F) = i
      <3>1. d \in Damaged(log[i], F)
        BY <2>4 DEF DamageOf, Damaged
      <3> QED BY <2>3, <2>7, <3>1, DamageNamed
    <2>8. ASSUME NEW i \in DOMAIN log, NEW d \in DamageOf(log[i])
          PROVE  /\ verify_chain([log EXCEPT ![i] = d], F) = i
                 /\ \A j \in (i + 1)..Len(log) :
                       verify_chain([log EXCEPT ![i] = d, ![j] = HashDamaged(@)], F) = i
      <3>1. i \in 1..Len(log) /\ \A k \in 1..(i - 1) : k \in DOMAIN log /\ k # i
        BY <2>3
      <3>2. verify_chain([log EXCEPT ![i] = d], F) = i
        <4>1. PICK l : l = [log EXCEPT ![i] = d]
          OBVIOUS
        <4>2. DOMAIN l = DOMAIN log /\ l[i] = d /\ \A k \in 1..(i - 1) : l[k] = log[k]
          BY <3>1, <4>1
        <4> QED BY <2>7, <4>1, <4>2
      <3>3. ASSUME NEW j \in (i + 1)..Len(log)
            PROVE  verify_chain([log EXCEPT ![i] = d, ![j] = HashDamaged(@)], F) = i
        <4>1. PICK l : l = [log EXCEPT ![i] = d, ![j] = HashDamaged(@)]
          OBVIOUS
        <4>2. j # i /\ \A k \in 1..(i - 1) : k # j
          BY <3>1
        <4>3. DOMAIN l = DOMAIN log /\ l[i] = d /\ \A k \in 1..(i - 1) : l[k] = log[k]
          BY <3>1, <4>1, <4>2
        <4> QED BY <2>7, <4>1, <4>3
      <3> QED BY <3>2, <3>3
    <2> QED BY <2>5, <2>6, <2>8
  <1> QED
    BY <1>1, InvariantHolds, PTL

-----------------------------------------------------------------------------
(* Flags are exact. *)

\* What FlagsAreExact says of one entry and one rule.
Exact(e, rule) ==
    InRange(e, rule) =>
      LET part == 100 * SumOf(e, rule.part)
          mark == rule.limit * AtLeastOne(SumOf(e, rule.whole))
      IN  e.data[rule.flag] =
            Byte(IF rule.side = "least" THEN part >= mark ELSE part < mark)

\* Truncation to whole percents decides no comparison with a whole limit, and
\* a share of no more than its whole does not wrap.
LEMMA Shares ==
  ASSUME NEW part \in Nat, NEW whole \in Nat
  PROVE  /\ Pct(part, whole) \in Nat
         /\ part <= U32Max \div 100 =>
              \A k \in Nat : Pct(part, whole) >= k <=> 100 * part >= k * AtLeastOne(whole)
         /\ \A k \in 0..100 : rate_pct(part, whole) >= k <=> 100 * part >= k * AtLeastOne(whole)
         /\ part <= whole => Pct(part, whole) = (part * 100) \div AtLeastOne(whole)
         /\ rate_pct(part, whole) \in 0..100
  <1>1. PICK m, x, q : m = AtLeastOne(whole) /\ x = part * 100 /\ q = x \div m
    OBVIOUS
  <1>2. m \in Nat \ {0} /\ x \in Nat /\ x = 100 * part
    BY <1>1 DEF AtLeastOne
  <1>3. q \in Nat /\ q <= x /\ \A k \in Nat : (q >= k) <=> (x >= k * m)
    BY <1>1, <1>2, QuotientReaches
  <1>4. U32Max \in Nat /\ U32Max >= 100
    BY Inputs
  <1>5. Pct(part, whole) = q % (U32Max + 1)
    BY <1>1 DEF Pct, AsU32
  <1>6. q <= U32Max => Pct(part, whole) = q
    BY <1>3, <1>4, <1>5
  <1>7. Pct(part, whole) \in Nat
    BY <1>3, <1>4, <1>5
  <1>8. part <= U32Max \div 100 => q <= U32Max
    <2>1. (U32Max \div 100) * 100 <= U32Max
      BY <1>4
    <2> QED BY <1>2, <1>3, <1>4, <2>1
  <1>9. part <= whole => q <= 100
    <2>1. SUFFICES ASSUME part <= whole PROVE ~(q >= 101)
      BY <1>3
    <2>2. part <= m /\ 101 * m > 100 * m
      BY <1>1, <1>2, <2>1 DEF AtLeastOne
    <2>3. ~(x >= 101 * m)
      BY <1>2, <2>2
    <2> QED BY <1>3, <2>3
  <1>10. rate_pct(part, whole) = IF q > 100 THEN 100 ELSE q
    BY <1>1 DEF rate_pct, AtMost
  <1>11. ASSUME NEW k \in 0..100 PROVE rate_pct(part, whole) >= k <=> x >= k * m
    <2>1. rate_pct(part, whole) >= k <=> q >= k
      BY <1>3, <1>10
    <2>2. k \in Nat
      OBVIOUS
    <2> QED BY <1>3, <2>1, <2>2
  <1>12. rate_pct(part, whole) \in 0..100
    BY <1>3, <1>10
  <1>13. part <= U32Max \div 100 => \A k \in Nat : Pct(part, whole) >= k <=> x >= k * m
    BY <1>3, <1>6, <1>8
  <1>14. part <= whole => Pct(part, whole) = (part * 100) \div AtLeastOne(whole)
    BY <1>1, <1>3, <1>4, <1>6, <1>9
  <1> QED
    BY <1>1, <1>2, <1>7, <1>11, <1>12, <1>13, <1>14

\* The sums of columns that the rules name.
LEMMA SumsOfColumns ==
  ASSUME NEW e, NEW f, NEW g, e.data[f] \in Int, e.data[g] \in Int
  PROVE  /\ SumOf(e, <<f>>) = e.data[f]
         /\ SumOf(e, <<f, g>>) = e.data[f] + e.data[g]
  <1>1. PICK a, b : a = e.data[f] /\ b = e.data[g]
    OBVIOUS
  <1>2. [i \in DOMAIN <<f>> |-> e.data[<<f>>[i]]] = <<a>>
    BY <1>1
  <1>3. [i \in DOMAIN <<f, g>> |-> e.data[<<f, g>>[i]]] = <<a, b>>
    BY <1>1
  <1>4. SumOf(e, <<f>>) = Total(<<a>>) /\ SumOf(e, <<f, g>>) = Total(<<a, b>>)
    BY <1>2, <1>3 DEF SumOf
  <1> QED
    BY <1>1, <1>4, SmallTotals

\* A flag that compares the share with a limit stands for the comparison of
\* the counts.
LEMMA ShareDecides ==
  ASSUME NEW e, NEW ps, NEW ws, NEW limit \in Nat, NEW flag,
         NEW part \in Nat, SumOf(e, ps) = part, NEW whole \in Nat, SumOf(e, ws) = whole
  PROVE  /\ (whole <= U32Max => e.data[flag] = Byte(Pct(part, whole) >= limit))
               => Exact(e, Rule(ps, ws, limit, "least", flag))
         /\ (whole <= U32Max => e.data[flag] = Byte(Pct(part, whole) < limit))
               => Exact(e, Rule(ps, ws, limit, "below", flag))
  <1>1. ASSUME NEW side \in {"least", "below"}
        PROVE  /\ Rule(ps, ws, limit, side, flag).part = ps
               /\ Rule(ps, ws, limit, side, flag).whole = ws
               /\ Rule(ps, ws, limit, side, flag).limit = limit
               /\ Rule(ps, ws, limit, side, flag).side = side
               /\ Rule(ps, ws, limit, side, flag).flag = flag
    BY DEF Rule
  <1>2. ASSUME whole <= U32Max => e.data[flag] = Byte(Pct(part, whole) >= limit)
        PROVE  Exact(e, Rule(ps, ws, limit, "least", flag))
    <2>1. PICK rule : rule = Rule(ps, ws, limit, "least", flag)
      OBVIOUS
    <2>2. /\ rule.part = ps /\ rule.whole = ws /\ rule.limit = limit
          /\ rule.side = "least" /\ rule.flag = flag
      BY <1>1, <2>1
    <2>3. ASSUME whole <= U32Max, part <= U32Max \div 100
          PROVE  e.data[flag] = Byte(100 * part >= limit * AtLeastOne(whole))
      <3>1. Pct(part, whole) >= limit <=> 100 * part >= limit * AtLeastOne(whole)
        BY <2>3, Shares
      <3>2. e.data[flag] = Byte(Pct(part, whole) >= limit)
        BY <1>2, <2>3
      <3> QED BY <3>1, <3>2, Zenon DEF Byte
    <2>4. Exact(e, rule)
      BY <2>2, <2>3, Zenon DEF Exact, InRange
    <2> QED BY <2>1, <2>4
  <1>3. ASSUME whole <= U32Max => e.data[flag] = Byte(Pct(part, whole) < limit)
        PROVE  Exact(e, Rule(ps, ws, limit, "below", flag))
    <2>1. PICK rule : rule = Rule(ps, ws, limit, "below", flag)
      OBVIOUS
    <2>2. /\ rule.part = ps /\ rule.whole = ws /\ rule.limit = limit
          /\ rule.side = "below" /\ rule.side # "least" /\ rule.flag = flag
      BY <1>1, <2>1
    <2>3. ASSUME whole <= U32Max, part <= U32Max \div 100
          PROVE  e.data[flag] = Byte(100 * part < limit * AtLeastOne(whole))
      <3>1. Pct(part, whole) >= limit <=> 100 * part >= limit * AtLeastOne(whole)
        BY <2>3, Shares
      <3>2. Pct(part, whole) \in Nat /\ AtLeastOne(whole) \in Nat
        BY Shares DEF AtLeastOne
      <3>3. Pct(part, whole) < limit <=> ~(Pct(part, whole) >= limit)
        BY <3>2
      <3>4. 100 * part < limit * AtLeastOne(whole) <=> ~(100 * part >= limit * AtLeastOne(whole))
        BY <3>2
      <3>5. e.data[flag] = Byte(Pct(part, whole) < limit)
        BY <1>3, <2>3
      <3> QED BY <3>1, <3>3, <3>4, <3>5, Zenon DEF Byte
    <2>4. Exact(e, rule)
      BY <2>2, <2>3, Zenon DEF Exact, InRange
    <2> QED BY <2>1, <2>4
  <1> QED
    BY <1>2, <1>3

\* The files whose flags compare one column with another.
LEMMA ColumnFlags ==
  ASSUME NEW e, Derived(kind, e.data),
         kind \in {"gossip_connection_pool", "gossip_epoch_convergence", "gossip_epoch_error",
                   "gossip_fanout_epoch", "gossip_peer_diversity", "gossip_peer_timeout",
                   "gossip_peer_uptime", "gossip_window_fill"}
  PROVE  \A rule \in RateRules(kind) : Exact(e, rule)
  <1> DEFINE d == e.data
  <1>1. ASSUME NEW f, NEW g, d[f] \in U32, d[g] \in U32
        PROVE  /\ d[f] \in Nat /\ d[g] \in Nat
               /\ SumOf(e, <<f>>) = d[f] /\ SumOf(e, <<g>>) = d[g]
    <2>1. d[f] \in Nat /\ d[g] \in Nat
      BY <1>1, Inputs
    <2>2. d[f] \in Int /\ d[g] \in Int
      BY <2>1
    <2> QED BY <2>1, <2>2, SumsOfColumns
  <1>2. ASSUME NEW f, NEW g, d[f] \in U32, d[g] \in U32, NEW limit \in Nat, NEW flag
        PROVE  /\ d[flag] = Byte(Pct(d[f], d[g]) >= limit)
                     => Exact(e, Rule(<<f>>, <<g>>, limit, "least", flag))
               /\ d[flag] = Byte(Pct(d[f], d[g]) < limit)
                     => Exact(e, Rule(<<f>>, <<g>>, limit, "below", flag))
    BY <1>1, <1>2, ShareDecides
  <1> HIDE DEF d
  <1>3. CASE kind = "gossip_connection_pool"
    <2>1. RateRules(kind) = {Rule(<<3>>, <<2>>, 30, "below", 6)}
      BY <1>3 DEF RateRules
    <2>2. d[3] \in U32 /\ d[2] \in U32 /\ d[6] = Byte(Pct(d[3], d[2]) < 30)
      BY <1>3, ZenonT(40) DEF Derived, d
    <2> QED BY <1>2, <2>1, <2>2
  <1>4. CASE kind = "gossip_epoch_convergence"
    <2>1. RateRules(kind) = {Rule(<<3>>, <<2>>, 75, "below", 5)}
      BY <1>4 DEF RateRules
    <2>2. d[3] \in U32 /\ d[2] \in U32 /\ d[5] = Byte(Pct(d[3], d[2]) < 75)
      BY <1>4, ZenonT(40) DEF Derived, d
    <2> QED BY <1>2, <2>1, <2>2
  <1>5. CASE kind = "gossip_epoch_error"
    <2>1. RateRules(kind) = {Rule(<<2>>, <<4>>, 2, "least", 6)}
      BY <1>5 DEF RateRules
    <2>2. d[2] \in U32 /\ d[4] \in U32 /\ d[6] = Byte(Pct(d[2], d[4]) >= 2)
      BY <1>5, ZenonT(40) DEF Derived, d
    <2> QED BY <1>2, <2>1, <2>2
  <1>6. CASE kind = "gossip_fanout_epoch"
    <2>1. RateRules(kind) = {Rule(<<2>>, <<3>>, 600, "least", 5),
                            Rule(<<2>>, <<3>>, 200, "below", 6)}
      BY <1>6 DEF RateRules
    <2>2. d[2] \in U32 /\ d[3] \in U32 /\ d[5] = Byte(Pct(d[2], d[3]) >= 600)
          /\ d[6] = Byte(Pct(d[2], d[3]) < 200)
      BY <1>6, ZenonT(40) DEF Derived, d
    <2> QED BY <1>2, <2>1, <2>2
  <1>7. CASE kind = "gossip_peer_timeout"
    <2>1. RateRules(kind) = {Rule(<<2>>, <<3>>, 10, "least", 5)}
      BY <1>7 DEF RateRules
    <2>2. d[2] \in U32 /\ d[3] \in U32 /\ d[5] = Byte(Pct(d[2], d[3]) >= 10)
      BY <1>7, ZenonT(40) DEF Derived, d
    <2> QED BY <1>2, <2>1, <2>2
  <1>8. CASE kind = "gossip_peer_uptime"
    <2>1. RateRules(kind) = {Rule(<<2>>, <<3>>, 80, "below", 5)}
      BY <1>8 DEF RateRules
    <2>2. d[2] \in U32 /\ d[3] \in U32 /\ d[5] = Byte(Pct(d[2], d[3]) < 80)
      BY <1>8, ZenonT(40) DEF Derived, d
    <2> QED BY <1>2, <2>1, <2>2
  <1>9. CASE kind = "gossip_window_fill"
    <2>1. RateRules(kind) = {Rule(<<2>>, <<3>>, 90, "least", 5),
                            Rule(<<2>>, <<3>>, 1, "below", 6)}
      BY <1>9 DEF RateRules
    <2>2. d[2] \in U32 /\ d[3] \in U32 /\ d[5] = Byte(Pct(d[2], d[3]) >= 90)
          /\ d[6] = Byte(Pct(d[2], d[3]) = 0)
      BY <1>9, ZenonT(40) DEF Derived, d
    <2>3. Pct(d[2], d[3]) \in Nat
      BY <1>1, <2>2, Shares
    <2>4. Pct(d[2], d[3]) = 0 <=> Pct(d[2], d[3]) < 1
      BY <2>3
    <2>5. d[6] = Byte(Pct(d[2], d[3]) < 1)
      BY <2>2, <2>4, Zenon DEF Byte
    <2> QED BY <1>2, <2>1, <2>2, <2>5
  <1>10. CASE kind = "gossip_peer_diversity"
    <2>1. RateRules(kind) = {Rule(<<2>>, <<3>>, 20, "below", 5)}
      BY <1>10 DEF RateRules
    <2>2. d[2] \in U32 /\ d[3] \in U32 /\ d[5] = Byte(AtMost(Pct(d[2], d[3]), 100) < 20)
      BY <1>10, ZenonT(40) DEF Derived, d
    <2>3. Pct(d[2], d[3]) \in Nat
      BY <1>1, <2>2, Shares
    <2>4. AtMost(Pct(d[2], d[3]), 100) < 20 <=> Pct(d[2], d[3]) < 20
      BY <2>3 DEF AtMost
    <2>5. d[5] = Byte(Pct(d[2], d[3]) < 20)
      BY <2>2, <2>4, Zenon DEF Byte
    <2> QED BY <1>2, <2>1, <2>2, <2>5
  <1> QED
    BY <1>3, <1>4, <1>5, <1>6, <1>7, <1>8, <1>9, <1>10

\* The files whose whole is a sum of columns.
LEMMA SummedFlags ==
  ASSUME NEW e, Derived(kind, e.data),
         kind \in {"gossip_dedup_window", "gossip_epoch_bandwidth",
                   "gossip_latency_histogram", "gossip_ttl_tracker"}
  PROVE  \A rule \in RateRules(kind) : Exact(e, rule)
  <1>1. PICK d : d = e.data
    OBVIOUS
  <1>2. \A n \in U32 : n \in Nat /\ n \in Int
    BY Inputs
  <1>3. U32Max \in Nat
    BY Inputs
  <1>4. CASE kind = "gossip_dedup_window"
    <2>1. RateRules(kind) = {Rule(<<3>>, <<2, 3>>, 25, "least", 5)}
      BY <1>4 DEF RateRules
    <2>2. d[2] \in U32 /\ d[3] \in U32 /\ d[5] = Byte(Pct(d[3], SaturatingAdd(d[2], d[3])) >= 25)
      BY <1>1, <1>4, ZenonT(40) DEF Derived
    <2>3. d[2] \in Int /\ d[3] \in Int /\ d[3] \in Nat /\ d[2] + d[3] \in Nat
      BY <1>2, <2>2
    <2>4. SumOf(e, <<3>>) = d[3] /\ SumOf(e, <<2, 3>>) = d[2] + d[3]
      BY <1>1, <2>3, SumsOfColumns
    <2>5. d[2] + d[3] <= U32Max => SaturatingAdd(d[2], d[3]) = d[2] + d[3]
      BY <1>3, <2>3 DEF SaturatingAdd, AtMost
    <2>6. d[2] + d[3] <= U32Max => d[5] = Byte(Pct(d[3], d[2] + d[3]) >= 25)
      BY <2>2, <2>5, Zenon
    <2>7. Exact(e, Rule(<<3>>, <<2, 3>>, 25, "least", 5))
      BY <1>1, <2>3, <2>4, <2>6, ShareDecides
    <2> QED BY <2>1, <2>7
  <1>5. CASE kind = "gossip_ttl_tracker"
    <2>1. RateRules(kind) = {Rule(<<3>>, <<2, 3>>, 70, "below", 6)}
      BY <1>5 DEF RateRules
    <2>2. d[2] \in U32 /\ d[3] \in U32 /\ d[6] = Byte(Pct(d[3], SaturatingAdd(d[2], d[3])) < 70)
      BY <1>1, <1>5, ZenonT(40) DEF Derived
    <2>3. d[2] \in Int /\ d[3] \in Int /\ d[3] \in Nat /\ d[2] + d[3] \in Nat
      BY <1>2, <2>2
    <2>4. SumOf(e, <<3>>) = d[3] /\ SumOf(e, <<2, 3>>) = d[2] + d[3]
      BY <1>1, <2>3, SumsOfColumns
    <2>5. d[2] + d[3] <= U32Max => SaturatingAdd(d[2], d[3]) = d[2] + d[3]
      BY <1>3, <2>3 DEF SaturatingAdd, AtMost
    <2>6. d[2] + d[3] <= U32Max => d[6] = Byte(Pct(d[3], d[2] + d[3]) < 70)
      BY <2>2, <2>5, Zenon
    <2>7. Exact(e, Rule(<<3>>, <<2, 3>>, 70, "below", 6))
      BY <1>1, <2>3, <2>4, <2>6, ShareDecides
    <2> QED BY <2>1, <2>7
  <1>6. CASE kind = "gossip_epoch_bandwidth"
    <2>1. RateRules(kind) = {Rule(<<4>>, <<2, 3>>, 20, "least", 6)}
      BY <1>6 DEF RateRules
    <2>2. /\ d[2] \in U32 /\ d[3] \in U32 /\ d[4] \in U32
          /\ d[6] = Byte(Pct(d[4], d[2] + d[3]) >= 20)
      BY <1>1, <1>6, ZenonT(40) DEF Derived
    <2>3. d[2] \in Int /\ d[3] \in Int /\ d[4] \in Int /\ d[4] \in Nat /\ d[2] + d[3] \in Nat
      BY <1>2, <2>2
    <2>4. SumOf(e, <<4>>) = d[4] /\ SumOf(e, <<2, 3>>) = d[2] + d[3]
      BY <1>1, <2>3, SumsOfColumns
    <2>5. Exact(e, Rule(<<4>>, <<2, 3>>, 20, "least", 6))
      BY <1>1, <2>2, <2>3, <2>4, ShareDecides
    <2> QED BY <2>1, <2>5
  <1>7. CASE kind = "gossip_latency_histogram"
    <2>1. RateRules(kind) = {Rule(<<5>>, <<2, 3, 4, 5>>, 5, "least", 7)}
      BY <1>7 DEF RateRules
    <2>2. /\ d[2] \in U32 /\ d[3] \in U32 /\ d[4] \in U32 /\ d[5] \in U32
          /\ d[7] = Byte(Pct(d[5], AllOf(d)) >= 5)
      BY <1>1, <1>7, ZenonT(40) DEF Derived
    <2>3. PICK a, b, c, s : a = d[2] /\ b = d[3] /\ c = d[4] /\ s = d[5]
      OBVIOUS
    <2>4. a \in Nat /\ b \in Nat /\ c \in Nat /\ s \in Nat /\ s \in Int
      BY <1>2, <2>2, <2>3
    <2>5. [i \in DOMAIN <<2, 3, 4, 5>> |-> e.data[<<2, 3, 4, 5>>[i]]] = <<a, b, c, s>>
      BY <1>1, <2>3
    <2>6. Total(<<a, b, c, s>>) = a + b + c + s
      BY <2>4, SmallTotals
    <2>7. SumOf(e, <<2, 3, 4, 5>>) = a + b + c + s
      BY <2>5, <2>6 DEF SumOf
    <2>8. SumOf(e, <<5>>) = s
      BY <1>1, <2>3, <2>4, SumsOfColumns
    <2>9. a + b + c + s <= U32Max => AllOf(d) = a + b + c + s
      BY <1>3, <2>3, <2>4 DEF AllOf, SaturatingAdd, AtMost
    <2>10. a + b + c + s <= U32Max => d[7] = Byte(Pct(s, a + b + c + s) >= 5)
      BY <2>2, <2>3, <2>9, Zenon
    <2>11. a + b + c + s \in Nat
      BY <2>4
    <2>12. Exact(e, Rule(<<5>>, <<2, 3, 4, 5>>, 5, "least", 7))
      BY <1>1, <2>4, <2>7, <2>8, <2>10, <2>11, ShareDecides
    <2> QED BY <2>1, <2>12
  <1> QED
    BY <1>4, <1>5, <1>6, <1>7

\* The rate monitors, whatever side of which threshold they flag.
LEMMA MonitorFlags ==
  ASSUME NEW e, kind = "gossip_broadcast", aux[1] \in Policies, Monitored(aux[1], e.data)
  PROVE  \A rule \in RateRules(kind) : Exact(e, rule)
  <1>1. PICK d, t, part, whole :
           d = e.data /\ t = aux[1].threshold /\ part = d[2] /\ whole = d[3]
    OBVIOUS
  <1>2. t \in 1..99 /\ aux[1].side \in {"high", "low"}
    BY <1>1 DEF Policies
  <1>3. part \in Nat /\ whole \in Nat /\ d[5] = Byte(flagged(aux[1], rate_pct(part, whole)))
    BY <1>1 DEF Monitored
  <1>4. SumOf(e, <<2>>) = part /\ SumOf(e, <<3>>) = whole
    <2>1. e.data[2] \in Int /\ e.data[3] \in Int
      BY <1>1, <1>3
    <2> QED BY <1>1, <2>1, SumsOfColumns
  <1>5. PICK r : r = rate_pct(part, whole)
    OBVIOUS
  <1>6. r \in 0..100 /\ \A k \in 0..100 : r >= k <=> 100 * part >= k * AtLeastOne(whole)
    BY <1>3, <1>5, Shares
  <1>7. AtLeastOne(whole) \in Nat
    BY <1>3 DEF AtLeastOne
  <1>8. CASE aux[1].side = "high"
    <2>1. PICK rule : rule = Rule(<<2>>, <<3>>, t + 1, "least", 5)
      OBVIOUS
    <2>2. RateRules(kind) = {rule}
      BY <1>1, <1>8, <2>1 DEF RateRules
    <2>3. /\ rule.part = <<2>> /\ rule.whole = <<3>> /\ rule.limit = t + 1
          /\ rule.side = "least" /\ rule.flag = 5
      BY <2>1 DEF Rule
    <2>4. flagged(aux[1], r) <=> r > t
      BY <1>1, <1>8 DEF flagged
    <2>5. r > t <=> 100 * part >= (t + 1) * AtLeastOne(whole)
      <3>1. t + 1 \in 0..100 /\ (r > t <=> r >= t + 1)
        BY <1>2, <1>6
      <3> QED BY <1>6, <3>1
    <2>6. d[5] = Byte(100 * part >= (t + 1) * AtLeastOne(whole))
      BY <1>3, <1>5, <2>4, <2>5, Zenon DEF Byte
    <2>7. Exact(e, rule)
      BY <1>1, <1>4, <2>3, <2>6, Zenon DEF Exact, InRange
    <2> QED BY <2>2, <2>7
  <1>9. CASE aux[1].side = "low"
    <2>1. PICK rule : rule = Rule(<<2>>, <<3>>, t, "below", 5)
      OBVIOUS
    <2>2. RateRules(kind) = {rule}
      BY <1>1, <1>9, <2>1 DEF RateRules
    <2>3. /\ rule.part = <<2>> /\ rule.whole = <<3>> /\ rule.limit = t
          /\ rule.side = "below" /\ rule.side # "least" /\ rule.flag = 5
      BY <2>1 DEF Rule
    <2>4. flagged(aux[1], r) <=> r < t
      BY <1>1, <1>9 DEF flagged
    <2>5. r < t <=> 100 * part < t * AtLeastOne(whole)
      <3>1. t \in 0..100 /\ (r < t <=> ~(r >= t)) /\ t * AtLeastOne(whole) \in Nat
        <4>1. PICK m \in Nat : m = AtLeastOne(whole)
          BY <1>7
        <4>2. t \in 0..100 /\ (r < t <=> ~(r >= t)) /\ t * m \in Nat
          BY <1>2, <1>6
        <4> QED BY <4>1, <4>2
      <3>2. 100 * part < t * AtLeastOne(whole) <=> ~(100 * part >= t * AtLeastOne(whole))
        BY <1>3, <3>1
      <3> QED BY <1>6, <3>1, <3>2
    <2>6. d[5] = Byte(100 * part < t * AtLeastOne(whole))
      BY <1>3, <1>5, <2>4, <2>5, Zenon DEF Byte
    <2>7. Exact(e, rule)
      BY <1>1, <1>4, <2>3, <2>6, Zenon DEF Exact, InRange
    <2> QED BY <2>2, <2>7
  <1> QED
    BY <1>2, <1>8, <1>9

\* Every flag of every entry is exact.
LEMMA FlagsExact == IInv => FlagsAreExact
  <1>1. SUFFICES ASSUME IInv, NEW i \in DOMAIN log
        PROVE \A rule \in RateRules(kind) : Exact(log[i], rule)
    BY DEF FlagsAreExact, Exact
  <1>2. Row(kind, aux, log[i].data)
    BY <1>1 DEF IInv
  <1>3. Derived(kind, log[i].data)
    BY <1>2 DEF Row
  <1>4. CASE kind = "gossip_broadcast"
    <2>1. PICK policy \in Catalogue : aux = <<policy>>
      BY <1>1, <1>4 DEF IInv, Beside
    <2>2. aux[1] \in Policies
      BY <2>1, CatalogueIsPolicies
    <2>3. Monitored(aux[1], log[i].data)
      BY <1>2, <1>4 DEF Row
    <2> QED BY <1>4, <2>2, <2>3, MonitorFlags
  <1>5. CASE kind \in {"gossip_connection_pool", "gossip_epoch_convergence",
                      "gossip_epoch_error", "gossip_fanout_epoch", "gossip_peer_diversity",
                      "gossip_peer_timeout", "gossip_peer_uptime", "gossip_window_fill"}
    BY <1>3, <1>5, ColumnFlags
  <1>6. CASE kind \in {"gossip_dedup_window", "gossip_epoch_bandwidth",
                      "gossip_latency_histogram", "gossip_ttl_tracker"}
    BY <1>3, <1>6, SummedFlags
  <1>7. CASE kind \notin {"gossip_broadcast", "gossip_connection_pool",
                         "gossip_epoch_convergence", "gossip_epoch_error", "gossip_fanout_epoch",
                         "gossip_peer_diversity", "gossip_peer_timeout", "gossip_peer_uptime",
                         "gossip_window_fill", "gossip_dedup_window", "gossip_epoch_bandwidth",
                         "gossip_latency_histogram", "gossip_ttl_tracker"}
    <2>1. RateRules(kind) = {}
      BY <1>7 DEF RateRules
    <2> QED BY <2>1
  <1> QED
    BY <1>4, <1>5, <1>6, <1>7

-----------------------------------------------------------------------------
(* An epoch that did no better is not classed better. *)

\* What WorseIsNotClassedBetter says of the data of two entries and a reading.
NotBetter(r, d, c) ==
    (/\ \A f \in r.bad  : d[f] >= c[f]
     /\ \A f \in r.good : d[f] <= c[f]) => d[r.class] >= c[r.class]

\* The quotient grows with the dividend and as the divisor shrinks.
LEMMA QuotientGrows ==
  ASSUME NEW a \in Nat, NEW b \in Nat, a >= b, NEW m \in Nat \ {0}, NEW n \in Nat \ {0}, m <= n
  PROVE  a \div m >= b \div n /\ a \div m \in Nat /\ b \div n \in Nat
  <1>1. PICK k \in Nat : k = b \div n
    BY QuotientReaches
  <1>2. b >= k * n
    BY <1>1, QuotientReaches
  <1>3. k * n >= k * m /\ k * m \in Nat
    OBVIOUS
  <1>4. a >= k * m
    BY <1>2, <1>3
  <1> QED
    BY <1>1, <1>4, QuotientReaches

\* Shares of no more than the whole grow alike, and are at most 100.
LEMMA ShareGrows ==
  ASSUME NEW p \in Nat, NEW w \in Nat, p <= w, NEW q \in Nat, NEW v \in Nat, q <= v
  PROVE  /\ Pct(p, w) \in 0..100
         /\ p >= q /\ (w <= v \/ v = 0) => Pct(p, w) >= Pct(q, v)
         /\ \A k \in Nat : Pct(p, w) >= k <=> 100 * p >= k * AtLeastOne(w)
  <1>1. PICK m, n : m = AtLeastOne(w) /\ n = AtLeastOne(v)
    OBVIOUS
  <1>2. m \in Nat \ {0} /\ n \in Nat \ {0} /\ p <= m
    BY <1>1 DEF AtLeastOne
  <1>3. Pct(p, w) = (p * 100) \div m /\ Pct(q, v) = (q * 100) \div n
    BY <1>1, Shares
  <1>4. \A k \in Nat : (p * 100) \div m >= k <=> p * 100 >= k * m
    BY <1>2, QuotientReaches
  <1>5. (p * 100) \div m \in Nat
    BY <1>2, QuotientReaches
  <1>6. ~((p * 100) \div m >= 101)
    <2>1. ~(p * 100 >= 101 * m)
      BY <1>2
    <2> QED BY <1>4, <2>1
  <1>7. ASSUME p >= q, w <= v \/ v = 0 PROVE Pct(p, w) >= Pct(q, v)
    <2>1. CASE w <= v
      <3>1. m <= n
        BY <1>1, <2>1 DEF AtLeastOne
      <3>2. PICK a \in Nat, b \in Nat : a = p * 100 /\ b = q * 100
        OBVIOUS
      <3>3. a >= b
        BY <1>7, <3>2
      <3>4. a \div m >= b \div n
        BY <1>2, <3>1, <3>3, QuotientGrows
      <3> QED BY <1>3, <3>2, <3>4
    <2>2. CASE v = 0
      <3>1. q = 0 /\ n = 1
        BY <1>1, <2>2 DEF AtLeastOne
      <3>2. (q * 100) \div n = 0
        BY <3>1
      <3> QED BY <1>3, <1>5, <3>2
    <2> QED BY <1>7, <2>1, <2>2
  <1> QED
    BY <1>1, <1>3, <1>4, <1>5, <1>6, <1>7

\* Saturating sums of one or two more, clamped once at the end.
LEMMA SaturatingSums ==
  ASSUME NEW a \in U32, NEW b \in U32, NEW c \in U32, NEW s \in U32
  PROVE  /\ SaturatingAdd(a, b) = AtMost(a + b, U32Max)
         /\ SaturatingAdd(SaturatingAdd(a, b), c) = AtMost(a + b + c, U32Max)
         /\ SaturatingAdd(SaturatingAdd(SaturatingAdd(a, b), c), s)
              = AtMost(a + b + c + s, U32Max)
  <1>1. U32Max \in Nat /\ a \in Nat /\ b \in Nat /\ c \in Nat /\ s \in Nat
    BY Inputs
  <1> QED
    BY <1>1 DEF SaturatingAdd, AtMost

\* A share of a saturating sum that it is part of: more of the part and less
\* of the rest never lowers it under a limit it reached.
LEMMA SaturatedShare ==
  ASSUME NEW p \in U32, NEW x \in Nat, NEW q \in U32, NEW y \in Nat, p >= q, x <= y,
         NEW limit \in {5, 25}
  PROVE  Pct(q, AtMost(y + q, U32Max)) >= limit => Pct(p, AtMost(x + p, U32Max)) >= limit
  <1>1. U32Max \in Nat /\ p \in Nat /\ q \in Nat /\ p <= U32Max /\ q <= U32Max /\ U32Max >= 100
    BY Inputs DEF U32
  <1>2. PICK w, v : w = AtMost(x + p, U32Max) /\ v = AtMost(y + q, U32Max)
    OBVIOUS
  <1>3. /\ w = IF x + p > U32Max THEN U32Max ELSE x + p
        /\ v = IF y + q > U32Max THEN U32Max ELSE y + q
    BY <1>2 DEF AtMost
  <1>4. w \in Nat /\ v \in Nat /\ p <= w /\ q <= v
    BY <1>1, <1>3
  <1>5. \A k \in Nat : Pct(p, w) >= k <=> 100 * p >= k * AtLeastOne(w)
    BY <1>1, <1>4, ShareGrows
  <1>6. \A k \in Nat : Pct(q, v) >= k <=> 100 * q >= k * AtLeastOne(v)
    BY <1>1, <1>4, ShareGrows
  <1>7. PICK m, n : m = (IF w = 0 THEN 1 ELSE w) /\ n = (IF v = 0 THEN 1 ELSE v)
    OBVIOUS
  <1>8. AtLeastOne(w) = m /\ AtLeastOne(v) = n
    BY <1>7 DEF AtLeastOne
  <1>9. CASE limit = 5
    <2>1. 100 * q >= 5 * n => 100 * p >= 5 * m
      BY <1>1, <1>3, <1>7
    <2>2. /\ Pct(p, w) >= 5 <=> 100 * p >= 5 * m
          /\ Pct(q, v) >= 5 <=> 100 * q >= 5 * n
      BY <1>5, <1>6, <1>8
    <2> QED BY <1>2, <1>9, <2>1, <2>2
  <1>10. CASE limit = 25
    <2>1. 100 * q >= 25 * n => 100 * p >= 25 * m
      BY <1>1, <1>3, <1>7
    <2>2. /\ Pct(p, w) >= 25 <=> 100 * p >= 25 * m
          /\ Pct(q, v) >= 25 <=> 100 * q >= 25 * n
      BY <1>5, <1>6, <1>8
    <2> QED BY <1>2, <1>10, <2>1, <2>2
  <1> QED
    BY <1>9, <1>10

\* The two entries of a log, read by the rules of their file.
LEMMA PlainReadings ==
  ASSUME NEW k, NEW d, NEW c, Typed(k, d), Typed(k, c), Derived(k, d), Derived(k, c),
         k \in {"gossip_backpressure", "gossip_epoch_health", "gossip_epoch_window",
                "gossip_health_report", "gossip_peer_reputation"}
  PROVE  \A r \in Readings(k) : NotBetter(r, d, c)
  <1>1. CASE k = "gossip_backpressure"
    <2>1. PICK r : r = Reading({2}, {3}, 4)
      OBVIOUS
    <2>2. Readings(k) = {r} /\ r.bad = {2} /\ r.good = {3} /\ r.class = 4
      BY <1>1, <2>1 DEF Readings, Reading
    <2>3. d[4] = Byte(d[2] > d[3]) /\ c[4] = Byte(c[2] > c[3])
      BY <1>1, ZenonT(40) DEF Derived
    <2>4. d[2] \in Int /\ d[3] \in Int /\ c[2] \in Int /\ c[3] \in Int
      BY <1>1 DEF Typed, Width
    <2>5. d[2] >= c[2] /\ d[3] <= c[3] => d[4] >= c[4]
      BY <2>3, <2>4 DEF Byte
    <2>6. NotBetter(r, d, c)
      BY <2>2, <2>5 DEF NotBetter
    <2> QED BY <2>2, <2>6
  <1>2. CASE k = "gossip_epoch_health"
    <2>1. PICK r : r = Reading({3, 4, 5}, {2}, 6)
      OBVIOUS
    <2>2. Readings(k) = {r} /\ r.bad = {3, 4, 5} /\ r.good = {2} /\ r.class = 6
      BY <1>2, <2>1 DEF Readings, Reading
    <2>3. /\ d[6] = EpochHealthVerdict(d[2], d[3], d[4], d[5]) /\ d[5] \in Flags
          /\ c[6] = EpochHealthVerdict(c[2], c[3], c[4], c[5]) /\ c[5] \in Flags
      BY <1>2, ZenonT(40) DEF Derived
    <2>4. /\ d[2] \in Int /\ d[3] \in Int /\ d[4] \in Int
          /\ c[2] \in Int /\ c[3] \in Int /\ c[4] \in Int
      BY <1>2 DEF Typed, Width
    <2>5. d[3] >= c[3] /\ d[4] >= c[4] /\ d[5] >= c[5] /\ d[2] <= c[2] => d[6] >= c[6]
      BY <2>3, <2>4 DEF EpochHealthVerdict, Flags
    <2>6. NotBetter(r, d, c)
      BY <2>2, <2>5 DEF NotBetter
    <2> QED BY <2>2, <2>6
  <1>3. CASE k = "gossip_epoch_window"
    <2>1. PICK r : r = Reading({}, {3}, 4)
      OBVIOUS
    <2>2. Readings(k) = {r} /\ r.bad = {} /\ r.good = {3} /\ r.class = 4
      BY <1>3, <2>1 DEF Readings, Reading
    <2>3. d[4] = GossipWindowState(d[3]) /\ c[4] = GossipWindowState(c[3])
      BY <1>3, ZenonT(40) DEF Derived
    <2>4. d[3] \in Int /\ c[3] \in Int
      BY <1>3 DEF Typed, Width
    <2>5. d[3] <= c[3] => d[4] >= c[4]
      BY <2>3, <2>4 DEF GossipWindowState
    <2>6. NotBetter(r, d, c)
      BY <2>2, <2>5 DEF NotBetter
    <2> QED BY <2>2, <2>6
  <1>4. CASE k = "gossip_health_report"
    <2>1. PICK r : r = Reading({3, 4, 5, 6, 7, 8}, {}, 10)
      OBVIOUS
    <2>2. Readings(k) = {r} /\ r.bad = {3, 4, 5, 6, 7, 8} /\ r.good = {} /\ r.class = 10
      BY <1>4, <2>1 DEF Readings, Reading
    <2>3. /\ d[10] = NetworkHealthClass(d[5], d[3], d[4], d[6], d[7], d[8]) /\ d[5] >= 0
          /\ c[10] = NetworkHealthClass(c[5], c[3], c[4], c[6], c[7], c[8]) /\ c[5] >= 0
      BY <1>4, ZenonT(40) DEF Derived
    <2>4. /\ d[3] \in Int /\ d[4] \in Int /\ d[5] \in Int /\ d[6] \in Int /\ d[7] \in Int
          /\ c[3] \in Int /\ c[4] \in Int /\ c[5] \in Int /\ c[6] \in Int /\ c[7] \in Int
          /\ d[8] \in Int /\ c[8] \in Int
      BY <1>4 DEF Typed, Width
    <2>5. d[3] >= c[3] /\ d[4] >= c[4] /\ d[5] >= c[5] /\ d[6] >= c[6] /\ d[7] >= c[7]
            /\ d[8] >= c[8] => d[10] >= c[10]
      BY <2>3, <2>4 DEF NetworkHealthClass
    <2>6. NotBetter(r, d, c)
      BY <2>2, <2>5 DEF NotBetter
    <2> QED BY <2>2, <2>6
  <1>5. CASE k = "gossip_peer_reputation"
    <2>1. PICK r : r = Reading({}, {3}, 4)
      OBVIOUS
    <2>2. Readings(k) = {r} /\ r.bad = {} /\ r.good = {3} /\ r.class = 4
      BY <1>5, <2>1 DEF Readings, Reading
    <2>3. d[4] = ReputationClass(d[3]) /\ c[4] = ReputationClass(c[3])
      BY <1>5, ZenonT(40) DEF Derived
    <2>4. d[3] \in Int /\ c[3] \in Int
      BY <1>5 DEF Typed, Width
    <2>5. d[3] <= c[3] => d[4] >= c[4]
      BY <2>3, <2>4 DEF ReputationClass
    <2>6. NotBetter(r, d, c)
      BY <2>2, <2>5 DEF NotBetter
    <2> QED BY <2>2, <2>6
  <1> QED
    BY <1>1, <1>2, <1>3, <1>4, <1>5

\* The files that class by a share.
LEMMA ShareReadings ==
  ASSUME NEW k, NEW d, NEW c, Derived(k, d), Derived(k, c),
         k \in {"gossip_dedup_window", "gossip_delivery_ratio", "gossip_drop_rate",
                "gossip_latency_histogram"}
  PROVE  \A r \in Readings(k) : NotBetter(r, d, c)
  <1>0. U32Max \in Nat /\ U32Max >= 100 /\ \A n \in U32 : n \in Nat /\ n <= U32Max
    BY Inputs DEF U32
  <1>1. CASE k = "gossip_dedup_window"
    <2>1. PICK r : r = Reading({3}, {2}, 5)
      OBVIOUS
    <2>2. Readings(k) = {r} /\ r.bad = {3} /\ r.good = {2} /\ r.class = 5
      BY <1>1, <2>1 DEF Readings, Reading
    <2>3. /\ d[2] \in U32 /\ d[3] \in U32
          /\ d[5] = Byte(Pct(d[3], SaturatingAdd(d[2], d[3])) >= 25)
          /\ c[2] \in U32 /\ c[3] \in U32
          /\ c[5] = Byte(Pct(c[3], SaturatingAdd(c[2], c[3])) >= 25)
      BY <1>1, ZenonT(40) DEF Derived
    <2>4. PICK x, p, y, q : x = d[2] /\ p = d[3] /\ y = c[2] /\ q = c[3]
      OBVIOUS
    <2>5. x \in Nat /\ p \in U32 /\ y \in Nat /\ q \in U32
      BY <1>0, <2>3, <2>4
    <2>6. p >= q /\ x <= y =>
            (Pct(q, AtMost(y + q, U32Max)) >= 25 => Pct(p, AtMost(x + p, U32Max)) >= 25)
      BY <2>5, SaturatedShare
    <2>7. /\ d[5] = IF Pct(p, AtMost(x + p, U32Max)) >= 25 THEN 1 ELSE 0
          /\ c[5] = IF Pct(q, AtMost(y + q, U32Max)) >= 25 THEN 1 ELSE 0
      BY <2>3, <2>4 DEF Byte, SaturatingAdd
    <2>8. p >= q /\ x <= y => d[5] >= c[5]
      BY <2>6, <2>7
    <2>9. NotBetter(r, d, c)
      BY <2>2, <2>4, <2>8 DEF NotBetter
    <2> QED BY <2>2, <2>9
  <1>2. CASE k = "gossip_delivery_ratio"
    <2>1. PICK r : r = Reading({2}, {3}, 5)
      OBVIOUS
    <2>2. Readings(k) = {r} /\ r.bad = {2} /\ r.good = {3} /\ r.class = 5
      BY <1>2, <2>1 DEF Readings, Reading
    <2>3. /\ d[2] \in U32 /\ d[3] \in 0..d[2] /\ d[5] = DeliveryClass(Pct(d[3], d[2]))
          /\ c[2] \in U32 /\ c[3] \in 0..c[2] /\ c[5] = DeliveryClass(Pct(c[3], c[2]))
      BY <1>2, ZenonT(40) DEF Derived
    <2>4. /\ d[2] \in Nat /\ d[3] \in Nat /\ d[3] <= d[2]
          /\ c[2] \in Nat /\ c[3] \in Nat /\ c[3] <= c[2]
      BY <1>0, <2>3
    <2>5. PICK w, p, v, q : w = d[2] /\ p = d[3] /\ v = c[2] /\ q = c[3]
      OBVIOUS
    <2>6. ASSUME w >= v, p <= q PROVE Pct(p, w) <= Pct(q, v)
      <3>1. Pct(q, v) >= Pct(p, w)
        BY <2>4, <2>5, <2>6, ShareGrows
      <3>2. Pct(q, v) \in 0..100 /\ Pct(p, w) \in 0..100
        BY <2>4, <2>5, ShareGrows
      <3> QED BY <3>1, <3>2
    <2>7. Pct(q, v) \in 0..100 /\ Pct(p, w) \in 0..100
      BY <2>4, <2>5, ShareGrows
    <2>8. \A a, b \in 0..100 : a <= b => DeliveryClass(a) >= DeliveryClass(b)
      BY DEF DeliveryClass
    <2>9. w >= v /\ p <= q => DeliveryClass(Pct(p, w)) >= DeliveryClass(Pct(q, v))
      BY <2>6, <2>7, <2>8
    <2>10. NotBetter(r, d, c)
      BY <2>2, <2>3, <2>5, <2>9 DEF NotBetter
    <2> QED BY <2>2, <2>10
  <1>3. CASE k = "gossip_drop_rate"
    <2>1. PICK r : r = Reading({3}, {2}, 4)
      OBVIOUS
    <2>2. Readings(k) = {r} /\ r.bad = {3} /\ r.good = {2} /\ r.class = 4
      BY <1>3, <2>1 DEF Readings, Reading
    <2>3. /\ d[2] \in U32 /\ d[3] \in 0..d[2]
          /\ d[4] = IF d[2] = 0 THEN 0 ELSE Pct(d[3], d[2])
          /\ c[2] \in U32 /\ c[3] \in 0..c[2]
          /\ c[4] = IF c[2] = 0 THEN 0 ELSE Pct(c[3], c[2])
      BY <1>3, ZenonT(40) DEF Derived
    <2>4. PICK w, p, v, q : w = d[2] /\ p = d[3] /\ v = c[2] /\ q = c[3]
      OBVIOUS
    <2>5. w \in Nat /\ p \in Nat /\ p <= w /\ v \in Nat /\ q \in Nat /\ q <= v
      BY <1>0, <2>3, <2>4
    <2>6. Pct(p, w) \in 0..100 /\ Pct(q, v) \in 0..100
      BY <2>5, ShareGrows
    <2>7. p >= q /\ w <= v => Pct(p, w) >= Pct(q, v)
      BY <2>5, ShareGrows
    <2>8. Pct(0, 0) = 0
      <3>1. Pct(0, 0) = (0 * 100) \div AtLeastOne(0)
        BY Shares
      <3> QED BY <3>1 DEF AtLeastOne
    <2>9. /\ d[4] = IF w = 0 THEN 0 ELSE Pct(p, w)
          /\ c[4] = IF v = 0 THEN 0 ELSE Pct(q, v)
      BY <2>3, <2>4
    <2>10. d[4] = Pct(p, w) /\ c[4] = Pct(q, v)
      <3>1. (w = 0 => p = 0) /\ (v = 0 => q = 0)
        BY <2>5
      <3> QED BY <2>8, <2>9, <3>1
    <2>11. NotBetter(r, d, c)
      BY <2>2, <2>4, <2>7, <2>10 DEF NotBetter
    <2> QED BY <2>2, <2>11
  <1>4. CASE k = "gossip_latency_histogram"
    <2>1. PICK r : r = Reading({5}, {2, 3, 4}, 7)
      OBVIOUS
    <2>2. Readings(k) = {r} /\ r.bad = {5} /\ r.good = {2, 3, 4} /\ r.class = 7
      BY <1>4, <2>1 DEF Readings, Reading
    <2>3. /\ d[2] \in U32 /\ d[3] \in U32 /\ d[4] \in U32 /\ d[5] \in U32
          /\ d[7] = Byte(Pct(d[5], AllOf(d)) >= 5)
          /\ c[2] \in U32 /\ c[3] \in U32 /\ c[4] \in U32 /\ c[5] \in U32
          /\ c[7] = Byte(Pct(c[5], AllOf(c)) >= 5)
      BY <1>4, ZenonT(40) DEF Derived
    <2>4. PICK x, p, y, q : /\ x = d[2] + d[3] + d[4] /\ p = d[5]
                            /\ y = c[2] + c[3] + c[4] /\ q = c[5]
      OBVIOUS
    <2>5. x \in Nat /\ p \in U32 /\ y \in Nat /\ q \in U32
      BY <1>0, <2>3, <2>4
    <2>6. p >= q /\ x <= y =>
            (Pct(q, AtMost(y + q, U32Max)) >= 5 => Pct(p, AtMost(x + p, U32Max)) >= 5)
      BY <2>5, SaturatedShare
    <2>7. AllOf(d) = AtMost(x + p, U32Max) /\ AllOf(c) = AtMost(y + q, U32Max)
      BY <2>3, <2>4, SaturatingSums DEF AllOf
    <2>8. /\ d[7] = IF Pct(p, AtMost(x + p, U32Max)) >= 5 THEN 1 ELSE 0
          /\ c[7] = IF Pct(q, AtMost(y + q, U32Max)) >= 5 THEN 1 ELSE 0
      BY <2>3, <2>4, <2>7 DEF Byte
    <2>9. p >= q /\ x <= y => d[7] >= c[7]
      BY <2>6, <2>8
    <2>10. d[2] <= c[2] /\ d[3] <= c[3] /\ d[4] <= c[4] => x <= y
      BY <1>0, <2>3, <2>4
    <2>11. NotBetter(r, d, c)
      BY <2>2, <2>4, <2>9, <2>10 DEF NotBetter
    <2> QED BY <2>2, <2>11
  <1> QED
    BY <1>1, <1>2, <1>3, <1>4

\* The files that class by a mean of saturating sums, or by a top.
LEMMA MeanReadings ==
  ASSUME NEW k, NEW d, NEW c, Derived(k, d), Derived(k, c),
         k \in RangeKinds \cup {"gossip_neighbor_score"}
  PROVE  \A r \in Readings(k) : NotBetter(r, d, c)
  <1>0. U32Max \in Nat /\ \A n \in U32 : n \in Nat /\ n <= U32Max
    BY Inputs DEF U32
  <1>1. CASE k \in RangeKinds
    <2>1. PICK r, s : r = Reading({2, 3}, {}, 4) /\ s = Reading({3}, {}, 5)
      OBVIOUS
    <2>2. Readings(k) = {r, s}
      BY <1>1, <2>1 DEF Readings, RangeKinds
    <2>3. /\ r.bad = {2, 3} /\ r.good = {} /\ r.class = 4
          /\ s.bad = {3} /\ s.good = {} /\ s.class = 5
      BY <2>1 DEF Reading
    <2>4. /\ d[2] \in U32 /\ d[3] \in U32
          /\ d[4] = SaturatingAdd(d[2], d[3]) \div 2 /\ d[5] = Byte(d[3] >= Limit(k))
          /\ c[2] \in U32 /\ c[3] \in U32
          /\ c[4] = SaturatingAdd(c[2], c[3]) \div 2 /\ c[5] = Byte(c[3] >= Limit(k))
      BY <1>1, ZenonT(40) DEF Derived
    <2>5. PICK a, b : a = SaturatingAdd(d[2], d[3]) /\ b = SaturatingAdd(c[2], c[3])
      OBVIOUS
    <2>6. /\ a \in Nat /\ b \in Nat
          /\ d[2] >= c[2] /\ d[3] >= c[3] => a >= b
      BY <1>0, <2>4, <2>5 DEF SaturatingAdd, AtMost
    <2>7. a >= b => a \div 2 >= b \div 2
      BY <2>6
    <2>8. d[2] >= c[2] /\ d[3] >= c[3] => d[4] >= c[4]
      BY <2>4, <2>5, <2>6, <2>7
    <2>9. Limit(k) \in Int
      BY DEF Limit
    <2>10. d[3] \in Int /\ c[3] \in Int
      BY <1>0, <2>4
    <2>11. d[3] >= c[3] => d[5] >= c[5]
      BY <2>4, <2>9, <2>10 DEF Byte
    <2>12. NotBetter(r, d, c) /\ NotBetter(s, d, c)
      BY <2>3, <2>8, <2>11 DEF NotBetter
    <2> QED BY <2>2, <2>12
  <1>2. CASE k = "gossip_neighbor_score"
    <2>1. PICK r : r = Reading({}, {3, 4, 5}, 7)
      OBVIOUS
    <2>2. Readings(k) = {r} /\ r.bad = {} /\ r.good = {3, 4, 5} /\ r.class = 7
      BY <1>2, <2>1 DEF Readings, Reading
    <2>3. /\ d[3] \in U32 /\ d[4] \in U32 /\ d[5] \in U32
          /\ d[7] = NeighborTier(SaturatingAdd(SaturatingAdd(d[3], d[4]), d[5]) \div 3)
          /\ c[3] \in U32 /\ c[4] \in U32 /\ c[5] \in U32
          /\ c[7] = NeighborTier(SaturatingAdd(SaturatingAdd(c[3], c[4]), c[5]) \div 3)
      BY <1>2, ZenonT(40) DEF Derived
    <2>4. PICK a, b : /\ a = SaturatingAdd(SaturatingAdd(d[3], d[4]), d[5])
                      /\ b = SaturatingAdd(SaturatingAdd(c[3], c[4]), c[5])
      OBVIOUS
    <2>5. a = AtMost(d[3] + d[4] + d[5], U32Max) /\ b = AtMost(c[3] + c[4] + c[5], U32Max)
      BY <2>3, <2>4, SaturatingSums
    <2>6. /\ a \in Nat /\ b \in Nat
          /\ d[3] <= c[3] /\ d[4] <= c[4] /\ d[5] <= c[5] => a <= b
      BY <1>0, <2>3, <2>5 DEF AtMost
    <2>7. a <= b => NeighborTier(a \div 3) >= NeighborTier(b \div 3)
      BY <2>6 DEF NeighborTier
    <2>8. d[7] = NeighborTier(a \div 3) /\ c[7] = NeighborTier(b \div 3)
      BY <2>3, <2>4
    <2>9. NotBetter(r, d, c)
      BY <2>2, <2>6, <2>7, <2>8 DEF NotBetter
    <2> QED BY <2>2, <2>9
  <1> QED
    BY <1>1, <1>2

\* Between any two entries of a log, the one that did no better is not classed
\* better.
LEMMA NoInversion == IInv => WorseIsNotClassedBetter
  <1>1. SUFFICES ASSUME IInv, NEW i \in DOMAIN log, NEW j \in DOMAIN log,
                        NEW r \in Readings(kind)
                 PROVE  NotBetter(r, log[i].data, log[j].data)
    BY DEF WorseIsNotClassedBetter, NotBetter
  <1>2. PICK d, c : d = log[i].data /\ c = log[j].data
    OBVIOUS
  <1>3. Row(kind, aux, d) /\ Row(kind, aux, c)
    BY <1>1, <1>2 DEF IInv
  <1>4. Typed(kind, d) /\ Derived(kind, d) /\ Typed(kind, c) /\ Derived(kind, c)
    BY <1>3 DEF Row
  <1>5. \/ kind \in {"gossip_backpressure", "gossip_epoch_health", "gossip_epoch_window",
                     "gossip_health_report", "gossip_peer_reputation"}
        \/ kind \in {"gossip_dedup_window", "gossip_delivery_ratio", "gossip_drop_rate",
                     "gossip_latency_histogram"}
        \/ kind \in RangeKinds \cup {"gossip_neighbor_score"}
    BY <1>1 DEF Readings, RangeKinds
  <1>6. NotBetter(r, d, c)
    BY <1>1, <1>4, <1>5, PlainReadings, ShareReadings, MeanReadings
  <1> QED
    BY <1>2, <1>6

\* What the code makes of an epoch follows from its numbers: no truncation,
\* cap or substitution decides a flag, and no cascade of thresholds inverts.
THEOREM VerdictsHold == Spec => []VerdictsFollowTheNumbers
  <1>1. IInv => VerdictsFollowTheNumbers
    BY FlagsExact, NoInversion DEF VerdictsFollowTheNumbers
  <1> QED
    BY <1>1, InvariantHolds, PTL

-----------------------------------------------------------------------------
(* What a log says of one peer, and of its last entries. *)

\* The entries of l whose column f is p: ForPeer, of any log.
Mine(l, f, p) ==
    LET mine[n \in 0..Len(l)] ==
            IF n = 0 THEN << >>
            ELSE IF l[n].data[f] = p THEN Append(mine[n - 1], l[n]) ELSE mine[n - 1]
    IN  mine[Len(l)]

\* The function g of what Mine has collected after each of n entries.
Picks(l, f, p, g, m) ==
    g = [n \in 0..m |->
            IF n = 0 THEN << >>
            ELSE IF l[n].data[f] = p THEN Append(g[n - 1], l[n]) ELSE g[n - 1]]

\* There is such a function for every length.
LEMMA PicksExist ==
  ASSUME NEW l, NEW f, NEW p, NEW m \in Nat
  PROVE  \E g : Picks(l, f, p, g, m)
  <1>1. PICK T : T = {k \in Nat : \E g : Picks(l, f, p, g, k)}
    OBVIOUS
  <1>2. 0 \in T
    <2>1. PICK g : g = [i \in 0..0 |-> << >>]
      OBVIOUS
    <2>2. Picks(l, f, p, g, 0)
      BY <2>1 DEF Picks
    <2> QED BY <1>1, <2>2
  <1>3. ASSUME NEW k \in 0..(m - 1), k \in T PROVE k + 1 \in T
    <2>1. PICK g : Picks(l, f, p, g, k)
      BY <1>1, <1>3
    <2>2. PICK v : v = IF l[k + 1].data[f] = p THEN Append(g[k], l[k + 1]) ELSE g[k]
      OBVIOUS
    <2>3. PICK h : h = [i \in 0..(k + 1) |-> IF i = k + 1 THEN v ELSE g[i]]
      OBVIOUS
    <2>4. \A i \in 0..k : g[i] = IF i = 0 THEN << >>
                                 ELSE IF l[i].data[f] = p THEN Append(g[i - 1], l[i])
                                      ELSE g[i - 1]
      BY <2>1 DEF Picks
    <2>5. ASSUME NEW i \in 0..(k + 1)
          PROVE  h[i] = IF i = 0 THEN << >>
                        ELSE IF l[i].data[f] = p THEN Append(h[i - 1], l[i]) ELSE h[i - 1]
      <3>1. CASE i = k + 1
        <4>1. h[i] = v /\ h[i - 1] = g[k] /\ i # 0
          BY <2>3, <3>1
        <4> QED BY <2>2, <3>1, <4>1
      <3>2. CASE i = 0
        <4>1. h[i] = g[0] /\ g[0] = << >>
          BY <2>3, <2>4, <3>2
        <4> QED BY <3>2, <4>1
      <3>3. CASE i \in 1..k
        <4>1. h[i] = g[i] /\ h[i - 1] = g[i - 1] /\ i # 0 /\ i \in 0..k
          BY <2>3, <3>3
        <4> QED BY <2>4, <4>1
      <3> QED BY <3>1, <3>2, <3>3
    <2>6. DOMAIN h = 0..(k + 1) /\ h = [i \in 0..(k + 1) |-> h[i]]
      BY <2>3
    <2>7. Picks(l, f, p, h, k + 1)
      BY <2>5, <2>6 DEF Picks
    <2> QED BY <1>1, <2>7
  <1>4. \A k \in 0..m : k \in T
    BY <1>2, <1>3, SetInduction, Zenon
  <1>5. m \in T
    BY <1>4
  <1> QED
    BY <1>1, <1>5

\* What Mine collects, entry by entry.
LEMMA MineIs ==
  ASSUME NEW l, Len(l) \in Nat, NEW f, NEW p
  PROVE  \E g : /\ g[0] = << >> /\ Mine(l, f, p) = g[Len(l)]
                /\ \A n \in 1..Len(l) :
                      g[n] = IF l[n].data[f] = p THEN Append(g[n - 1], l[n]) ELSE g[n - 1]
  <1>1. PICK g : g = (CHOOSE h : Picks(l, f, p, h, Len(l)))
    OBVIOUS
  <1>2. Picks(l, f, p, g, Len(l))
    BY <1>1, PicksExist
  <1>3. Mine(l, f, p) = g[Len(l)]
    BY <1>1 DEF Mine, Picks
  <1>4. g[0] = << >>
    BY <1>2 DEF Picks
  <1>5. \A n \in 1..Len(l) :
           g[n] = IF l[n].data[f] = p THEN Append(g[n - 1], l[n]) ELSE g[n - 1]
    <2>1. \A n \in 0..Len(l) :
             g[n] = IF n = 0 THEN << >>
                    ELSE IF l[n].data[f] = p THEN Append(g[n - 1], l[n]) ELSE g[n - 1]
      BY <1>2 DEF Picks
    <2>2. \A n \in 1..Len(l) : n \in 0..Len(l) /\ n # 0
      OBVIOUS
    <2> QED BY <2>1, <2>2, Zenon
  <1> QED
    BY <1>3, <1>4, <1>5

\* The same entries in the same order give the same collection.
LEMMA MineReaches ==
  ASSUME NEW l, Len(l) \in Nat, NEW f, NEW p, NEW h, h[0] = << >>,
         \A n \in 1..Len(l) :
            h[n] = IF l[n].data[f] = p THEN Append(h[n - 1], l[n]) ELSE h[n - 1]
  PROVE  Mine(l, f, p) = h[Len(l)]
  <1>1. PICK g : /\ g[0] = << >> /\ Mine(l, f, p) = g[Len(l)]
                 /\ \A n \in 1..Len(l) :
                       g[n] = IF l[n].data[f] = p THEN Append(g[n - 1], l[n]) ELSE g[n - 1]
    BY MineIs
  <1>2. PICK T : T = {i \in 0..Len(l) : g[i] = h[i]}
    OBVIOUS
  <1>3. 0 \in T
    BY <1>1, <1>2
  <1>4. ASSUME NEW k \in 0..(Len(l) - 1), k \in T PROVE k + 1 \in T
    <2>1. k + 1 \in 1..Len(l) /\ (k + 1) - 1 = k /\ k + 1 \in 0..Len(l)
      OBVIOUS
    <2>2. /\ g[k + 1] = IF l[k + 1].data[f] = p THEN Append(g[k], l[k + 1]) ELSE g[k]
          /\ h[k + 1] = IF l[k + 1].data[f] = p THEN Append(h[k], l[k + 1]) ELSE h[k]
      BY <1>1, <2>1
    <2>3. g[k] = h[k]
      BY <1>2, <1>4
    <2> QED BY <1>2, <2>1, <2>2, <2>3
  <1>5. \A k \in 0..Len(l) : k \in T
    BY <1>3, <1>4, SetInduction, Zenon
  <1> QED
    BY <1>1, <1>2, <1>5

\* One more entry: it is collected when its column is p.
LEMMA MineAppend ==
  ASSUME NEW l, IsSeq(l), NEW e, NEW f, NEW p
  PROVE  Mine(Append(l, e), f, p)
           = IF e.data[f] = p THEN Append(Mine(l, f, p), e) ELSE Mine(l, f, p)
  <1>1. PICK m : m = Append(l, e)
    OBVIOUS
  <1>2. /\ Len(l) \in Nat /\ Len(m) = Len(l) + 1 /\ m[Len(l) + 1] = e
        /\ \A i \in 1..Len(l) : m[i] = l[i]
    <2>1. /\ Len(l) \in Nat /\ Len(Append(l, e)) = Len(l) + 1
          /\ Append(l, e)[Len(l) + 1] = e
          /\ \A i \in 1..Len(l) : Append(l, e)[i] = l[i]
      BY AppendSeq
    <2> QED BY <1>1, <2>1, Zenon
  <1>3. PICK g : /\ g[0] = << >> /\ Mine(m, f, p) = g[Len(m)]
                 /\ \A n \in 1..Len(m) :
                       g[n] = IF m[n].data[f] = p THEN Append(g[n - 1], m[n]) ELSE g[n - 1]
    <2>1. Len(m) \in Nat
      BY <1>2
    <2> QED BY <2>1, MineIs
  <1>4. ASSUME NEW n \in 1..Len(l)
        PROVE  g[n] = IF l[n].data[f] = p THEN Append(g[n - 1], l[n]) ELSE g[n - 1]
    <2>1. n \in 1..Len(m) /\ m[n] = l[n]
      BY <1>2
    <2> QED BY <1>3, <2>1
  <1>5. Mine(l, f, p) = g[Len(l)]
    <2>1. Len(l) \in Nat /\ g[0] = << >>
      BY <1>2, <1>3
    <2> QED BY <1>4, <2>1, MineReaches
  <1>6. Len(m) \in 1..Len(m) /\ Len(m) - 1 = Len(l) /\ m[Len(m)] = e
    BY <1>2
  <1>7. g[Len(m)] = IF e.data[f] = p THEN Append(g[Len(l)], e) ELSE g[Len(l)]
    BY <1>3, <1>6
  <1> QED
    BY <1>1, <1>3, <1>5, <1>7

\* The collection is a sequence, empty when no entry has p in its column.
LEMMA MineSeq ==
  ASSUME NEW l, IsSeq(l), NEW f, NEW p
  PROVE  /\ IsSeq(Mine(l, f, p))
         /\ (\A i \in 1..Len(l) : l[i].data[f] # p) => Mine(l, f, p) = << >>
  <1>1. Len(l) \in Nat
    BY SeqFacts
  <1>2. PICK g : /\ g[0] = << >> /\ Mine(l, f, p) = g[Len(l)]
                 /\ \A n \in 1..Len(l) :
                       g[n] = IF l[n].data[f] = p THEN Append(g[n - 1], l[n]) ELSE g[n - 1]
    BY <1>1, MineIs
  <1>3. PICK T : T = {i \in 0..Len(l) :
                        /\ IsSeq(g[i])
                        /\ (\A j \in 1..Len(l) : l[j].data[f] # p) => g[i] = << >>}
    OBVIOUS
  <1>4. IsSeq(<< >>)
    BY DEF IsSeq
  <1>5. 0 \in T
    BY <1>1, <1>2, <1>3, <1>4
  <1>6. ASSUME NEW k \in 0..(Len(l) - 1), k \in T PROVE k + 1 \in T
    <2>1. k + 1 \in 1..Len(l) /\ (k + 1) - 1 = k /\ k + 1 \in 0..Len(l)
      BY <1>1
    <2>2. g[k + 1] = IF l[k + 1].data[f] = p THEN Append(g[k], l[k + 1]) ELSE g[k]
      BY <1>2, <2>1
    <2>3. IsSeq(g[k]) /\ ((\A j \in 1..Len(l) : l[j].data[f] # p) => g[k] = << >>)
      BY <1>3, <1>6
    <2>4. IsSeq(Append(g[k], l[k + 1]))
      BY <2>3, AppendSeq
    <2> QED BY <1>3, <2>1, <2>2, <2>3, <2>4
  <1>7. \A k \in 0..Len(l) : k \in T
    BY <1>1, <1>5, <1>6, SetInduction, Zenon
  <1>8. Len(l) \in T
    BY <1>1, <1>7
  <1> QED
    BY <1>2, <1>3, <1>8

\* The larger of two.
LEMMA MaxOfTwo ==
  ASSUME NEW a \in Int, NEW b \in Int
  PROVE  Max({a, b}) = IF b > a THEN b ELSE a
  <1>1. PICK k : k = IF b > a THEN b ELSE a
    OBVIOUS
  <1>2. k \in {a, b} /\ \A y \in {a, b} : k >= y
    BY <1>1
  <1>3. PICK m : m = Max({a, b})
    OBVIOUS
  <1>4. m \in {a, b} /\ \A y \in {a, b} : m >= y
    BY <1>2, <1>3 DEF Max
  <1>5. m = k
    BY <1>2, <1>4
  <1> QED
    BY <1>1, <1>3, <1>5

\* The end of a log, cut out by its indices.
LEMMA LastFour ==
  ASSUME NEW q, IsSeq(q)
  PROVE  SubSeq(q, Max({1, Len(q) - 3}), Len(q)) = Newest(q)
  <1>1. PICK n \in Nat : n = Len(q)
    BY SeqFacts
  <1>2. PICK m : m = Max({1, n - 3})
    OBVIOUS
  <1>3. m = (IF n - 3 > 1 THEN n - 3 ELSE 1) /\ m \in Int
    <2>1. n - 3 \in Int
      OBVIOUS
    <2>2. Max({1, n - 3}) = IF n - 3 > 1 THEN n - 3 ELSE 1
      BY <2>1, MaxOfTwo
    <2> QED BY <1>2, <2>2
  <1>4. PICK S : S = Range(q)
    OBVIOUS
  <1>5. \A i \in m..n : q[i] \in S
    BY <1>1, <1>3, <1>4, SeqFacts DEF Range
  <1>6. PICK s : s = SubSeq(q, m, n)
    OBVIOUS
  <1>7. /\ s \in Seq(S) /\ Len(s) = (IF m <= n THEN n - m + 1 ELSE 0)
        /\ \A i \in 1..(n - m + 1) : s[i] = q[m + i - 1]
    BY <1>3, <1>5, <1>6, SubSeqProperties
  <1>8. PICK w, k : w = Newest(q) /\ k = Kept(q)
    OBVIOUS
  <1>9. /\ k = (IF n > 4 THEN 4 ELSE n) /\ IsSeq(w) /\ Len(w) = k
        /\ \A i \in 1..k : w[i] = q[n - k + i]
    BY <1>1, <1>8, NewestSeq
  <1>10. Len(s) = k /\ \A i \in 1..k : s[i] = w[i]
    <2>1. k = n - m + 1
      BY <1>3, <1>9
    <2>2. Len(s) = k
      BY <1>3, <1>7, <1>9, <2>1
    <2>3. \A i \in 1..k : m + i - 1 = n - k + i
      BY <1>3, <2>1
    <2> QED BY <1>7, <1>9, <2>1, <2>2, <2>3
  <1>11. IsSeq(s)
    <2>1. s = [i \in 1..Len(s) |-> s[i]] /\ Len(s) \in Nat
      BY <1>7
    <2> QED BY <2>1, FunctionIsSeq
  <1>12. s = w
    BY <1>9, <1>10, <1>11, SeqsEqual
  <1> QED
    BY <1>1, <1>2, <1>6, <1>8, <1>12

\* A column of a log, of a longer log and of its last entries.
LEMMA Columns ==
  ASSUME NEW l, IsSeq(l), NEW f
  PROVE  /\ IsSeq(Column(l, f)) /\ Len(Column(l, f)) = Len(l)
         /\ \A i \in 1..Len(l) : Column(l, f)[i] = l[i].data[f]
  <1>1. PICK c : c = Column(l, f)
    OBVIOUS
  <1>2. Len(l) \in Nat /\ DOMAIN l = 1..Len(l)
    BY SeqFacts
  <1>3. c = [i \in 1..Len(l) |-> l[i].data[f]]
    BY <1>1, <1>2 DEF Column
  <1>4. c = [i \in 1..Len(l) |-> c[i]] /\ \A i \in 1..Len(l) : c[i] = l[i].data[f]
    BY <1>3
  <1>5. IsSeq(c) /\ Len(c) = Len(l)
    BY <1>2, <1>4, FunctionIsSeq
  <1> QED
    BY <1>1, <1>4, <1>5

\* One more entry adds to a column and to its total.
LEMMA ColumnAppend ==
  ASSUME NEW l, IsSeq(l), NEW e, NEW f
  PROVE  /\ Column(Append(l, e), f) = Append(Column(l, f), e.data[f])
         /\ total(Append(l, e), f) = total(l, f) + e.data[f]
  <1>1. PICK m, c, b : m = Append(l, e) /\ c = Column(l, f) /\ b = Column(m, f)
    OBVIOUS
  <1>2. PICK n \in Nat : n = Len(l)
    BY SeqFacts
  <1>3. IsSeq(m) /\ Len(m) = n + 1 /\ m[n + 1] = e /\ \A i \in 1..n : m[i] = l[i]
    <2>1. /\ IsSeq(Append(l, e)) /\ Len(Append(l, e)) = Len(l) + 1
          /\ Append(l, e)[Len(l) + 1] = e
          /\ \A i \in 1..Len(l) : Append(l, e)[i] = l[i]
      BY AppendSeq
    <2> QED BY <1>1, <1>2, <2>1, Zenon
  <1>4. IsSeq(c) /\ Len(c) = n /\ \A i \in 1..n : c[i] = l[i].data[f]
    BY <1>1, <1>2, Columns
  <1>5. IsSeq(b) /\ Len(b) = n + 1 /\ \A i \in 1..(n + 1) : b[i] = m[i].data[f]
    <2>1. /\ IsSeq(Column(m, f)) /\ Len(Column(m, f)) = Len(m)
          /\ \A i \in 1..Len(m) : Column(m, f)[i] = m[i].data[f]
      BY <1>3, Columns
    <2> QED BY <1>1, <1>3, <2>1
  <1>6. PICK a : a = Append(c, e.data[f])
    OBVIOUS
  <1>7. /\ IsSeq(a) /\ Len(a) = n + 1 /\ a[n + 1] = e.data[f]
        /\ \A i \in 1..n : a[i] = c[i]
    <2>1. /\ IsSeq(Append(c, e.data[f])) /\ Len(Append(c, e.data[f])) = Len(c) + 1
          /\ Append(c, e.data[f])[Len(c) + 1] = e.data[f]
          /\ \A i \in 1..Len(c) : Append(c, e.data[f])[i] = c[i]
      BY <1>4, AppendSeq
    <2> QED BY <1>4, <1>6, <2>1
  <1>8. \A i \in 1..(n + 1) : b[i] = a[i]
    <2>1. \A i \in 1..(n + 1) : i \in 1..n \/ i = n + 1
      OBVIOUS
    <2>2. b[n + 1] = a[n + 1]
      BY <1>3, <1>5, <1>7
    <2>3. \A i \in 1..n : b[i] = a[i]
      BY <1>3, <1>4, <1>5, <1>7
    <2> QED BY <2>1, <2>2, <2>3
  <1>9. b = a
    BY <1>5, <1>7, <1>8, SeqsEqual
  <1>10. Total(b) = Total(c) + e.data[f]
    <2>1. Len(c) \in Nat /\ Len(b) = Len(c) + 1 /\ \A i \in 1..Len(c) : b[i] = c[i]
      BY <1>4, <1>7, <1>9
    <2>2. Total(b) = Total(c) + b[Len(b)]
      BY <2>1, TotalAppend
    <2> QED BY <1>5, <1>7, <1>9, <2>2
  <1> QED
    BY <1>1, <1>6, <1>9, <1>10 DEF total

\* The last values of a column are the column of the last entries.
LEMMA NewestColumn ==
  ASSUME NEW l, IsSeq(l), NEW f
  PROVE  Column(Newest(l), f) = Newest(Column(l, f))
  <1>1. PICK w, c : w = Newest(l) /\ c = Column(l, f)
    OBVIOUS
  <1>2. PICK k, n \in Nat : n = Len(l) /\ k = Kept(l) /\ k \in 0..4 /\ k <= n
    BY SeqFacts, NewestSeq
  <1>3. IsSeq(w) /\ Len(w) = k /\ \A i \in 1..k : w[i] = l[n - k + i]
    BY <1>1, <1>2, NewestSeq
  <1>4. IsSeq(c) /\ Len(c) = n /\ \A i \in 1..n : c[i] = l[i].data[f]
    BY <1>1, <1>2, Columns
  <1>5. Kept(c) = k
    BY <1>2, <1>4 DEF Kept
  <1>6. PICK a, b : a = Column(w, f) /\ b = Newest(c)
    OBVIOUS
  <1>7. IsSeq(a) /\ Len(a) = k /\ \A i \in 1..k : a[i] = w[i].data[f]
    <2>1. IsSeq(w)
      BY <1>3
    <2>2. /\ IsSeq(Column(w, f)) /\ Len(Column(w, f)) = Len(w)
          /\ \A i \in 1..Len(w) : Column(w, f)[i] = w[i].data[f]
      BY <2>1, Columns
    <2> QED BY <1>3, <1>6, <2>2
  <1>8. IsSeq(b) /\ Len(b) = k /\ \A i \in 1..k : b[i] = c[n - k + i]
    BY <1>4, <1>5, <1>6, NewestSeq
  <1>9. \A i \in 1..k : n - k + i \in 1..n
    BY <1>2
  <1>10. \A i \in 1..k : a[i] = b[i]
    BY <1>3, <1>4, <1>7, <1>8, <1>9
  <1>11. a = b
    BY <1>7, <1>8, <1>10, SeqsEqual
  <1> QED
    BY <1>1, <1>6, <1>11

-----------------------------------------------------------------------------
(* The score of a peer. *)

\* The score b after an entry with data e.
Earned(b, e) ==
    LET earned == b + (IF e[5] = 1 THEN 5 ELSE -10) - (IF e[6] = 1 THEN 3 ELSE 0)
    IN  Max({0, AtMost(earned, 100)})

\* The score that the entries m of a peer make of the initial 50.
Score(m) ==
    LET score[n \in 0..Len(m)] == IF n = 0 THEN 50 ELSE Earned(score[n - 1], m[n].data)
    IN  score[Len(m)]

\* The function g of the scores after each of n entries.
Scores(m, g, n) == g = [i \in 0..n |-> IF i = 0 THEN 50 ELSE Earned(g[i - 1], m[i].data)]

\* A score stays between 0 and 100; on the way it is the code's.
LEMMA EarnedIs ==
  ASSUME NEW b \in 0..100, NEW e
  PROVE  /\ Earned(b, e) \in 0..100
         /\ \A delivered, churned \in Flags :
              e[5] = delivered /\ e[6] = churned =>
                ReputationAfter(b, delivered, churned) = Earned(b, e)
  <1>1. PICK u, v : /\ u = (IF e[5] = 1 THEN 5 ELSE -10)
                    /\ v = (IF e[6] = 1 THEN 3 ELSE 0)
    OBVIOUS
  <1>2. PICK x : x = AtMost(b + u - v, 100)
    OBVIOUS
  <1>3. x \in Int /\ x = IF b + u - v > 100 THEN 100 ELSE b + u - v
    BY <1>1, <1>2 DEF AtMost
  <1>4. Earned(b, e) = Max({0, x})
    BY <1>1, <1>2 DEF Earned
  <1>5. Earned(b, e) = IF x > 0 THEN x ELSE 0
    BY <1>3, <1>4, MaxOfTwo
  <1>6. Earned(b, e) \in 0..100
    BY <1>1, <1>3, <1>5
  <1>7. ASSUME NEW delivered \in Flags, NEW churned \in Flags,
               e[5] = delivered, e[6] = churned
        PROVE  ReputationAfter(b, delivered, churned) = Earned(b, e)
    <2>1. U32Max \in Nat /\ U32Max >= 105
      BY InputsAssumption, U32MaxAssumption
    <2>2. /\ u = (IF delivered = 1 THEN 5 ELSE -10) /\ v = (IF churned = 1 THEN 3 ELSE 0)
          /\ delivered \in {0, 1} /\ churned \in {0, 1}
      BY <1>1, <1>7 DEF Flags
    <2>3. PICK p : p = IF delivered = 1 THEN SaturatingAdd(b, 5) ELSE SaturatingSub(b, 10)
      OBVIOUS
    <2>4. p \in 0..105
          /\ p = IF delivered = 1 THEN b + 5 ELSE IF b > 10 THEN b - 10 ELSE 0
      BY <2>1, <2>3 DEF SaturatingAdd, SaturatingSub, AtMost
    <2>5. PICK q : q = IF churned = 1 THEN SaturatingSub(p, 3) ELSE p
      OBVIOUS
    <2>6. q \in 0..105 /\ q = IF churned = 1 THEN (IF p > 3 THEN p - 3 ELSE 0) ELSE p
      BY <2>4, <2>5 DEF SaturatingSub
    <2>7. ReputationAfter(b, delivered, churned) = IF q > 100 THEN 100 ELSE q
      BY <2>3, <2>5 DEF ReputationAfter, AtMost
    <2> QED BY <1>3, <1>5, <2>2, <2>4, <2>6, <2>7
  <1> QED
    BY <1>6, <1>7

\* There is a function of scores for every length.
LEMMA ScoresExist ==
  ASSUME NEW m, NEW n \in Nat
  PROVE  \E g : Scores(m, g, n)
  <1>1. PICK T : T = {k \in Nat : \E g : Scores(m, g, k)}
    OBVIOUS
  <1>2. 0 \in T
    <2>1. PICK g : g = [i \in 0..0 |-> 50]
      OBVIOUS
    <2>2. Scores(m, g, 0)
      BY <2>1 DEF Scores
    <2> QED BY <1>1, <2>2
  <1>3. ASSUME NEW k \in 0..(n - 1), k \in T PROVE k + 1 \in T
    <2>1. PICK g : Scores(m, g, k)
      BY <1>1, <1>3
    <2>2. PICK h : h = [i \in 0..(k + 1) |-> IF i = k + 1 THEN Earned(g[k], m[k + 1].data)
                                             ELSE g[i]]
      OBVIOUS
    <2>3. \A i \in 0..k : g[i] = IF i = 0 THEN 50 ELSE Earned(g[i - 1], m[i].data)
      BY <2>1 DEF Scores
    <2>4. ASSUME NEW i \in 0..(k + 1)
          PROVE  h[i] = IF i = 0 THEN 50 ELSE Earned(h[i - 1], m[i].data)
      <3>1. CASE i = k + 1
        <4>1. h[i] = Earned(g[k], m[i].data) /\ h[i - 1] = g[k] /\ i # 0
          BY <2>2, <3>1
        <4> QED BY <4>1
      <3>2. CASE i = 0
        <4>1. h[i] = g[0] /\ g[0] = 50
          BY <2>2, <2>3, <3>2
        <4> QED BY <3>2, <4>1
      <3>3. CASE i \in 1..k
        <4>1. h[i] = g[i] /\ h[i - 1] = g[i - 1] /\ i # 0 /\ i \in 0..k
          BY <2>2, <3>3
        <4> QED BY <2>3, <4>1
      <3> QED BY <3>1, <3>2, <3>3
    <2>5. h = [i \in 0..(k + 1) |-> h[i]]
      BY <2>2
    <2>6. Scores(m, h, k + 1)
      BY <2>4, <2>5 DEF Scores
    <2> QED BY <1>1, <2>6
  <1>4. \A k \in 0..n : k \in T
    BY <1>2, <1>3, SetInduction, Zenon
  <1>5. n \in T
    BY <1>4
  <1> QED
    BY <1>1, <1>5

\* What a score is, entry by entry.
LEMMA ScoreIs ==
  ASSUME NEW m, Len(m) \in Nat
  PROVE  \E g : /\ g[0] = 50 /\ Score(m) = g[Len(m)]
                /\ \A i \in 1..Len(m) : g[i] = Earned(g[i - 1], m[i].data)
  <1>1. PICK g : g = (CHOOSE h : Scores(m, h, Len(m)))
    OBVIOUS
  <1>2. Scores(m, g, Len(m))
    BY <1>1, ScoresExist
  <1>3. Score(m) = g[Len(m)]
    BY <1>1 DEF Score, Scores
  <1>4. \A i \in 0..Len(m) : g[i] = IF i = 0 THEN 50 ELSE Earned(g[i - 1], m[i].data)
    BY <1>2 DEF Scores
  <1>5. \A i \in 1..Len(m) : i \in 0..Len(m) /\ i # 0
    OBVIOUS
  <1>6. \A i \in 1..Len(m) : g[i] = Earned(g[i - 1], m[i].data)
    BY <1>4, <1>5, Zenon
  <1>7. g[0] = 50
    BY <1>4
  <1> QED
    BY <1>3, <1>6, <1>7

\* A score is a percentage; it starts at 50 and one more entry earns from it.
LEMMA ScoreGrows ==
  ASSUME NEW m, IsSeq(m), NEW e
  PROVE  /\ Score(m) \in 0..100
         /\ Score(Append(m, e)) = Earned(Score(m), e.data)
         /\ m = << >> => Score(m) = 50
  <1>1. PICK n \in Nat : n = Len(m)
    BY SeqFacts
  <1>2. PICK a : a = Append(m, e)
    OBVIOUS
  <1>3. Len(a) = n + 1 /\ a[n + 1] = e /\ \A i \in 1..n : a[i] = m[i]
    <2>1. /\ Len(Append(m, e)) = Len(m) + 1 /\ Append(m, e)[Len(m) + 1] = e
          /\ \A i \in 1..Len(m) : Append(m, e)[i] = m[i]
      BY AppendSeq
    <2> QED BY <1>1, <1>2, <2>1, Zenon
  <1>4. PICK g : /\ g[0] = 50 /\ Score(a) = g[Len(a)]
                 /\ \A i \in 1..Len(a) : g[i] = Earned(g[i - 1], a[i].data)
    <2>1. Len(a) \in Nat
      BY <1>3
    <2> QED BY <2>1, ScoreIs
  <1>5. PICK h : /\ h[0] = 50 /\ Score(m) = h[Len(m)]
                 /\ \A i \in 1..Len(m) : h[i] = Earned(h[i - 1], m[i].data)
    <2>1. Len(m) \in Nat
      BY <1>1
    <2> QED BY <2>1, ScoreIs
  <1>6. PICK T : T = {i \in 0..n : g[i] = h[i] /\ h[i] \in 0..100}
    OBVIOUS
  <1>7. 0 \in T
    BY <1>4, <1>5, <1>6
  <1>8. ASSUME NEW k \in 0..(n - 1), k \in T PROVE k + 1 \in T
    <2>1. /\ k + 1 \in 1..Len(m) /\ k + 1 \in 1..Len(a) /\ (k + 1) - 1 = k
          /\ k + 1 \in 0..n /\ a[k + 1] = m[k + 1]
      BY <1>1, <1>3
    <2>2. h[k + 1] = Earned(h[k], m[k + 1].data) /\ g[k + 1] = Earned(g[k], m[k + 1].data)
      BY <1>4, <1>5, <2>1
    <2>3. g[k] = h[k] /\ h[k] \in 0..100
      BY <1>6, <1>8
    <2>4. Earned(h[k], m[k + 1].data) \in 0..100
      BY <2>3, EarnedIs
    <2> QED BY <1>6, <2>1, <2>2, <2>3, <2>4
  <1>9. \A k \in 0..n : k \in T
    BY <1>7, <1>8, SetInduction, Zenon
  <1>10. g[n] = h[n] /\ h[n] \in 0..100
    BY <1>6, <1>9
  <1>11. n + 1 \in 1..Len(a) /\ (n + 1) - 1 = n /\ a[n + 1] = e
    BY <1>3
  <1>12. g[n + 1] = Earned(g[n], e.data)
    BY <1>4, <1>11
  <1>13. m = << >> => n = 0
    BY <1>1
  <1> QED
    BY <1>1, <1>2, <1>3, <1>4, <1>5, <1>10, <1>12, <1>13

-----------------------------------------------------------------------------
(* What is kept beside a log is what its entries give. *)

MapKinds == {"gossip_ack_latency", "gossip_neighbor_score", "gossip_peer_reputation",
             "gossip_reachability", "gossip_peer_score", "gossip_retransmit"}

\* The column of the peer, and the peers of a log.
Key(k) == IF k = "gossip_retransmit" THEN 2 ELSE 1
Ids(l, f) == { l[i].data[f] : i \in DOMAIN l }

\* What the file k keeps of a peer whose entries are m.
Value(k, m) ==
    CASE k = "gossip_ack_latency" -> Newest(Column(m, 3))
      [] k = "gossip_neighbor_score" -> Final(m, 6)
      [] k \in {"gossip_peer_reputation", "gossip_reachability"} -> Final(m, 3)
      [] k = "gossip_peer_score" -> <<total(m, 3), Len(m)>>
      [] OTHER -> total(m, 3)

\* The map a is what the entries of l give.
FromLog(k, a, l) == a = [p \in Ids(l, Key(k)) |-> Value(k, Mine(l, Key(k), p))]

\* What the file k keeps, a, is what the entries of l give.
Cached(k, a, l) ==
    /\ k \in {"gossip_epoch_window", "gossip_frame_rate"} => a = Newest(Column(l, 2))
    /\ k \in {"gossip_jitter", "gossip_topology_change"} =>
          a = IF l = << >> THEN << >> ELSE <<l[Len(l)].data[2]>>
    /\ k \in MapKinds => FromLog(k, a, l)
    /\ k = "gossip_peer_reputation" =>
          \A p \in Peers : Get(a, p, 50) = Score(Mine(l, 1, p))

\* What is kept of no entries.
LEMMA NothingKept ==
  /\ Value("gossip_ack_latency", << >>) = << >>
  /\ Value("gossip_peer_score", << >>) = <<0, 0>>
  /\ Value("gossip_retransmit", << >>) = 0
  /\ \A f : Column(<< >>, f) = << >> /\ Newest(<< >>) = << >>
  <1>1. \A f : Column(<< >>, f) = << >>
    BY DEF Column
  <1>2. Newest(<< >>) = << >>
    BY DEF Newest, Kept, AtMost
  <1>3. \A f : total(<< >>, f) = 0
    BY <1>1, TotalEmpty DEF total
  <1> QED
    BY <1>1, <1>2, <1>3 DEF Value

\* What one more entry makes of it.
LEMMA ValueGrows ==
  ASSUME NEW m, IsSeq(m), NEW e
  PROVE  /\ Value("gossip_ack_latency", Append(m, e))
              = Slide(Value("gossip_ack_latency", m), e.data[3], 4)
         /\ Value("gossip_neighbor_score", Append(m, e)) = e.data[6]
         /\ Value("gossip_peer_reputation", Append(m, e)) = e.data[3]
         /\ Value("gossip_reachability", Append(m, e)) = e.data[3]
         /\ Value("gossip_peer_score", Append(m, e))
              = <<total(m, 3) + e.data[3], Len(m) + 1>>
         /\ Value("gossip_retransmit", Append(m, e)) = total(m, 3) + e.data[3]
  <1>1. PICK a : a = Append(m, e)
    OBVIOUS
  <1>2. Len(m) \in Nat /\ Len(a) = Len(m) + 1 /\ a[Len(m) + 1] = e
    <2>1. /\ Len(m) \in Nat /\ Len(Append(m, e)) = Len(m) + 1
          /\ Append(m, e)[Len(m) + 1] = e
      BY AppendSeq
    <2> QED BY <1>1, <2>1
  <1>3. \A f : Final(a, f) = e.data[f]
    BY <1>2 DEF Final
  <1>4. Column(a, 3) = Append(Column(m, 3), e.data[3]) /\ total(a, 3) = total(m, 3) + e.data[3]
    BY <1>1, ColumnAppend
  <1>5. IsSeq(Column(m, 3))
    BY Columns
  <1>6. Newest(Column(a, 3)) = Slide(Newest(Column(m, 3)), e.data[3], 4)
    <2>1. Slide(Newest(Column(m, 3)), e.data[3], 4) = Newest(Append(Column(m, 3), e.data[3]))
      BY <1>5, SlideNewest
    <2> QED BY <1>4, <2>1, Zenon
  <1>7. /\ Value("gossip_ack_latency", a) = Newest(Column(a, 3))
        /\ Value("gossip_ack_latency", m) = Newest(Column(m, 3))
        /\ Value("gossip_neighbor_score", a) = Final(a, 6)
        /\ Value("gossip_peer_reputation", a) = Final(a, 3)
        /\ Value("gossip_reachability", a) = Final(a, 3)
        /\ Value("gossip_peer_score", a) = <<total(a, 3), Len(a)>>
        /\ Value("gossip_retransmit", a) = total(a, 3)
    BY DEF Value
  <1> QED
    BY <1>1, <1>2, <1>3, <1>4, <1>6, <1>7

\* The map of a log with one more entry: the value of that entry's peer is
\* put, the others stay.
LEMMA MapStep ==
  ASSUME NEW k, NEW l, IsSeq(l), NEW a, FromLog(k, a, l), NEW e,
         NEW q, q = e.data[Key(k)],
         NEW v, v = Value(k, Append(Mine(l, Key(k), q), e))
  PROVE  FromLog(k, Put(a, q, v), Append(l, e))
  <1>1. PICK f, m : f = Key(k) /\ m = Append(l, e)
    OBVIOUS
  <1>2. Len(l) \in Nat /\ DOMAIN l = 1..Len(l) /\ DOMAIN m = 1..(Len(l) + 1)
        /\ m[Len(l) + 1] = e /\ \A i \in 1..Len(l) : m[i] = l[i]
    <2>1. /\ Len(l) \in Nat /\ DOMAIN l = 1..Len(l)
          /\ DOMAIN Append(l, e) = 1..(Len(l) + 1)
          /\ Append(l, e)[Len(l) + 1] = e
          /\ \A i \in 1..Len(l) : Append(l, e)[i] = l[i]
      BY AppendSeq
    <2> QED BY <1>1, <2>1, Zenon
  <1>3. Ids(m, f) = Ids(l, f) \cup {q}
    <2>1. \A i : i \in DOMAIN m <=> i \in DOMAIN l \/ i = Len(l) + 1
      BY <1>2
    <2>2. \A i \in DOMAIN l : m[i] = l[i]
      BY <1>2
    <2> QED BY <1>1, <1>2, <2>1, <2>2 DEF Ids
  <1>4. \A p : Mine(m, f, p) = IF q = p THEN Append(Mine(l, f, p), e) ELSE Mine(l, f, p)
    BY <1>1, MineAppend
  <1>5. DOMAIN a = Ids(l, f) /\ \A p \in Ids(l, f) : a[p] = Value(k, Mine(l, f, p))
    BY <1>1 DEF FromLog
  <1>6. PICK b : b = Put(a, q, v)
    OBVIOUS
  <1>7. b = [p \in Ids(m, f) |-> IF p = q THEN v ELSE a[p]]
    BY <1>3, <1>5, <1>6 DEF Put
  <1>8. \A p \in Ids(m, f) : b[p] = Value(k, Mine(m, f, p))
    <2>1. SUFFICES ASSUME NEW p \in Ids(m, f) PROVE b[p] = Value(k, Mine(m, f, p))
      OBVIOUS
    <2>2. CASE p = q
      <3>1. b[p] = v
        BY <1>7, <2>2
      <3>2. Mine(m, f, p) = Append(Mine(l, f, q), e)
        BY <1>4, <2>2
      <3> QED BY <1>1, <3>1, <3>2
    <2>3. CASE p # q
      <3>1. p \in Ids(l, f) /\ b[p] = a[p]
        BY <1>3, <1>7, <2>3
      <3>2. Mine(m, f, p) = Mine(l, f, p)
        BY <1>4, <2>3
      <3> QED BY <1>5, <3>1, <3>2
    <2> QED BY <2>2, <2>3
  <1>9. b = [p \in Ids(m, f) |-> Value(k, Mine(m, f, p))]
    BY <1>7, <1>8
  <1> QED
    BY <1>1, <1>6, <1>9 DEF FromLog

\* What is read of a peer, with the default of a peer without entries.
LEMMA Fetched ==
  ASSUME NEW k, NEW l, IsSeq(l), NEW a, FromLog(k, a, l), NEW p
  PROVE  /\ IsSeq(Mine(l, Key(k), p))
         /\ Get(a, p, Value(k, << >>)) = Value(k, Mine(l, Key(k), p))
  <1>1. PICK f : f = Key(k)
    OBVIOUS
  <1>2. DOMAIN a = Ids(l, f) /\ \A q \in Ids(l, f) : a[q] = Value(k, Mine(l, f, q))
    BY <1>1 DEF FromLog
  <1>3. DOMAIN l = 1..Len(l)
    BY SeqFacts
  <1>4. CASE p \in Ids(l, f)
    BY <1>1, <1>2, <1>4, MineSeq DEF Get
  <1>5. CASE p \notin Ids(l, f)
    <2>1. \A i \in 1..Len(l) : l[i].data[f] # p
      BY <1>3, <1>5 DEF Ids
    <2>2. Mine(l, f, p) = << >>
      BY <2>1, MineSeq
    <2>3. Get(a, p, Value(k, << >>)) = Value(k, << >>)
      BY <1>2, <1>5 DEF Get
    <2> QED BY <1>1, <2>2, <2>3, MineSeq
  <1> QED
    BY <1>4, <1>5

\* A push grows the log by one entry.
LEMMA Grown ==
  ASSUME IInv, NEW d, NEW a, Push(d, a)
  PROVE  /\ IsSeq(log) /\ aux' = a /\ kind' = kind
         /\ \E e : log' = Append(log, e) /\ e.data = d
  <1>1. IsSeq(log)
    BY DEF IInv, IsChain
  <1>2. aux' = a /\ kind' = kind /\ log' = ChainPush(log, d, DOMAIN d)
    BY DEF Push
  <1> QED
    BY <1>1, <1>2 DEF ChainPush

\* A push that puts what the peer's entries now give keeps the map theirs.
LEMMA MapGrows ==
  ASSUME IInv, Cached(kind, aux, log), kind \in MapKinds,
         NEW d, NEW q, q = d[Key(kind)], NEW v, Push(d, Put(aux, q, v)),
         \A e : e.data = d => v = Value(kind, Append(Mine(log, Key(kind), q), e))
  PROVE  /\ FromLog(kind', aux', log')
         /\ kind # "gossip_peer_reputation" => Cached(kind', aux', log')
  <1>1. PICK e : /\ log' = Append(log, e) /\ e.data = d /\ IsSeq(log)
                 /\ aux' = Put(aux, q, v) /\ kind' = kind
    BY Grown
  <1>2. FromLog(kind, aux, log)
    BY DEF Cached
  <1>3. v = Value(kind, Append(Mine(log, Key(kind), q), e)) /\ q = e.data[Key(kind)]
    BY <1>1
  <1>4. FromLog(kind, Put(aux, q, v), Append(log, e))
    BY <1>1, <1>2, <1>3, MapStep, Zenon
  <1>5. FromLog(kind', aux', log')
    BY <1>1, <1>4, Zenon
  <1> QED
    BY <1>1, <1>5 DEF Cached, MapKinds

\* The windows.
LEMMA WindowsCached ==
  ASSUME IInv, Cached(kind, aux, log),
         \/ gossip_epoch_window \/ gossip_frame_rate
         \/ gossip_jitter       \/ gossip_topology_change
  PROVE  Cached(kind', aux', log')
  <1>1. ASSUME NEW d, NEW v, d[2] = v, Push(d, Slide(aux, v, 4)),
               kind \in {"gossip_epoch_window", "gossip_frame_rate"}
        PROVE  Cached(kind', aux', log')
    <2>1. PICK e : /\ log' = Append(log, e) /\ e.data = d /\ IsSeq(log)
                   /\ aux' = Slide(aux, v, 4) /\ kind' = kind
      BY <1>1, Grown
    <2>2. aux = Newest(Column(log, 2))
      BY <1>1 DEF Cached
    <2>3. Column(log', 2) = Append(Column(log, 2), v) /\ IsSeq(Column(log, 2))
      BY <1>1, <2>1, ColumnAppend, Columns
    <2>4. Slide(Newest(Column(log, 2)), v, 4) = Newest(Append(Column(log, 2), v))
      BY <2>3, SlideNewest
    <2>5. aux' = Newest(Column(log', 2))
      BY <2>1, <2>2, <2>3, <2>4, Zenon
    <2> QED BY <1>1, <2>1, <2>5 DEF Cached, MapKinds
  <1>2. ASSUME NEW d, NEW v, d[2] = v, Push(d, <<v>>),
               kind \in {"gossip_jitter", "gossip_topology_change"}
        PROVE  Cached(kind', aux', log')
    <2>1. PICK e : /\ log' = Append(log, e) /\ e.data = d /\ IsSeq(log)
                   /\ aux' = <<v>> /\ kind' = kind
      BY <1>2, Grown
    <2>2. /\ Len(log) \in Nat /\ Len(Append(log, e)) = Len(log) + 1
          /\ Append(log, e)[Len(log) + 1] = e
      BY <2>1, AppendSeq
    <2>3. Len(log') = Len(log) + 1 /\ log'[Len(log) + 1] = e
      BY <2>1, <2>2, Zenon
    <2>4. log' # << >>
      BY <2>2, <2>3
    <2>5. log'[Len(log')].data[2] = v
      BY <1>2, <2>1, <2>3
    <2>6. aux' = IF log' = << >> THEN << >> ELSE <<log'[Len(log')].data[2]>>
      BY <2>1, <2>4, <2>5, Zenon
    <2> QED BY <1>2, <2>1, <2>6 DEF Cached, MapKinds
  <1>3. ASSUME gossip_epoch_window PROVE Cached(kind', aux', log')
    <2>1. PICK coverage, window, d :
             /\ kind = "gossip_epoch_window" /\ window = Slide(aux, coverage, 4)
             /\ d = <<Epoch, coverage, Mean(window), GossipWindowState(Mean(window))>>
             /\ Push(d, window)
      BY <1>3 DEF gossip_epoch_window, WindowOf
    <2>2. d[2] = coverage
      BY <2>1
    <2> QED BY <1>1, <2>1, <2>2
  <1>4. ASSUME gossip_frame_rate PROVE Cached(kind', aux', log')
    <2>1. PICK frames, d : /\ kind = "gossip_frame_rate" /\ d[2] = frames
                           /\ Push(d, Slide(aux, frames, 4))
      <3>1. PICK frames \in FewCounts :
              /\ kind = "gossip_frame_rate"
              /\ Push(<<Epoch, frames, Mean(aux),
                        Byte(Mean(aux) > 0 /\ frames > AtMost(2 * Mean(aux), U32Max))>>,
                      Slide(aux, frames, 4))
        BY <1>4 DEF gossip_frame_rate, WindowOf
      <3>2. PICK d : d = <<Epoch, frames, Mean(aux),
                           Byte(Mean(aux) > 0 /\ frames > AtMost(2 * Mean(aux), U32Max))>>
        OBVIOUS
      <3>3. d[2] = frames
        BY <3>2
      <3> QED BY <3>1, <3>2, <3>3, Zenon
    <2> QED BY <1>1, <2>1
  <1>5. ASSUME gossip_jitter PROVE Cached(kind', aux', log')
    <2>1. PICK frames, x : /\ kind = "gossip_jitter" /\ Push(<<Epoch, frames, x>>, <<frames>>)
      BY <1>5 DEF gossip_jitter, WindowOf
    <2>2. PICK d : d = <<Epoch, frames, x>>
      OBVIOUS
    <2>3. d[2] = frames
      BY <2>2
    <2> QED BY <1>2, <2>1, <2>2, <2>3
  <1>6. ASSUME gossip_topology_change PROVE Cached(kind', aux', log')
    <2>1. PICK peers, x, y : /\ kind = "gossip_topology_change"
                             /\ Push(<<Epoch, peers, x, y>>, <<peers>>)
      BY <1>6 DEF gossip_topology_change, WindowOf
    <2>2. PICK d : d = <<Epoch, peers, x, y>>
      OBVIOUS
    <2>3. d[2] = peers
      BY <2>2
    <2> QED BY <1>2, <2>1, <2>2, <2>3
  <1> QED
    BY <1>3, <1>4, <1>5, <1>6

\* The maps.
LEMMA MapsCached ==
  ASSUME IInv, Cached(kind, aux, log),
         \/ gossip_ack_latency \/ gossip_neighbor_score \/ gossip_peer_score
         \/ gossip_reachability \/ gossip_retransmit
  PROVE  Cached(kind', aux', log')
  <1>0. /\ IsSeq(log)
        /\ kind \in MapKinds => FromLog(kind, aux, log)
    BY DEF IInv, IsChain, Cached
  <1>1. ASSUME gossip_ack_latency PROVE Cached(kind', aux', log')
    <2>1. PICK peer, latency, x :
             /\ kind = "gossip_ack_latency"
             /\ Push(<<peer, Epoch, latency, x>>,
                     Put(aux, peer, Slide(Get(aux, peer, << >>), latency, 4)))
      BY <1>1 DEF gossip_ack_latency, WindowOf
    <2>2. PICK d, m, v : /\ d = <<peer, Epoch, latency, x>> /\ m = Mine(log, 1, peer)
                         /\ v = Slide(Get(aux, peer, << >>), latency, 4)
      OBVIOUS
    <2>3. kind \in MapKinds /\ Key(kind) = 1 /\ peer = d[1] /\ d[3] = latency
      BY <2>1, <2>2 DEF MapKinds, Key
    <2>4. IsSeq(m) /\ Get(aux, peer, Value(kind, << >>)) = Value(kind, m)
      BY <1>0, <2>2, <2>3, Fetched
    <2>5. Get(aux, peer, << >>) = Value(kind, m)
      BY <2>1, <2>4, NothingKept
    <2>6. \A e : e.data = d => v = Value(kind, Append(m, e))
      BY <2>1, <2>2, <2>3, <2>4, <2>5, ValueGrows
    <2> QED BY <2>1, <2>2, <2>3, <2>6, MapGrows
  <1>2. ASSUME gossip_neighbor_score PROVE Cached(kind', aux', log')
    <2>1. PICK peer, a, b, c, score, x :
             /\ kind = "gossip_neighbor_score"
             /\ Push(<<peer, Epoch, a, b, c, score, x>>, Put(aux, peer, score))
      BY <1>2 DEF gossip_neighbor_score, Of
    <2>2. PICK d, m : d = <<peer, Epoch, a, b, c, score, x>> /\ m = Mine(log, 1, peer)
      OBVIOUS
    <2>3. kind \in MapKinds /\ Key(kind) = 1 /\ peer = d[1] /\ d[6] = score
      BY <2>1, <2>2 DEF MapKinds, Key
    <2>4. IsSeq(m)
      BY <1>0, <2>2, MineSeq
    <2>5. \A e : e.data = d => score = Value(kind, Append(m, e))
      BY <2>1, <2>3, <2>4, ValueGrows
    <2> QED BY <2>1, <2>2, <2>3, <2>5, MapGrows
  <1>3. ASSUME gossip_peer_score PROVE Cached(kind', aux', log')
    <2>1. PICK peer, hit, x :
             LET old == Get(aux, peer, <<0, 0>>)
             IN  /\ kind = "gossip_peer_score"
                 /\ Push(<<peer, Epoch, hit, old[1] + hit, old[2] + 1, x>>,
                         Put(aux, peer, <<old[1] + hit, old[2] + 1>>))
      BY <1>3 DEF gossip_peer_score, WindowOf
    <2>2. PICK old, d, m, v :
             /\ old = Get(aux, peer, <<0, 0>>) /\ m = Mine(log, 1, peer)
             /\ d = <<peer, Epoch, hit, old[1] + hit, old[2] + 1, x>>
             /\ v = <<old[1] + hit, old[2] + 1>>
      OBVIOUS
    <2>3. kind \in MapKinds /\ Key(kind) = 1 /\ peer = d[1] /\ d[3] = hit
      BY <2>1, <2>2 DEF MapKinds, Key
    <2>4. IsSeq(m) /\ Get(aux, peer, Value(kind, << >>)) = Value(kind, m)
      BY <1>0, <2>2, <2>3, Fetched
    <2>5. old = <<total(m, 3), Len(m)>>
      BY <2>1, <2>2, <2>4, NothingKept DEF Value
    <2>6. v = <<total(m, 3) + hit, Len(m) + 1>>
      BY <2>2, <2>5
    <2>7. \A e : e.data = d => v = Value(kind, Append(m, e))
      BY <2>1, <2>3, <2>4, <2>6, ValueGrows
    <2> QED BY <2>1, <2>2, <2>3, <2>7, MapGrows
  <1>4. ASSUME gossip_reachability PROVE Cached(kind', aux', log')
    <2>1. PICK peer, up : /\ kind = "gossip_reachability"
                          /\ Push(<<peer, Epoch, up>>, Put(aux, peer, up))
      BY <1>4 DEF gossip_reachability, WindowOf
    <2>2. PICK d, m : d = <<peer, Epoch, up>> /\ m = Mine(log, 1, peer)
      OBVIOUS
    <2>3. kind \in MapKinds /\ Key(kind) = 1 /\ peer = d[1] /\ d[3] = up
      BY <2>1, <2>2 DEF MapKinds, Key
    <2>4. IsSeq(m)
      BY <1>0, <2>2, MineSeq
    <2>5. \A e : e.data = d => up = Value(kind, Append(m, e))
      BY <2>1, <2>3, <2>4, ValueGrows
    <2> QED BY <2>1, <2>2, <2>3, <2>5, MapGrows
  <1>5. ASSUME gossip_retransmit PROVE Cached(kind', aux', log')
    <2>1. PICK peer, n : /\ kind = "gossip_retransmit"
                         /\ Push(<<Epoch, peer, n>>, Put(aux, peer, Get(aux, peer, 0) + n))
      BY <1>5 DEF gossip_retransmit, WindowOf
    <2>2. PICK d, m, v : /\ d = <<Epoch, peer, n>> /\ m = Mine(log, 2, peer)
                         /\ v = Get(aux, peer, 0) + n
      OBVIOUS
    <2>3. kind \in MapKinds /\ Key(kind) = 2 /\ peer = d[2] /\ d[3] = n
      BY <2>1, <2>2 DEF MapKinds, Key
    <2>4. IsSeq(m) /\ Get(aux, peer, Value(kind, << >>)) = Value(kind, m)
      BY <1>0, <2>2, <2>3, Fetched
    <2>5. v = total(m, 3) + n
      BY <2>1, <2>2, <2>4, NothingKept DEF Value
    <2>6. \A e : e.data = d => v = Value(kind, Append(m, e))
      BY <2>1, <2>3, <2>4, <2>5, ValueGrows
    <2> QED BY <2>1, <2>2, <2>3, <2>6, MapGrows
  <1> QED
    BY <1>1, <1>2, <1>3, <1>4, <1>5

\* The reputations: also what the peer's own deliveries made of its score.
LEMMA ReputationsCached ==
  ASSUME IInv, Cached(kind, aux, log), gossip_peer_reputation
  PROVE  Cached(kind', aux', log')
  <1>1. PICK peer \in Peers, delivered \in Flags, churned \in Flags :
           LET score == ReputationAfter(Get(aux, peer, 50), delivered, churned)
           IN  /\ kind = "gossip_peer_reputation"
               /\ Push(<<peer, Epoch, score, ReputationClass(score), delivered, churned>>,
                       Put(aux, peer, score))
    BY DEF gossip_peer_reputation, WindowOf
  <1>2. PICK base, score, d, m :
           /\ base = Get(aux, peer, 50) /\ m = Mine(log, 1, peer)
           /\ score = ReputationAfter(base, delivered, churned)
           /\ d = <<peer, Epoch, score, ReputationClass(score), delivered, churned>>
    OBVIOUS
  <1>3. Push(d, Put(aux, peer, score))
    BY <1>1, <1>2
  <1>4. /\ kind \in MapKinds /\ Key(kind) = 1 /\ peer = d[1] /\ d[3] = score
        /\ d[5] = delivered /\ d[6] = churned
    BY <1>1, <1>2 DEF MapKinds, Key
  <1>5. IsSeq(log) /\ IsSeq(m)
    BY <1>2, MineSeq DEF IInv, IsChain
  <1>6. \A e : e.data = d => score = Value(kind, Append(m, e))
    BY <1>1, <1>4, <1>5, ValueGrows
  <1>7. FromLog(kind', aux', log')
    BY <1>2, <1>3, <1>4, <1>6, MapGrows
  <1>8. PICK e : /\ log' = Append(log, e) /\ e.data = d
                 /\ aux' = Put(aux, peer, score) /\ kind' = kind
    BY <1>3, Grown
  <1>9. \A p \in Peers : Get(aux, p, 50) = Score(Mine(log, 1, p))
    BY <1>1 DEF Cached
  <1>10. base = Score(m)
    BY <1>2, <1>9
  <1>11. base \in 0..100 /\ Score(Append(m, e)) = Earned(base, d)
    BY <1>5, <1>8, <1>10, ScoreGrows
  <1>12. score = Earned(base, d)
    BY <1>2, <1>4, <1>11, EarnedIs, SMTT(40)
  <1>13. ASSUME NEW p \in Peers PROVE Get(aux', p, 50) = Score(Mine(log', 1, p))
    <2>1. Mine(Append(log, e), 1, p)
            = IF e.data[1] = p THEN Append(Mine(log, 1, p), e) ELSE Mine(log, 1, p)
      BY <1>5, MineAppend
    <2>2. CASE p = peer
      <3>1. Mine(log', 1, p) = Append(m, e)
        BY <1>2, <1>4, <1>8, <2>1, <2>2
      <3>2. Get(aux', p, 50) = score
        BY <1>8, <2>2 DEF Get, Put
      <3> QED BY <1>11, <1>12, <3>1, <3>2
    <2>3. CASE p # peer
      <3>1. Mine(log', 1, p) = Mine(log, 1, p)
        BY <1>4, <1>8, <2>1, <2>3
      <3>2. Get(aux', p, 50) = Get(aux, p, 50)
        BY <1>8, <2>3 DEF Get, Put
      <3> QED BY <1>9, <3>1, <3>2
    <2> QED BY <2>2, <2>3
  <1> QED
    BY <1>1, <1>7, <1>8, <1>13 DEF Cached, MapKinds

\* The files that carry something step by their own actions.
LEMMA CarriedStep ==
  ASSUME Next, kind \in CarriedKinds
  PROVE  \/ gossip_ack_latency     \/ gossip_epoch_window    \/ gossip_frame_rate
         \/ gossip_jitter          \/ gossip_topology_change \/ gossip_neighbor_score
         \/ gossip_peer_reputation \/ gossip_peer_score      \/ gossip_reachability
         \/ gossip_retransmit
  <1>1. /\ ~ gossip_broadcast
        /\ ~ gossip_backpressure
        /\ ~ gossip_backpressure_epoch
        /\ ~ gossip_connection_pool
    <2>1. gossip_broadcast => kind = "gossip_broadcast"
      BY Zenon DEF gossip_broadcast, Of
    <2>2. gossip_backpressure => kind = "gossip_backpressure"
      BY Zenon DEF gossip_backpressure, Of
    <2>3. gossip_backpressure_epoch => kind = "gossip_backpressure_epoch"
      BY Zenon DEF gossip_backpressure_epoch, Of
    <2>4. gossip_connection_pool => kind = "gossip_connection_pool"
      BY Zenon DEF gossip_connection_pool, Of
    <2> QED BY <2>1, <2>2, <2>3, <2>4 DEF CarriedKinds
  <1>2. /\ ~ gossip_dedup_window
        /\ ~ gossip_delivery_ratio
        /\ ~ gossip_drop_rate
        /\ ~ gossip_epoch_bandwidth
    <2>1. gossip_dedup_window => kind = "gossip_dedup_window"
      BY Zenon DEF gossip_dedup_window, Of
    <2>2. gossip_delivery_ratio => kind = "gossip_delivery_ratio"
      BY Zenon DEF gossip_delivery_ratio, Of
    <2>3. gossip_drop_rate => kind = "gossip_drop_rate"
      BY Zenon DEF gossip_drop_rate, Of
    <2>4. gossip_epoch_bandwidth => kind = "gossip_epoch_bandwidth"
      BY Zenon DEF gossip_epoch_bandwidth, Of
    <2> QED BY <2>1, <2>2, <2>3, <2>4 DEF CarriedKinds
  <1>3. /\ ~ gossip_epoch_convergence
        /\ ~ gossip_epoch_error
        /\ ~ gossip_epoch_health
        /\ ~ gossip_fanout_epoch
    <2>1. gossip_epoch_convergence => kind = "gossip_epoch_convergence"
      BY Zenon DEF gossip_epoch_convergence, Of
    <2>2. gossip_epoch_error => kind = "gossip_epoch_error"
      BY Zenon DEF gossip_epoch_error, Of
    <2>3. gossip_epoch_health => kind = "gossip_epoch_health"
      BY Zenon DEF gossip_epoch_health, Of
    <2>4. gossip_fanout_epoch => kind = "gossip_fanout_epoch"
      BY Zenon DEF gossip_fanout_epoch, Of
    <2> QED BY <2>1, <2>2, <2>3, <2>4 DEF CarriedKinds
  <1>4. /\ ~ gossip_fanout_tracker
        /\ ~ gossip_health_report
        /\ ~ gossip_latency_histogram
        /\ ~ gossip_message_size
    <2>1. gossip_fanout_tracker => kind = "gossip_fanout_tracker"
      BY Zenon DEF gossip_fanout_tracker, Of
    <2>2. gossip_health_report => kind = "gossip_health_report"
      BY Zenon DEF gossip_health_report, Of
    <2>3. gossip_latency_histogram => kind = "gossip_latency_histogram"
      BY Zenon DEF gossip_latency_histogram, Of
    <2>4. gossip_message_size => kind = "gossip_message_size"
      BY SMT DEF gossip_message_size, Of
    <2> QED BY <2>1, <2>2, <2>3, <2>4 DEF CarriedKinds
  <1>5. /\ ~ gossip_queue_depth
        /\ ~ gossip_round_trip_time
        /\ ~ gossip_peer_diversity
        /\ ~ gossip_peer_timeout
    <2>1. gossip_queue_depth => kind = "gossip_queue_depth"
      BY Zenon DEF gossip_queue_depth, Of
    <2>2. gossip_round_trip_time => kind = "gossip_round_trip_time"
      BY Zenon DEF gossip_round_trip_time, Of
    <2>3. gossip_peer_diversity => kind = "gossip_peer_diversity"
      BY Zenon DEF gossip_peer_diversity, Of
    <2>4. gossip_peer_timeout => kind = "gossip_peer_timeout"
      BY Zenon DEF gossip_peer_timeout, Of
    <2> QED BY <2>1, <2>2, <2>3, <2>4 DEF CarriedKinds
  <1>6. /\ ~ gossip_peer_uptime
        /\ ~ gossip_ttl_tracker
        /\ ~ gossip_window_fill
        /\ ~ gossip_broadcast_summary
    <2>1. gossip_peer_uptime => kind = "gossip_peer_uptime"
      BY Zenon DEF gossip_peer_uptime, Of
    <2>2. gossip_ttl_tracker => kind = "gossip_ttl_tracker"
      BY Zenon DEF gossip_ttl_tracker, Of
    <2>3. gossip_window_fill => kind = "gossip_window_fill"
      BY Zenon DEF gossip_window_fill, Of
    <2>4. gossip_broadcast_summary => kind = "gossip_broadcast_summary"
      BY Zenon DEF gossip_broadcast_summary, Of
    <2> QED BY <2>1, <2>2, <2>3, <2>4 DEF CarriedKinds
  <1>7. /\ ~ gossip_epoch_seal
        /\ ~ gossip_health_snapshot
        /\ ~ gossip_epoch_finalizer
        /\ ~ gossip_frame_size_histogram
    <2>1. gossip_epoch_seal => kind = "gossip_epoch_seal"
      BY Zenon DEF gossip_epoch_seal, Of
    <2>2. gossip_health_snapshot => kind = "gossip_health_snapshot"
      BY Zenon DEF gossip_health_snapshot, Of
    <2>3. gossip_epoch_finalizer => kind = "gossip_epoch_finalizer"
      BY Zenon DEF gossip_epoch_finalizer, WindowOf
    <2>4. gossip_frame_size_histogram => kind = "gossip_frame_size_histogram"
      BY Zenon DEF gossip_frame_size_histogram, Of
    <2> QED BY <2>1, <2>2, <2>3, <2>4 DEF CarriedKinds
  <1>8. /\ ~ gossip_latency_tracker
        /\ ~ gossip_peer_churn
        /\ ~ gossip_pipeline_summary
    <2>1. gossip_latency_tracker => kind = "gossip_latency_tracker"
      BY Zenon DEF gossip_latency_tracker, Of
    <2>2. gossip_peer_churn => kind = "gossip_peer_churn"
      BY Zenon DEF gossip_peer_churn, Of
    <2>3. gossip_pipeline_summary => kind = "gossip_pipeline_summary"
      BY Zenon DEF gossip_pipeline_summary, Of
    <2> QED BY <2>1, <2>2, <2>3 DEF CarriedKinds
  <1> QED
    BY <1>1, <1>2, <1>3, <1>4, <1>5, <1>6, <1>7, <1>8, Zenon DEF Next

\* Every action keeps what is beside the log what the entries give.
LEMMA CachedStep ==
  ASSUME IInv, Cached(kind, aux, log), Next
  PROVE  Cached(kind', aux', log')
  <1>1. CASE kind \in CarriedKinds
    BY <1>1, CarriedStep, WindowsCached, MapsCached, ReputationsCached, Zenon
  <1>2. CASE kind \notin CarriedKinds
    <2>1. PICK d, a : Push(d, a)
      BY NextPushes
    <2>2. kind' = kind
      BY <2>1, Grown
    <2> QED BY <1>2, <2>2 DEF Cached, MapKinds, CarriedKinds
  <1> QED
    BY <1>1, <1>2

\* Nothing is kept beside an empty log.
LEMMA InitCached == Init => Cached(kind, aux, log)
  <1>1. SUFFICES ASSUME Init PROVE Cached(kind, aux, log)
    OBVIOUS
  <1>2. log = << >> /\ (kind \in CarriedKinds => aux = << >>)
    BY <1>1 DEF Init, CarriedKinds
  <1>3. Newest(Column(log, 2)) = << >>
    BY <1>2, NothingKept
  <1>4. FromLog(kind, << >>, log)
    <2>1. Ids(log, Key(kind)) = {}
      BY <1>2 DEF Ids
    <2>2. PICK a : a = [p \in Ids(log, Key(kind)) |-> Value(kind, Mine(log, Key(kind), p))]
      OBVIOUS
    <2>3. DOMAIN a = {} /\ a = [p \in {} |-> a[p]]
      BY <2>1, <2>2
    <2>4. a = << >>
      BY <2>3
    <2> QED BY <2>2, <2>4 DEF FromLog
  <1>5. \A p \in Peers : Get(<< >>, p, 50) = Score(Mine(log, 1, p))
    <2>1. SUFFICES ASSUME NEW p \in Peers PROVE Get(<< >>, p, 50) = Score(Mine(log, 1, p))
      OBVIOUS
    <2>2. IsSeq(log) /\ Len(log) = 0
      BY <1>2 DEF IsSeq
    <2>3. Mine(log, 1, p) = << >> /\ IsSeq(Mine(log, 1, p))
      BY <2>2, MineSeq
    <2>4. Score(Mine(log, 1, p)) = 50
      BY <2>3, ScoreGrows
    <2> QED BY <2>4 DEF Get
  <1> QED
    BY <1>2, <1>3, <1>4, <1>5 DEF Cached, CarriedKinds, MapKinds

\* The last entry of a log, cut out by its index.
LEMMA LastOne ==
  ASSUME NEW q, IsSeq(q)
  PROVE  SubSeq(q, Max({1, Len(q)}), Len(q)) = IF q = << >> THEN << >> ELSE <<q[Len(q)]>>
  <1>1. PICK n \in Nat : n = Len(q)
    BY SeqFacts
  <1>2. PICK m : m = Max({1, n})
    OBVIOUS
  <1>3. m = (IF n > 1 THEN n ELSE 1) /\ m \in Int
    <2>1. Max({1, n}) = IF n > 1 THEN n ELSE 1
      BY MaxOfTwo
    <2> QED BY <1>2, <2>1
  <1>4. PICK S : S = Range(q)
    OBVIOUS
  <1>5. \A i \in m..n : q[i] \in S
    BY <1>1, <1>3, <1>4, SeqFacts DEF Range
  <1>6. PICK s : s = SubSeq(q, m, n)
    OBVIOUS
  <1>7. /\ s \in Seq(S) /\ Len(s) = (IF m <= n THEN n - m + 1 ELSE 0)
        /\ \A i \in 1..(n - m + 1) : s[i] = q[m + i - 1]
    BY <1>3, <1>5, <1>6, SubSeqProperties
  <1>8. CASE n = 0
    <2>1. Len(s) = 0
      BY <1>3, <1>7, <1>8
    <2>2. s = << >>
      BY <1>7, <2>1
    <2>3. q = << >>
      <3>1. q \in Seq(S) /\ Len(q) = 0
        BY <1>1, <1>4, <1>8 DEF IsSeq
      <3> QED BY <3>1
    <2> QED BY <1>1, <1>2, <1>6, <2>2, <2>3
  <1>9. CASE n # 0
    <2>1. m = n /\ Len(s) = 1 /\ s[1] = q[n]
      BY <1>3, <1>7, <1>9
    <2>2. s = <<q[n]>>
      BY <1>7, <2>1
    <2>3. q # << >>
      BY <1>1, <1>9
    <2> QED BY <1>1, <1>2, <1>6, <2>2, <2>3
  <1> QED
    BY <1>8, <1>9

\* What the property reads back from the entries is what is cached.
LEMMA CachedReads ==
  ASSUME IInv, Cached(kind, aux, log)
  PROVE  CachesReadBackFromLog
  <1>1. IsSeq(log) /\ Len(log) \in Nat
    BY SeqFacts DEF IInv, IsChain
  <1>2. \A f, p : ForPeer(f, p) = Mine(log, f, p)
    BY DEF ForPeer, Mine
  <1>3. \A f : PeersIn(f) = Ids(log, f)
    BY DEF PeersIn, Ids
  <1>4. CASE kind \in {"gossip_epoch_window", "gossip_frame_rate"}
    <2>1. Len(log) - 4 + 1 = Len(log) - 3
      BY <1>1
    <2>2. SubSeq(log, Max({1, Len(log) - 4 + 1}), Len(log)) = Newest(log)
      BY <1>1, <2>1, LastFour
    <2>3. LastOf(2, 4) = Column(Newest(log), 2)
      BY <2>2, Zenon DEF LastOf
    <2>4. LastOf(2, 4) = Newest(Column(log, 2))
      BY <1>1, <2>3, NewestColumn
    <2>5. aux = Newest(Column(log, 2)) /\ kind # "gossip_peer_reputation"
      BY <1>4 DEF Cached
    <2>6. ReadBack = LastOf(2, 4)
      BY <1>4 DEF ReadBack
    <2> QED BY <2>4, <2>5, <2>6 DEF CachesReadBackFromLog, ReputationFold
  <1>5. CASE kind \in {"gossip_jitter", "gossip_topology_change"}
    <2>1. Len(log) - 1 + 1 = Len(log)
      BY <1>1
    <2>2. PICK s : s = SubSeq(log, Max({1, Len(log)}), Len(log))
      OBVIOUS
    <2>3. s = IF log = << >> THEN << >> ELSE <<log[Len(log)]>>
      BY <1>1, <2>2, LastOne
    <2>4. LastOf(2, 1) = Column(s, 2)
      BY <2>1, <2>2 DEF LastOf
    <2>5. Column(s, 2) = IF log = << >> THEN << >> ELSE <<log[Len(log)].data[2]>>
      <3>1. CASE log = << >>
        BY <2>3, <3>1 DEF Column
      <3>2. CASE log # << >>
        <4>1. PICK e : e = log[Len(log)]
          OBVIOUS
        <4>2. DOMAIN s = {1} /\ s[1] = e
          BY <2>3, <3>2, <4>1
        <4>3. Column(s, 2) = [i \in 1..1 |-> e.data[2]]
          BY <4>2 DEF Column
        <4>4. Column(s, 2) = <<e.data[2]>>
          BY <4>3
        <4> QED BY <3>2, <4>1, <4>4
      <3> QED BY <3>1, <3>2
    <2>6. /\ aux = IF log = << >> THEN << >> ELSE <<log[Len(log)].data[2]>>
          /\ kind # "gossip_peer_reputation"
      BY <1>5 DEF Cached
    <2>7. ReadBack = LastOf(2, 1)
      BY <1>5 DEF ReadBack
    <2> QED BY <2>4, <2>5, <2>6, <2>7 DEF CachesReadBackFromLog, ReputationFold
  <1>6. CASE kind \in MapKinds
    <2>1. aux = [p \in Ids(log, Key(kind)) |-> Value(kind, Mine(log, Key(kind), p))]
      BY <1>6 DEF Cached, FromLog
    <2>2. CASE kind = "gossip_ack_latency"
      <3>1. ASSUME NEW m, IsSeq(m)
            PROVE  Value(kind, m) = LET mine == Column(m, 3)
                                    IN  SubSeq(mine, Max({1, Len(mine) - 3}), Len(mine))
        <4>1. IsSeq(Column(m, 3))
          BY <3>1, Columns
        <4>2. SubSeq(Column(m, 3), Max({1, Len(Column(m, 3)) - 3}), Len(Column(m, 3)))
                = Newest(Column(m, 3))
          BY <4>1, LastFour
        <4> QED BY <2>2, <4>2 DEF Value
      <3>2. \A p : IsSeq(Mine(log, 1, p))
        BY <1>1, MineSeq
      <3>3. aux = [p \in PeersIn(1) |->
                     LET mine == Column(ForPeer(1, p), 3)
                     IN  SubSeq(mine, Max({1, Len(mine) - 3}), Len(mine))]
        BY <1>2, <1>3, <2>1, <2>2, <3>1, <3>2 DEF Key
      <3>4. aux = ReadBack
        BY <2>2, <3>3 DEF ReadBack
      <3> QED BY <2>2, <3>4 DEF CachesReadBackFromLog, ReputationFold
    <2>3. CASE kind = "gossip_neighbor_score"
      <3>1. aux = [p \in PeersIn(1) |-> Final(ForPeer(1, p), 6)]
        BY <1>2, <1>3, <2>1, <2>3 DEF Key, Value
      <3>2. aux = ReadBack
        BY <2>3, <3>1 DEF ReadBack
      <3> QED BY <2>3, <3>2 DEF CachesReadBackFromLog, ReputationFold
    <2>4. CASE kind = "gossip_reachability"
      <3>1. aux = [p \in PeersIn(1) |-> Final(ForPeer(1, p), 3)]
        BY <1>2, <1>3, <2>1, <2>4 DEF Key, Value
      <3>2. aux = ReadBack
        BY <2>4, <3>1 DEF ReadBack
      <3> QED BY <2>4, <3>2 DEF CachesReadBackFromLog, ReputationFold
    <2>5. CASE kind = "gossip_peer_score"
      <3>1. aux = [p \in PeersIn(1) |-> <<total(ForPeer(1, p), 3), Len(ForPeer(1, p))>>]
        BY <1>2, <1>3, <2>1, <2>5 DEF Key, Value
      <3>2. aux = ReadBack
        BY <2>5, <3>1 DEF ReadBack
      <3> QED BY <2>5, <3>2 DEF CachesReadBackFromLog, ReputationFold
    <2>6. CASE kind = "gossip_retransmit"
      <3>1. aux = [p \in PeersIn(2) |-> total(ForPeer(2, p), 3)]
        BY <1>2, <1>3, <2>1, <2>6 DEF Key, Value
      <3>2. aux = ReadBack
        BY <2>6, <3>1 DEF ReadBack
      <3> QED BY <2>6, <3>2 DEF CachesReadBackFromLog, ReputationFold
    <2>7. CASE kind = "gossip_peer_reputation"
      <3>1. aux = [p \in PeersIn(1) |-> Final(ForPeer(1, p), 3)]
        BY <1>2, <1>3, <2>1, <2>7 DEF Key, Value
      <3>2. aux = ReadBack
        BY <2>7, <3>1 DEF ReadBack
      <3>3. \A p \in Peers : Get(aux, p, 50) = Score(ForPeer(1, p))
        BY <1>2, <2>7 DEF Cached
      <3>4. ReputationFold
        BY <3>3 DEF ReputationFold, Score, Earned
      <3> QED BY <3>2, <3>4 DEF CachesReadBackFromLog
    <2> QED BY <1>6, <2>2, <2>3, <2>4, <2>5, <2>6, <2>7 DEF MapKinds
  <1>7. CASE kind \notin {"gossip_epoch_window", "gossip_frame_rate", "gossip_jitter",
                          "gossip_topology_change"} \cup MapKinds
    BY <1>7 DEF CachesReadBackFromLog, ReadBack, ReputationFold, MapKinds
  <1> QED
    BY <1>4, <1>5, <1>6, <1>7

\* Whoever holds only the entries can rebuild the window, the last value or
\* the map that the struct keeps beside them, in every file that keeps one; a
\* peer's reputation is what its own deliveries and churn make of 50.
THEOREM CachesCorrect == Spec => []CachesReadBackFromLog
  <1>1. Init => IInv /\ Cached(kind, aux, log)
    BY InitIInv, InitCached
  <1>2. IInv /\ Cached(kind, aux, log) /\ [Next]_vars => Cached(kind, aux, log)'
    <2>1. ASSUME IInv, Cached(kind, aux, log), Next PROVE Cached(kind, aux, log)'
      BY <2>1, CachedStep
    <2>2. ASSUME Cached(kind, aux, log), UNCHANGED vars PROVE Cached(kind, aux, log)'
      BY <2>2 DEF vars
    <2> QED BY <2>1, <2>2
  <1>3. IInv /\ Cached(kind, aux, log) => CachesReadBackFromLog
    BY CachedReads
  <1> QED
    BY <1>1, <1>2, <1>3, InvariantHolds, PTL DEF Spec
=============================================================================
