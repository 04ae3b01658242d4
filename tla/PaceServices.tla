---------------------------- MODULE PaceServices -----------------------------
(***************************************************************************)
(* The services of src/aegis-cl-psi that pace the gossip and look back on  *)
(* it: the fan-out adapted to deliveries, the Fibonacci schedule, the      *)
(* archive of epoch snapshots and the certifier of convergence.            *)
(***************************************************************************)
EXTENDS EpochServices

CONSTANTS
    \* the constants of the files, scaled down by the configurations
    MIN_FANOUT, MAX_FANOUT, FIB_CAP_INDEX, MAX_ARCHIVE_SIZE, CONVERGENCE_WINDOW_SIZE,
    U8Range     \* 256: one more than u8::MAX

ASSUME PaceAssumption ==
    /\ MIN_FANOUT \in Nat /\ MAX_FANOUT \in Nat /\ MIN_FANOUT <= MAX_FANOUT
    /\ FIB_CAP_INDEX \in Nat \ {0} /\ U8Range \in Nat /\ U8Range > FIB_CAP_INDEX
    /\ MAX_ARCHIVE_SIZE \in Nat \ {0} /\ CONVERGENCE_WINDOW_SIZE \in Nat \ {0}

PaceKinds == {
    "adaptive_fanout_controller", "gossip_scheduler", "epoch_snapshot_archive",
    "convergence_certifier" }

with_fanout(fanout) == Min({Max({fanout, MIN_FANOUT}), MAX_FANOUT})

PaceInit ==
    IF kind = "adaptive_fanout_controller"
    THEN \E fanout \in 0..(MAX_FANOUT + 1) : st = with_fanout(fanout)
    ELSE st = << >>

-----------------------------------------------------------------------------
(* The fan-out: 0 Increase, 1 Decrease, 2 Unchanged. *)

\* Delivered and attempted: none, under 60 %, at the thresholds, over 90 %.
Deliveries == {<<0, 0>>, <<119, 200>>, <<3, 5>>, <<181, 200>>, <<9, 7>>}

delivery_rate(d) == (AtMost(d[1], d[2]) * 100) \div d[2]
FanoutAdjustment(rate) == CASE rate < 60 -> 0 [] rate > 90 -> 1 [] OTHER -> 2
Adjusted(fanout, adjustment) ==
    CASE adjustment = 0 -> AtMost(fanout + 1, MAX_FANOUT)
      [] adjustment = 1 -> Max({fanout - 1, MIN_FANOUT})
      [] OTHER -> fanout

\* The fan-out moves also when the log refuses the epoch: observe drops what
\* record returns.
observe_delivery ==
    /\ Serve("adaptive_fanout_controller")
    /\ \E e \in Epochs, d \in Deliveries :
          IF d[2] = 0
          THEN Return("refused", <<e, d>>, "AttemptedZero") /\ UNCHANGED <<st, logs>>
          ELSE LET rate == delivery_rate(d)
                   new == Adjusted(st, FanoutAdjustment(rate))
               IN  /\ st' = new
                   /\ logs' = IF StaleIn(0, e, 1) THEN logs
                              ELSE Chained(0, <<e, rate, st, new, FanoutAdjustment(rate)>>)
                   /\ Return("observe", <<e, d>>, FanoutAdjustment(rate))

-----------------------------------------------------------------------------
(* The schedule: an interval is <<sequence, index, ms, cumulative ms>>. *)

fibonacci[n \in 0..FIB_CAP_INDEX] == IF n <= 2 THEN 1 ELSE fibonacci[n - 1] + fibonacci[n - 2]
interval_ms(n) == 100 * fibonacci[n]

\* The number of the interval is cast to a byte before it is capped.
next_fib_index == AtMost((Len(LogOf(0)) + 1) % U8Range, FIB_CAP_INDEX)
total_elapsed_ms == IF LogOf(0) = << >> THEN 0 ELSE LastRecord(0)[4]

tick_schedule ==
    /\ Serve("gossip_scheduler")
    /\ \E sequence \in {Len(calls) + 1, Len(calls)} :
          IF StaleIn(0, sequence, 1) THEN Stale(<<sequence>>)
          ELSE LET ms == interval_ms(next_fib_index)
               IN  /\ logs' = Chained(0, <<sequence, next_fib_index, ms, total_elapsed_ms + ms>>)
                   /\ Return("tick", <<sequence>>, ms)
                   /\ UNCHANGED st

-----------------------------------------------------------------------------
(* Snapshots: an entry of the log, of which the oldest are evicted. *)

\* The archive's last hash and last epoch are those of its last entry, which
\* is never the one evicted.
archive ==
    /\ Serve("epoch_snapshot_archive")
    /\ \E e \in Epochs, sent \in {0, 3} :
          IF StaleIn(0, e, 1) THEN Stale(<<e, sent>>)
          ELSE LET grown == ChainPush(LogOf(0), <<e, sent>>, 1..2)
               IN  /\ logs' = Put(logs, 0, SubSeq(grown,
                                    SaturatingSub(Len(grown), MAX_ARCHIVE_SIZE) + 1, Len(grown)))
                   /\ Return("archive", <<e, sent>>, "Ok")
                   /\ UNCHANGED st

archive_verify_chain == verify_chain(LogOf(0), 1..2)

-----------------------------------------------------------------------------
(* Convergence: a window of epoch snapshots, a certificate when it is full. *)

\* Reach in per cent, fan-out, quorum, blocked peers.
Converged == [reach |-> 50, fanout |-> 7, quorum |-> TRUE, blocked |-> 0]
Snapshots == { Converged, [Converged EXCEPT !.reach = 49], [Converged EXCEPT !.fanout = 8],
               [Converged EXCEPT !.quorum = FALSE], [Converged EXCEPT !.blocked = 1] }

satisfies_convergence(s) == s.quorum /\ s.reach >= 50 /\ s.blocked = 0 /\ s.fanout <= 7

\* The epochs of the snapshots are not compared.
push_epoch ==
    /\ Serve("convergence_certifier")
    /\ \E e \in Epochs, s \in Snapshots :
          LET window == Slide(st, [epoch |-> e] @@ s, CONVERGENCE_WINDOW_SIZE)
              lowest == Min({ w.reach : w \in Range(window) })
              highest == Max({ w.fanout : w \in Range(window) })
              sound == \A w \in Range(window) : satisfies_convergence(w)
          IN  /\ st' = window
              /\ IF Len(window) < CONVERGENCE_WINDOW_SIZE
                 THEN Return("push", <<e, s>>, "None") /\ UNCHANGED logs
                 ELSE /\ logs' = Chained(0, <<window[1].epoch, e, Len(window), lowest, highest,
                                              Byte(sound)>>)
                      /\ Return("push", <<e, s>>, "Certificate")

consecutive_converged_count ==
    LET broken == { n \in DOMAIN LogOf(0) : LogOf(0)[n].data[6] = 0 }
    IN  Len(LogOf(0)) - Max({0} \cup broken)

PaceNext == observe_delivery \/ tick_schedule \/ archive \/ push_epoch

-----------------------------------------------------------------------------
(* What must hold. *)

\* The fan-out stays within its bounds, and the pace slows down until its cap:
\* only where the byte that counts the intervals wraps does it start over.
PaceLimits ==
    /\ kind = "adaptive_fanout_controller" => st \in MIN_FANOUT..MAX_FANOUT
    /\ kind = "gossip_scheduler" =>
         \A n \in DOMAIN LogOf(0) :
           LET ms(m) == LogOf(0)[m].data[3]
           IN  /\ ms(n) <= interval_ms(FIB_CAP_INDEX)
               /\ n > 1 /\ n % U8Range # 0 => ms(n) >= ms(n - 1)
               /\ n % U8Range >= FIB_CAP_INDEX => ms(n) = interval_ms(FIB_CAP_INDEX)

\* Each record of the fan-out continues the one before it, unless a report of
\* an old epoch, which no record shows, has moved the fan-out in between; the
\* schedule's running total is the sum of the intervals it gave out.
PaceLogsRebuild ==
    /\ kind = "adaptive_fanout_controller" =>
         LET observed == Made("observe")
             OldNews(i) == \E j \in observed : j < i /\ Arg(j, 1) >= Arg(i, 1)
             At(e) == CHOOSE i \in observed : Arg(i, 1) = e /\ ~OldNews(i)
             Unrecorded(i, j) == { k \in Between(i, j) \cap observed : ~Got(k, 2) }
             records == LogOf(0)
         IN  /\ Len(records) = Cardinality({ i \in observed : ~OldNews(i) })
             /\ \A n \in DOMAIN records :
                  /\ n > 1 /\ records[n].data[3] # records[n - 1].data[4]
                       => Unrecorded(At(records[n - 1].data[1]), At(records[n].data[1])) # {}
                  /\ n = Len(records) /\ records[n].data[4] # st
                       => Unrecorded(At(records[n].data[1]), Len(calls) + 1) # {}
    /\ kind = "gossip_scheduler" =>
         LET given(i) == calls[i].result
         IN  total_elapsed_ms = MapThenSumSet(given, Made("tick"))

\* Convergence is certified as often in a row as snapshots were sound in a row
\* since the window filled: one bad epoch voids every window it is in.
PaceVerdicts ==
    kind = "convergence_certifier" =>
      LET pushed == Made("push")
          bad == { i \in pushed : ~satisfies_convergence(Arg(i, 2)) }
          run == Len(calls) - Max({0} \cup bad)
      IN  consecutive_converged_count = SaturatingSub(run, CONVERGENCE_WINDOW_SIZE - 1)

\* The archive keeps the newest snapshots, linked to each other; its chain
\* verifies exactly while nothing was evicted, for it is walked from the start.
ArchiveKeepsNewest ==
    kind = "epoch_snapshot_archive" =>
      LET all == SetToSortSeq(Made("archive"), <)
          kept == LogOf(0)
          evicted == Len(all) - Len(kept)
      IN  /\ Len(kept) = AtMost(Len(all), MAX_ARCHIVE_SIZE)
          /\ \A n \in DOMAIN kept :
               /\ kept[n].data = calls[all[evicted + n]].args
               /\ n > 1 => kept[n].prev = kept[n - 1].hash
          /\ archive_verify_chain = 0 <=> evicted = 0
=============================================================================
