---------------------------- MODULE MeshServices ----------------------------
(***************************************************************************)
(* The services of src/aegis-cl-psi around a message and the mesh it       *)
(* crosses: the epoch-scoped duplicate cache, fragments, authentication    *)
(* tags and the decaying priority queue; and the verdicts on the mesh: the *)
(* fan-out policy, the epoch audit, quorum drift and divergence.           *)
(***************************************************************************)
EXTENDS EpochServices

CONSTANTS
    \* the constants of the files, scaled down by the configurations
    DEFAULT_MAX_EPOCH_LAG, FRAGMENT_SIZE, MAX_FRAGMENTS, MAX_LAG_ALLOWED

ASSUME MeshAssumption ==
    /\ DEFAULT_MAX_EPOCH_LAG \in Nat /\ MAX_LAG_ALLOWED \in Nat
    /\ FRAGMENT_SIZE \in Nat \ {0} /\ MAX_FRAGMENTS \in Nat \ {0}

MeshKinds == {
    "dedup_cache", "message_fragmenter", "message_authenticator", "gossip_priority",
    "fanout_controller", "epoch_auditor", "quorum_drift", "divergence_oracle" }

-----------------------------------------------------------------------------
(* The duplicate cache: the current epoch and the epoch each key was seen. *)

check_and_insert ==
    /\ Serve("dedup_cache")
    /\ \E p \in Peers, m \in Ids, e \in Epochs :
          LET result ==
                CASE e + DEFAULT_MAX_EPOCH_LAG < st.current -> "EpochTooOld"
                  [] e > st.current + 1 -> "EpochTooFuture"
                  [] OTHER -> IF <<p, m>> \in DOMAIN st.entries THEN "Duplicate" ELSE "New"
          IN  /\ st' = IF result = "New" THEN [st EXCEPT !.entries = Put(@, <<p, m>>, e)] ELSE st
              /\ Return("insert", <<p, m, e>>, result)
    /\ UNCHANGED logs

evict_stale(entries, current) ==
    Dropping(entries, { k \in DOMAIN entries : entries[k] + DEFAULT_MAX_EPOCH_LAG < current })

dedup_advance_epoch ==
    /\ Serve("dedup_cache")
    /\ \E e \in Epochs :
          /\ st' = IF e <= st.current THEN st
                   ELSE [current |-> e, entries |-> evict_stale(st.entries, e)]
          /\ Return("advance", <<e>>, st'.current)
    /\ UNCHANGED logs

-----------------------------------------------------------------------------
(* Fragments.  A payload is the sequence of its bytes, <<message, place>>.   *)

\* Two messages of as many fragments, a shorter one, an empty and a huge one.
Data(m) ==
    LET full == FRAGMENT_SIZE * MAX_FRAGMENTS
        length == CASE m = 1 -> full [] m = 2 -> full - 1 [] m = 3 -> FRAGMENT_SIZE
                    [] m = 4 -> 0 [] OTHER -> full + 1
    IN  [n \in 1..length |-> <<m, n>>]

total_fragments(m) == (Len(Data(m)) + FRAGMENT_SIZE - 1) \div FRAGMENT_SIZE

\* No fragments of EmptyPayload and MessageTooLarge.
fragment_message(m) ==
    IF total_fragments(m) \notin 1..MAX_FRAGMENTS THEN {}
    ELSE { [index |-> i, total |-> total_fragments(m),
            payload |-> SubSeq(Data(m), i * FRAGMENT_SIZE + 1,
                               AtMost((i + 1) * FRAGMENT_SIZE, Len(Data(m))))] :
           i \in 0..(total_fragments(m) - 1) }

Fragments == UNION { fragment_message(m) : m \in Ids }

\* A buffer is made for a number of fragments; its message id is never read.
missing_indices(slots) == { i \in DOMAIN slots : slots[i] = << >> }
Joined(slots) == FlattenSeq([n \in 1..Cardinality(DOMAIN slots) |-> slots[n - 1]])

insert_fragment ==
    /\ Serve("message_fragmenter")
    /\ \E f \in Fragments :
          IF f.total # Cardinality(DOMAIN st)
          THEN Return("refused", f, "InconsistentHeader") /\ UNCHANGED st
          ELSE IF f.index \notin missing_indices(st)
          THEN Return("refused", f, "DuplicateFragment") /\ UNCHANGED st
          ELSE /\ st' = [st EXCEPT ![f.index] = f.payload]
               /\ Return("insert", f, IF missing_indices(st') = {} THEN Joined(st') ELSE << >>)
    /\ UNCHANGED logs

-----------------------------------------------------------------------------
(* Authentication tags, under one session key. *)

compute_auth_tag(p, e, m, payload) == <<p, e, m, payload>>

\* The claimed tag is one of another peer, epoch, message or payload, or right.
verify_message ==
    /\ Serve("message_authenticator")
    /\ \E p \in Peers, e \in Epochs, m \in Ids, payload \in {0, 1} :
       \E claimed \in { compute_auth_tag(p, e, m, payload),
                        compute_auth_tag(p + 1, e, m, payload),
                        compute_auth_tag(p, e + 1, m, payload),
                        compute_auth_tag(p, e, m + 1, payload),
                        compute_auth_tag(p, e, m, 1 - payload) } :
          LET is_valid == claimed = compute_auth_tag(p, e, m, payload)
          IN  /\ logs' = Chained(p, <<p, e, m, Byte(is_valid), payload, claimed>>)
              /\ Return("verify", <<p, e, m, payload, claimed>>, is_valid)
    /\ UNCHANGED st

peer_forgery_count(p) == Len(Records(p, 4, 0))
total_forgeries == MapThenSumSet(peer_forgery_count, DOMAIN logs)

-----------------------------------------------------------------------------
(* The outbound queue, in the order of scores that decay with the epochs.    *)

\* Time to live, urgency and fan-out: beyond the largest values, scores that
\* meet under division once the messages have expired.
Messages == { <<99, 11, 9>>, <<1, 5, 1>>, <<1, 4, 1>> }

Clip(n, lowest, highest) == Min({Max({n, lowest}), highest})
compute_score(msg, elapsed) ==
    (AtMost(msg[1], 15) * Clip(msg[2], 1, 10) * Clip(msg[3], 1, 8)) \div (AtMost(elapsed, 1000) + 1)
classify_priority(score) ==
    CASE score >= 1000 -> 0 [] score \in 500..999 -> 1 [] score \in 100..499 -> 2 [] OTHER -> 3

effective_score(q, id, e) == compute_score(q[id].msg, SaturatingSub(e, q[id].epoch))
is_expired(q, id, e) == SaturatingSub(e, q[id].epoch) > q[id].msg[1]

priority_enqueue ==
    /\ Serve("gossip_priority")
    /\ \E msg \in Messages, e \in Epochs :
          /\ st' = [next |-> st.next + 1,
                    queue |-> Put(st.queue, st.next, [msg |-> msg, epoch |-> e])]
          /\ Return("enqueue", <<msg, e>>, st.next)
    /\ UNCHANGED logs

\* The best first, and the older of two equals; expired messages are not
\* skipped.
dequeue_batch ==
    /\ Serve("gossip_priority")
    /\ \E e \in Epochs, max_count \in Ids :
          LET score(id) == effective_score(st.queue, id, e)
              earlier(a, b) == score(a) > score(b) \/ (score(a) = score(b) /\ a < b)
              scored == Sorted(DOMAIN st.queue, earlier)
              batch == SubSeq(scored, 1, AtMost(max_count, Len(scored)))
          IN  /\ st' = [st EXCEPT !.queue = Dropping(@, Range(batch))]
              /\ Return("dequeue", <<e, max_count>>,
                        [n \in DOMAIN batch |-> <<batch[n], score(batch[n]),
                                                  classify_priority(score(batch[n]))>>])
    /\ UNCHANGED logs

discard_expired ==
    /\ Serve("gossip_priority")
    /\ \E e \in Epochs :
          LET gone == { id \in DOMAIN st.queue : is_expired(st.queue, id, e) }
          IN  /\ st' = [st EXCEPT !.queue = Dropping(@, gone)]
              /\ Return("discard", <<e>>, gone)
    /\ UNCHANGED logs

-----------------------------------------------------------------------------
(* The fan-out policy: 0 Conservative, 1 Standard, 2 Aggressive, 3 Maximum.  *)

\* The levels of the quorum: 0 Healthy, 1 AtThreshold, 2 BelowQuorum, 3 NoNodes.
select_policy(level, health, nodes) ==
    CASE level \in {2, 3} -> 3
      [] level = 1 -> 2
      [] level = 0 /\ health < 50 -> 3
      [] level = 0 /\ health \in 50..69 -> 2
      [] level = 0 /\ health >= 70 /\ nodes <= 8 -> 0
      [] OTHER -> 1

fanout_value(policy) == <<2, 3, 5, 8>>[policy + 1]

fanout_decision ==
    /\ Serve("fanout_controller")
    /\ \E e \in Epochs, level \in 0..3, health \in {49, 50, 69, 70}, nodes \in {8, 9} :
          IF StaleIn(0, e, 1) THEN Stale(<<e, level, health, nodes>>)
          ELSE LET policy == select_policy(level, health, nodes)
               IN  /\ logs' = Chained(0, <<e, policy, fanout_value(policy)>>)
                   /\ Return("decide", <<e, level, health, nodes>>, fanout_value(policy))
                   /\ UNCHANGED st

average_fanout == Mean(FieldOf(LogOf(0), 3))
aggressive_epoch_count == Len(Records(0, 2, 2)) + Len(Records(0, 2, 3))

-----------------------------------------------------------------------------
(* The audit of an epoch: supervisor, finalizer, scheduler, prober and       *)
(* bandwidth, 1..5.  A finding is <<kind, subsystem, by>>, its kind the byte *)
(* 0 Consistent, 1 Lagging, 2 Leading, 3 Diverged.                           *)

Subsystems == 1..5

\* At most two subsystems deviate: one allowed lag, one lag beyond, one lead.
SubsystemEpochs(e) ==
    { s \in [Subsystems -> {e, e - MAX_LAG_ALLOWED, e - MAX_LAG_ALLOWED - 1, e + 1}] :
        Cardinality({ n \in Subsystems : s[n] # e }) <= 2 }

Deviating(e, seen) == { n \in Subsystems : seen[n] # e }
AuditFinding(e, seen) ==
    LET anomaly == Min(Deviating(e, seen))
        lag == e - seen[anomaly]
    IN  CASE Deviating(e, seen) = {} -> <<0, 0, 0>>
          [] Deviating(e, seen) # {} /\ lag > MAX_LAG_ALLOWED -> <<3, anomaly, 0>>
          [] Deviating(e, seen) # {} /\ lag \in 1..MAX_LAG_ALLOWED -> <<1, anomaly, lag>>
          [] OTHER -> <<2, anomaly, -lag>>

audit_record ==
    /\ Serve("epoch_auditor")
    /\ \E e \in Epochs : \E seen \in SubsystemEpochs(e) :
          IF StaleIn(0, e, 1) THEN Stale(<<e, seen>>)
          ELSE LET finding == AuditFinding(e, seen)
                   consistent == 5 - Cardinality(Deviating(e, seen))
               IN  /\ logs' = Chained(0, <<e, finding[1], consistent, 5>> \o Tail(finding))
                   /\ Return("audit", <<e, seen>>, finding)
                   /\ UNCHANGED st

-----------------------------------------------------------------------------
(* Quorum drift: one walk over the reports of a window. *)

Walk == [loss |-> 0, restoration |-> 0, longest |-> 0, absence |-> 0, quorate |-> TRUE]

NextReport(w, quorate) ==
    CASE w.quorate /\ ~quorate ->
           [w EXCEPT !.loss = @ + 1, !.absence = 1, !.quorate = FALSE]
      [] ~w.quorate /\ quorate ->
           [w EXCEPT !.restoration = @ + 1, !.longest = Max({@, w.absence}), !.absence = 0,
                     !.quorate = TRUE]
      [] ~w.quorate /\ ~quorate -> [w EXCEPT !.absence = @ + 1]
      [] OTHER -> w

\* A run of absences that has not ended counts, too.
analyze_quorum_drift(reports) ==
    IF reports = << >> THEN Walk
    ELSE LET first == [Walk EXCEPT !.quorate = reports[1], !.absence = Byte(~reports[1])]
             last == FoldLeft(NextReport, first, Tail(reports))
         IN  [last EXCEPT !.longest = Max({@, last.absence})]

\* Without reports the epoch is zero.
drift_record ==
    /\ Serve("quorum_drift")
    /\ \E n \in 0..5 : \E reports \in [1..n -> BOOLEAN], end \in Epochs :
          LET e == IF n = 0 THEN 0 ELSE end
              w == analyze_quorum_drift(reports)
          IN  IF StaleIn(0, e, 3) THEN Stale(<<e, reports>>)
              ELSE /\ logs' = Chained(0, <<w.loss, w.longest, e, w.restoration, w.absence>>)
                   /\ Return("analyze", <<e, reports>>, w)
                   /\ UNCHANGED st

-----------------------------------------------------------------------------
(* Health reports and the divergence between one and the next.               *)

\* Verdicts: 0 Pass, 1 Warn, 2 Fail.  Divergence: 0 Stable, 1 Nominal,
\* 2 Elevated, 3 Critical, 4 Terminal.
Sound == [drift |-> 0, authority |-> TRUE, quorum |-> TRUE, balance |-> ADAPTIVE_EVENT_COST,
          continuous |-> TRUE, coherent |-> 2]
HealthSnapshots == {
    Sound, [Sound EXCEPT !.coherent = 1], [Sound EXCEPT !.drift = 4],
    [Sound EXCEPT !.authority = FALSE], [Sound EXCEPT !.quorum = FALSE, !.coherent = 1],
    [Sound EXCEPT !.balance = @ - 1], [Sound EXCEPT !.continuous = FALSE, !.balance = @ + 1] }

\* The first reason that applies; the mesh has two nodes.
HealthFailReason(s) ==
    CASE s.drift >= 4 -> "D4DriftDetected"
      [] s.drift < 4 /\ ~s.authority -> "MutationAuthoritySuspended"
      [] s.drift < 4 /\ s.authority /\ ~s.quorum -> "QuorumNotReached"
      [] s.drift < 4 /\ s.authority /\ s.quorum /\ s.balance < ADAPTIVE_EVENT_COST ->
           "EntropyExhausted"
      [] OTHER -> IF s.continuous THEN "None" ELSE "ContinuityBreach"
assess_health(s) == IF HealthFailReason(s) # "None" THEN 2 ELSE Byte(s.coherent < 2)

\* The fields of a report: epoch, verdict, coherent nodes, balance, drift, reason.
HealthReport(e, s) ==
    <<e, assess_health(s), s.coherent, s.balance, s.drift, HealthFailReason(s)>>

DivergenceClass(before, after) ==
    CASE after[5] >= 4 -> 4
      [] after[5] < 4 /\ after[2] = 2 /\ before[2] # 2 -> 3
      [] after[5] < 4 /\ after[2] = 1 /\ before[2] = 0 -> 2
      [] after[5] < 4 /\ after[2] = before[2] /\ (after[4] < before[4] \/ after[3] < before[3]) -> 1
      [] OTHER -> 0

DivergenceRecord(before, after) ==
    <<after[1], DivergenceClass(before, after), before[2], after[2],
      after[4] - before[4], after[3] - before[3]>>

\* Log 1 is the health history, log 0 the oracle's, which is given each report
\* with the one before.
health_record ==
    /\ Serve("divergence_oracle")
    /\ \E e \in Epochs, s \in HealthSnapshots :
          IF StaleIn(1, e, 1) THEN Stale(<<e, s>>)
          ELSE LET report == HealthReport(e, s)
                   history == Put(logs, 1, ChainPush(LogOf(1), report, 1..3))
               IN  /\ logs' = IF LogOf(1) = << >> THEN history
                              ELSE Put(history, 0,
                                       ChainPush(LogOf(0), DivergenceRecord(LastRecord(1), report),
                                                 1..4))
                   /\ Return("report", <<e, s>>, report[2])
                   /\ UNCHANGED st

worst_class == Max({0} \cup Range(FieldOf(LogOf(0), 2)))

MeshInit ==
    CASE kind = "dedup_cache" -> st = [current |-> 0, entries |-> << >>]
      [] kind = "message_fragmenter" ->
           \E m \in Ids : /\ fragment_message(m) # {}
                          /\ st = [i \in 0..(total_fragments(m) - 1) |-> << >>]
      [] kind = "gossip_priority" -> st = [next |-> 0, queue |-> << >>]
      [] OTHER -> st = << >>

MeshNext ==
    \/ check_and_insert \/ dedup_advance_epoch \/ insert_fragment \/ verify_message
    \/ priority_enqueue \/ dequeue_batch \/ discard_expired
    \/ fanout_decision  \/ audit_record \/ drift_record \/ health_record

-----------------------------------------------------------------------------
(* What must hold. *)

\* A message is new a second time only after the cache was taken past the
\* epochs it remembers and under a later epoch; a copy that names the epoch of
\* the first is never new. It is called a duplicate only after it was new.
DuplicatesRemembered ==
    kind = "dedup_cache" =>
      LET new == { i \in Made("insert") : Got(i, "New") }
          Same(i, j) == Arg(i, 1) = Arg(j, 1) /\ Arg(i, 2) = Arg(j, 2)
      IN  /\ \A i, j \in new : i < j /\ Same(i, j) =>
               /\ Arg(j, 3) > Arg(i, 3)
               /\ \E k \in Between(i, j) \cap Made("advance") :
                    Arg(k, 1) > Arg(i, 3) + DEFAULT_MAX_EPOCH_LAG
          /\ \A j \in Made("insert") : Got(j, "Duplicate") => \E i \in new : i < j /\ Same(i, j)

\* The message is handed out once, with the fragment that was missing last,
\* in its own order whatever the order they came in: if all that were taken
\* are of one message, for the buffer looks at their number only.
FragmentsJoinedOnce ==
    kind = "message_fragmenter" =>
      LET taken == Made("insert")
          joined == { i \in taken : calls[i].result # << >> }
      IN  /\ \A i \in joined : \A j \in taken : j <= i
          /\ \A m \in { calls[i].args.payload[1][1] : i \in taken } :
               (\A i \in taken : calls[i].args \in fragment_message(m)) =>
                 /\ joined # {} <=> Cardinality(taken) = total_fragments(m)
                 /\ \A i \in joined : calls[i].result = Data(m)

\* Each queued message leaves once, taken or discarded, or is still there.
Taken(i) == { calls[i].result[n][1] : n \in DOMAIN calls[i].result }
QueuedLeaveOnce ==
    kind = "gossip_priority" =>
      \A id \in 0..(st.next - 1) :
         Byte(id \in DOMAIN st.queue)
           + Cardinality({ i \in Made("dequeue") : id \in Taken(i) })
           + Cardinality({ i \in Made("discard") : id \in calls[i].result }) = 1

MeshOnce == FragmentsJoinedOnce /\ QueuedLeaveOnce

\* Every verification is on record with the peer it was made for, in order, a
\* repeated one again; the forgeries of the mesh are those of its peers.
MeshLogsRebuild ==
    kind = "message_authenticator" =>
      /\ total_forgeries = Cardinality({ i \in Made("verify") : Got(i, FALSE) })
      /\ \A p \in Peers :
           LET mine == SetToSortSeq({ i \in Made("verify") : Arg(i, 1) = p }, <)
           IN  LogOf(p) # << >> \/ mine # << >> =>
                 FieldOf(LogOf(p), 6) = [n \in DOMAIN mine |-> Arg(mine[n], 5)]

\* Of two messages queued in one epoch the one that came first and was worth
\* no less is not overtaken, however both have decayed.
OlderNotOvertaken ==
    kind = "gossip_priority" =>
      \A i, j \in Made("enqueue") :
         /\ i < j /\ Arg(i, 2) = Arg(j, 2)
         /\ compute_score(Arg(i, 1), 0) >= compute_score(Arg(j, 1), 0)
         => \A k \in Made("dequeue") : \A n \in DOMAIN calls[k].result :
              calls[k].result[n][1] = calls[j].result =>
                /\ calls[i].result \notin DOMAIN st.queue
                /\ \A l \in Made("dequeue") : l > k => calls[i].result \notin Taken(l)
                /\ \A l \in (n + 1)..Len(calls[k].result) :
                      calls[k].result[l][1] # calls[i].result

\* A mesh no healthier and no smaller, at a quorum no better, is not given a
\* smaller fan-out: except at the threshold, where health is not looked at.
FanoutGrows ==
    kind = "fanout_controller" =>
      \A i, j \in Made("decide") :
        (/\ Arg(i, 2) >= Arg(j, 2) /\ Arg(i, 3) <= Arg(j, 3) /\ Arg(i, 4) >= Arg(j, 4)
         /\ Arg(i, 2) # 1)
          => calls[i].result >= calls[j].result

\* An epoch is on record as consistent exactly if all five agree; that one has
\* diverged is hidden only by one before it that deviates less.
AuditNamesDivergence ==
    kind = "epoch_auditor" =>
      \A i \in Made("audit") :
        LET e == Arg(i, 1)
            seen == Arg(i, 2)
            Diverged(n) == e - seen[n] > MAX_LAG_ALLOWED
            r == SelectSeq(LogOf(0), LAMBDA x : x.data[1] = e)[1].data
        IN  /\ r[2] = 0 <=> r[3] = 5
            /\ r[2] = 3 => Diverged(r[5])
            /\ \A n \in Subsystems : Diverged(n) /\ r[2] # 3 =>
                 \E before \in 1..(n - 1) : seen[before] # e /\ ~Diverged(before)

\* Losses, restorations and the longest absence are those of the window.
DriftOfWindow ==
    kind = "quorum_drift" =>
      \A i \in Made("analyze") :
        LET q == Arg(i, 2)
            w == calls[i].result
            steps == 1..(Len(q) - 1)
            absent == { run \in (DOMAIN q) \X (DOMAIN q) : \A n \in run[1]..run[2] : ~q[n] }
        IN  /\ w.loss = Cardinality({ n \in steps : q[n] /\ ~q[n + 1] })
            /\ w.restoration = Cardinality({ n \in steps : ~q[n] /\ q[n + 1] })
            /\ w.longest = Max({0} \cup { run[2] - run[1] + 1 : run \in absent })

\* While the mesh fails, adaptation was forbidden by the oracle when it began
\* to fail, unless it has failed from its first report; and it is forbidden
\* only when the mesh fails.
FailureTold ==
    kind = "divergence_oracle" =>
      LET Fails(n) == LogOf(1)[n].data[2] = 2
          Forbids(n) == LogOf(0)[n - 1].data[2] >= 3
          reports == DOMAIN LogOf(1)
      IN  /\ Len(LogOf(0)) = SaturatingSub(Len(LogOf(1)), 1)
          /\ \A n \in reports : Fails(n) =>
               \E m \in 1..n : (m = 1 \/ Forbids(m)) /\ \A k \in m..n : Fails(k)
          /\ \A n \in reports \ {1} : Forbids(n) => Fails(n)

MeshVerdicts ==
    /\ OlderNotOvertaken /\ FanoutGrows /\ AuditNamesDivergence /\ DriftOfWindow /\ FailureTold
=============================================================================
