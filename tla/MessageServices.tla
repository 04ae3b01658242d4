-------------------------- MODULE MessageServices ---------------------------
(***************************************************************************)
(* The services of src/aegis-cl-psi that decide what happens to a message: *)
(* limiters, duplicate and replay filters, hop counts, the outbound queue, *)
(* acknowledgements, retries and sessions.                                 *)
(***************************************************************************)
EXTENDS ServiceState

CONSTANTS
    \* the constants of the files, scaled down by the configurations
    DEFAULT_CAPACITY, DEFAULT_REFILL_RATE,
    FLOOD_WARN_THRESHOLD, FLOOD_LIMIT, FLOOD_BAN_THRESHOLD,
    BUCKET_CAPACITY, DEFAULT_BUDGET_BYTES, MAX_INITIAL_TTL,
    ACK_TIMEOUT_EPOCHS, MAX_PENDING_PER_PEER,
    BASE_RETRY_EPOCHS, MAX_RETRY_EPOCHS, MAX_RETRIES,
    MAX_TRACKED_PEERS, QUEUE_CAPACITY,
    WINDOW_EPOCHS, MAX_NONCES_PER_EPOCH,
    CACHE_WINDOW_EPOCHS, MAX_ENTRIES_PER_EPOCH

ASSUME MessageAssumption ==
    /\ {DEFAULT_CAPACITY, DEFAULT_REFILL_RATE, BUCKET_CAPACITY, DEFAULT_BUDGET_BYTES,
        MAX_INITIAL_TTL, ACK_TIMEOUT_EPOCHS, MAX_PENDING_PER_PEER, BASE_RETRY_EPOCHS,
        MAX_RETRY_EPOCHS, MAX_RETRIES, MAX_TRACKED_PEERS, MAX_NONCES_PER_EPOCH,
        MAX_ENTRIES_PER_EPOCH, FLOOD_WARN_THRESHOLD, FLOOD_LIMIT, FLOOD_BAN_THRESHOLD}
         \subseteq Nat
    /\ BUCKET_CAPACITY <= U32Max
    /\ FLOOD_WARN_THRESHOLD < FLOOD_LIMIT /\ FLOOD_LIMIT < FLOOD_BAN_THRESHOLD
    /\ BASE_RETRY_EPOCHS <= MAX_RETRY_EPOCHS /\ QUEUE_CAPACITY \in Nat \ {0}
    /\ WINDOW_EPOCHS \in Nat \ {0} /\ CACHE_WINDOW_EPOCHS \in Nat \ {0}

MessageKinds == {
    "token_bucket", "flood_guard", "epoch_rate_limiter", "bandwidth_tracker",
    "backpressure_controller", "ttl_enforcer", "message_ack_tracker",
    "message_retry_scheduler", "message_sequence_tracker", "message_deduplicator",
    "message_priority_queue", "nonce_cache", "gossip_message_cache", "session_tracker" }

InitialEpoch == 1

MessageInit ==
    st = CASE kind = "message_deduplicator" ->
                [epoch |-> InitialEpoch, seen |-> {}, fresh |-> 0, dups |-> 0]
           [] kind \in {"nonce_cache", "gossip_message_cache"} ->
                [epoch |-> InitialEpoch, window |-> << >>]
           [] kind = "message_priority_queue" -> [entries |-> << >>, next_seq |-> 0]
           [] kind = "message_ack_tracker" ->
                [pending |-> << >>, acked |-> << >>, timeouts |-> << >>]
           [] OTHER -> << >>

-----------------------------------------------------------------------------
(* Limiters. *)

token_consume ==
    /\ Serve("token_bucket")
    /\ \E p \in Peers :
          LET before == Get(st, p, DEFAULT_CAPACITY)
              allow == before > 0
              after == SaturatingSub(before, 1)
          IN  /\ st' = Put(st, p, after)
              /\ logs' = Chained(p, <<p, Len(calls), before, after, Byte(~allow)>>)
              /\ Return("consume", <<p>>, allow)

\* Only peers that consumed before have a bucket to refill.
tick_refill_all ==
    /\ Serve("token_bucket")
    /\ st' = [p \in DOMAIN st |->
                AtMost(SaturatingAdd(st[p], DEFAULT_REFILL_RATE), DEFAULT_CAPACITY)]
    /\ Return("tick", << >>, TRUE)
    /\ UNCHANGED logs

\* Mutant: an earlier epoch starts the counters again as well.
InEpochNamed(p, e, zero) ==
    LET s == Get(st, p, [zero EXCEPT !.epoch = e])
    IN  IF e # s.epoch THEN [zero EXCEPT !.epoch = e] ELSE s

\* The per-epoch counters of a source start again when a later epoch is named;
\* a call that names an earlier epoch is charged to the current one.
InEpoch(p, e, zero) ==
    LET s == Get(st, p, [zero EXCEPT !.epoch = e])
    IN  IF e > s.epoch THEN [zero EXCEPT !.epoch = e] ELSE s

\* seal_epoch appends a record to the log of each peer of `records', refused for an epoch not after the
\* last one sealed.
SealedBefore(p, e, field) == LogOf(p) # << >> /\ e <= LastRecord(p)[field]
AtEpoch(e) == { p \in DOMAIN st : st[p].epoch = e }
Seal(records) ==
    logs' = [p \in DOMAIN logs \cup DOMAIN records |->
                IF p \in DOMAIN records
                THEN ChainPush(LogOf(p), records[p], Hashed(records[p])) ELSE logs[p]]

classify_flood(n) ==
    CASE n > FLOOD_BAN_THRESHOLD -> 3
      [] n > FLOOD_LIMIT /\ n <= FLOOD_BAN_THRESHOLD -> 2
      [] n > FLOOD_WARN_THRESHOLD /\ n <= FLOOD_LIMIT -> 1
      [] OTHER -> 0

should_drop(level, n) == level = 3 \/ (level = 2 /\ n % 2 = 0)

observe_message ==
    /\ Serve("flood_guard")
    /\ \E p \in Peers, e \in Epochs :
          LET s == InEpoch(p, e, [epoch |-> 0, count |-> 0, dropped |-> 0])
              n == SaturatingAdd(s.count, 1)
              level == classify_flood(n)
              drop == should_drop(level, n)
          IN  /\ st' = Put(st, p, [s EXCEPT !.count = n,
                                            !.dropped = SaturatingAdd(@, Byte(drop))])
              /\ Return("observe", <<p, e>>, level)
    /\ UNCHANGED logs

flood_seal_epoch ==
    /\ Serve("flood_guard")
    /\ \E e \in Epochs :
          /\ Seal([p \in { q \in AtEpoch(e) : ~SealedBefore(q, e, 2) } |->
                     <<p, e, st[p].count, st[p].dropped, classify_flood(st[p].count)>>])
          /\ Return("seal", <<e>>, TRUE)
    /\ UNCHANGED st

rate_consume ==
    /\ Serve("epoch_rate_limiter")
    /\ \E p \in Peers, e \in Epochs :
          LET s == InEpoch(p, e, [epoch |-> 0, used |-> 0, dropped |-> 0])
              allow == s.used < BUCKET_CAPACITY
          IN  /\ st' = Put(st, p,
                    IF allow THEN [s EXCEPT !.used = SaturatingAdd(@, 1)]
                             ELSE [s EXCEPT !.dropped = SaturatingAdd(@, 1)])
              /\ Return("consume", <<p, e>>, allow)
    /\ UNCHANGED logs

rate_seal_epoch ==
    /\ Serve("epoch_rate_limiter")
    /\ \E e \in Epochs :
          /\ Seal([p \in { q \in AtEpoch(e) : ~SealedBefore(q, e, 2) } |->
                     <<p, e, st[p].used, st[p].dropped>>])
          /\ Return("seal", <<e>>, TRUE)
    /\ UNCHANGED st

BandwidthDecision(used, bytes) ==
    CASE used >= DEFAULT_BUDGET_BYTES -> "Deny"
      [] used < DEFAULT_BUDGET_BYTES /\ used + bytes > DEFAULT_BUDGET_BYTES -> "Throttle"
      [] OTHER -> "Allow"

request_bytes ==
    /\ Serve("bandwidth_tracker")
    /\ \E p \in Peers, e \in Epochs, bytes \in Ids :
          LET s == InEpoch(p, e, [epoch |-> 0, Allow |-> 0, Throttle |-> 0, Deny |-> 0])
              decision == BandwidthDecision(s.Allow, bytes)
          IN  /\ st' = Put(st, p, [s EXCEPT ![decision] = @ + bytes])
              /\ Return("request", <<p, e, bytes>>, decision)
    /\ UNCHANGED logs

utilization_pct(allowed) ==
    IF DEFAULT_BUDGET_BYTES = 0 THEN 100 * Byte(allowed > 0)
    ELSE AtMost((allowed * 100) \div DEFAULT_BUDGET_BYTES, 100)

\* Peers are sealed in the order of their ids, and the first that was sealed
\* for this epoch before ends the walk with StaleEpoch.
bandwidth_seal_epoch ==
    /\ Serve("bandwidth_tracker")
    /\ \E e \in Epochs :
          LET stale == { p \in AtEpoch(e) : SealedBefore(p, e, 2) }
          IN  /\ Seal([p \in { r \in AtEpoch(e) : \A q \in stale : r < q } |->
                         <<p, e, st[p].Allow, st[p].Throttle, st[p].Deny,
                           DEFAULT_BUDGET_BYTES, utilization_pct(st[p].Allow)>>])
              /\ Return("seal", <<e>>, stale = {})
    /\ UNCHANGED st

PressureLevel(depth) == CASE depth > 500 -> 2 [] depth \in 101..500 -> 1 [] OTHER -> 0
granted_allowance(level) == CASE level = 2 -> 20 [] level = 1 -> 100 [] OTHER -> 200

\* The allowance changes also when the log refuses the epoch.
pressure_update ==
    /\ Serve("backpressure_controller")
    /\ \E p \in Peers, e \in Epochs, depth \in {100, 101, 500, 501} :
          LET level == PressureLevel(depth)
              granted == granted_allowance(level)
              refused == LogOf(p) # << >> /\ e < LastRecord(p)[2]
          IN  /\ st' = Put(st, p, granted)
              /\ logs' = IF refused THEN logs ELSE Chained(p, <<p, e, depth, level, granted>>)
              /\ Return("update", <<p, e, depth>>, granted)

tick_recovery ==
    /\ Serve("backpressure_controller")
    /\ \E p \in DOMAIN st :
          /\ st' = [st EXCEPT ![p] = AtMost(SaturatingAdd(@, 20), 200)]
          /\ Return("recover", <<p>>, st'[p])
    /\ UNCHANGED logs

-----------------------------------------------------------------------------
(* Hop counts. *)

register_origin ==
    /\ Serve("ttl_enforcer")
    /\ \E m \in Ids \ DOMAIN st, ttl \in 0..MAX_INITIAL_TTL :
          /\ st' = Put(st, m, [origin |-> ttl, current |-> ttl, hops |-> 0, dropped |-> FALSE])
          /\ logs' = Chained(m, <<m, ttl, ttl, 0, 0>>)
          /\ Return("register", <<m, ttl>>, "Forward")

TtlDecision(claimed, expected) ==
    CASE claimed > expected -> "Inflated"
      [] claimed <= expected /\ expected = 0 -> "Expired"
      [] OTHER -> "Forward"

\* A message once dropped is refused from then on.
forward ==
    /\ Serve("ttl_enforcer")
    /\ \E m \in DOMAIN st, claimed \in 0..MAX_INITIAL_TTL :
          LET expected == SaturatingSub(st[m].current, 1)
              decision == TtlDecision(claimed, expected)
              after == IF decision = "Forward"
                       THEN [st[m] EXCEPT !.current = expected, !.hops = @ + 1]
                       ELSE [st[m] EXCEPT !.dropped = TRUE]
          IN  /\ ~st[m].dropped
              /\ st' = [st EXCEPT ![m] = after]
              /\ logs' = Chained(m, <<m, after.origin, after.current, after.hops,
                    CASE decision = "Forward" -> 0 [] decision = "Expired" -> 1 [] OTHER -> 2>>)
              /\ Return("forward", <<m, claimed>>, decision)

-----------------------------------------------------------------------------
(* Acknowledgements and retries, keyed by peer and message in that order. *)

Before(a, b) == a[1] < b[1] \/ (a[1] = b[1] /\ a[2] < b[2])
ChainedAll(records) == ChainedInOrder(0, DOMAIN records, Before, LAMBDA k : records[k])

\* AlreadyPending and PendingLimitReached are refusals.
send ==
    /\ Serve("message_ack_tracker")
    /\ \E p \in Peers, m \in Ids, e \in Epochs :
          LET mine == { k \in DOMAIN st.pending : k[1] = p }
              accept == <<p, m>> \notin mine /\ Cardinality(mine) < MAX_PENDING_PER_PEER
          IN  /\ IF accept
                 THEN /\ st' = [st EXCEPT !.pending = Put(@, <<p, m>>, e)]
                      /\ logs' = Chained(0, <<p, m, e, 0, 0>>)
                 ELSE UNCHANGED <<st, logs>>
              /\ Return("send", <<p, m, e>>, accept)

ack ==
    /\ Serve("message_ack_tracker")
    /\ \E p \in Peers, m \in Ids, e \in Epochs :
          LET known == <<p, m>> \in DOMAIN st.pending
          IN  /\ IF known
                 THEN /\ st' = [st EXCEPT !.pending = Without(@, <<p, m>>),
                                          !.acked = Put(@, p, Get(@, p, 0) + 1)]
                      /\ logs' = Chained(0, <<p, m, st.pending[<<p, m>>], e, 1>>)
                 ELSE UNCHANGED <<st, logs>>
              /\ Return("ack", <<p, m, e>>, known)

expire_timeouts ==
    /\ Serve("message_ack_tracker")
    /\ \E now \in Epochs :
          LET due == { k \in DOMAIN st.pending : now >= st.pending[k] + ACK_TIMEOUT_EPOCHS }
              expired(p) == Cardinality({ k \in due : k[1] = p })
              timed == DOMAIN st.timeouts \cup { k[1] : k \in due }
          IN  /\ st' = [st EXCEPT
                    !.pending = Dropping(@, due),
                    !.timeouts = [p \in timed |-> Get(@, p, 0) + expired(p)]]
              /\ logs' = ChainedAll([k \in due |-> <<k[1], k[2], st.pending[k], 0, 2>>])
              /\ Return("expire", <<now>>, due # {})

backoff_interval(attempt) == AtMost(BASE_RETRY_EPOCHS * 2 ^ AtMost(attempt, 5), MAX_RETRY_EPOCHS)

schedule ==
    /\ Serve("message_retry_scheduler")
    /\ \E p \in Peers, m \in Ids, e \in Epochs :
          LET next == e + backoff_interval(0)
              accept == <<p, m>> \notin DOMAIN st
          IN  /\ IF accept
                 THEN /\ st' = Put(st, <<p, m>>, [attempt |-> 0, next |-> next])
                      /\ logs' = Chained(0, <<p, m, 0, next, 0>>)
                 ELSE UNCHANGED <<st, logs>>
              /\ Return("schedule", <<p, m, e>>, accept)

succeed ==
    /\ Serve("message_retry_scheduler")
    /\ \E p \in Peers, m \in Ids, e \in Epochs :
          LET known == <<p, m>> \in DOMAIN st
          IN  /\ IF known
                 THEN /\ st' = Without(st, <<p, m>>)
                      /\ logs' = Chained(0, <<p, m, 0, e, 3>>)
                 ELSE UNCHANGED <<st, logs>>
              /\ Return("succeed", <<p, m, e>>, known)

\* Every message that is due is retried, or abandoned at its last attempt.
tick ==
    /\ Serve("message_retry_scheduler")
    /\ \E now \in Epochs :
          LET due == { k \in DOMAIN st : now >= st[k].next }
              attempt(k) == st[k].attempt + 1
              given_up == { k \in due : attempt(k) >= MAX_RETRIES }
              next(k) == now + backoff_interval(attempt(k))
          IN  /\ st' = [k \in DOMAIN st \ given_up |->
                          IF k \in due THEN [attempt |-> attempt(k), next |-> next(k)] ELSE st[k]]
              /\ logs' = ChainedAll([k \in due |->
                    IF k \in given_up THEN <<k[1], k[2], attempt(k), now, 2>>
                                      ELSE <<k[1], k[2], attempt(k), next(k), 1>>])
              /\ Return("tick", <<now>>, due \ given_up # {})

-----------------------------------------------------------------------------
(* Sequence numbers, duplicates and replays. *)

SequenceEvent(sequence, expected) ==
    CASE sequence = 0 /\ expected > 0 -> "Reset"
      [] sequence = expected -> "InOrder"
      [] sequence > expected -> "Gap"
      [] OTHER -> "Duplicate"

EventByte(event) ==
    CASE event = "InOrder" -> 0 [] event = "Gap" -> 1 [] event = "Duplicate" -> 2 [] OTHER -> 3

observe_sequence ==
    /\ Serve("message_sequence_tracker")
    /\ \E p \in Peers, sequence \in {0} \cup Ids :
          LET expected == Get(st, p, 0)
              event == SequenceEvent(sequence, expected)
          IN  IF p \notin DOMAIN st /\ Cardinality(DOMAIN st) >= MAX_TRACKED_PEERS
              THEN Return("observe", <<p, sequence>>, "TooManyPeers") /\ UNCHANGED <<st, logs>>
              ELSE /\ st' = IF event = "Duplicate" THEN st ELSE Put(st, p, sequence + 1)
                   /\ logs' = Chained(p, <<p, sequence, expected, EventByte(event)>>)
                   /\ Return("observe", <<p, sequence>>, event)

\* A later epoch forgets what was seen; an earlier one is judged by the
\* current set.
observe_message_id ==
    /\ Serve("message_deduplicator")
    /\ \E p \in Peers, m \in Ids, e \in Epochs :
          LET s == IF e > st.epoch THEN [epoch |-> e, seen |-> {}, fresh |-> 0, dups |-> 0] ELSE st
              fresh == <<p, m>> \notin s.seen
          IN  /\ st' = IF fresh THEN [s EXCEPT !.seen = @ \cup {<<p, m>>},
                                               !.fresh = SaturatingAdd(@, 1)]
                               ELSE [s EXCEPT !.dups = SaturatingAdd(@, 1)]
              /\ Return("observe", <<p, m, e>>, fresh)
    /\ UNCHANGED logs

dedup_seal_epoch ==
    /\ Serve("message_deduplicator")
    /\ \E e \in Epochs :
          /\ logs' = IF st.epoch = e /\ ~SealedBefore(0, e, 1)
                     THEN Chained(0, <<e, st.fresh, st.dups>>) ELSE logs
          /\ Return("seal", <<e>>, TRUE)
    /\ UNCHANGED st

\* Mutant: the oldest epoch of the window goes one epoch early.
WindowedShort(s, e, width) ==
    IF e <= s.epoch THEN s
    ELSE [epoch |-> e,
          window |-> [x \in { y \in DOMAIN s.window : y > SaturatingSub(e, width) + 1 } |-> s.window[x]]]

\* Advancing drops the slots of the epochs that left the window.
Windowed(s, e, width) ==
    IF e <= s.epoch THEN s
    ELSE [epoch |-> e,
          window |-> [x \in { y \in DOMAIN s.window : y > SaturatingSub(e, width) } |-> s.window[x]]]

Width == IF kind = "nonce_cache" THEN WINDOW_EPOCHS ELSE CACHE_WINDOW_EPOCHS

advance_epoch ==
    /\ Serve("nonce_cache") \/ Serve("gossip_message_cache")
    /\ \E e \in Epochs :
          /\ st' = Windowed(st, e, Width)
          /\ Return("advance", <<e>>, TRUE)
    /\ UNCHANGED logs

\* Only the slot of the nonce's own epoch is searched; a full slot lets a
\* nonce pass without keeping it.
check_nonce ==
    /\ Serve("nonce_cache")
    /\ \E p \in Peers, e \in Epochs, nonce \in Ids :
          LET s == Windowed(st, e, WINDOW_EPOCHS)
              slot == Get(s.window, e, {})
              fresh == <<p, nonce>> \notin slot
              kept == IF fresh /\ Cardinality(slot) < MAX_NONCES_PER_EPOCH
                      THEN slot \cup {<<p, nonce>>} ELSE slot
          IN  /\ st' = [s EXCEPT !.window = Put(@, e, kept)]
              /\ logs' = Chained(0, <<p, e, nonce, Byte(~fresh)>>)
              /\ Return("check", <<p, e, nonce>>, fresh)

\* Every slot of the window is searched.
CacheDecision(window, m, e) ==
    CASE \E x \in DOMAIN window : m \in window[x] -> "AlreadyPresent"
      [] OTHER -> IF Cardinality(Get(window, e, {})) >= MAX_ENTRIES_PER_EPOCH
                  THEN "EpochFull" ELSE "Inserted"

cache_insert ==
    /\ Serve("gossip_message_cache")
    /\ \E m \in Ids, e \in Epochs :
          LET s == Windowed(st, e, CACHE_WINDOW_EPOCHS)
              decision == CacheDecision(s.window, m, e)
              slot == Get(s.window, e, {})
          IN  /\ st' = CASE decision = "Inserted" -> [s EXCEPT !.window = Put(@, e, slot \cup {m})]
                         [] decision = "EpochFull" -> [s EXCEPT !.window = Put(@, e, slot)]
                         [] OTHER -> s
              /\ logs' = Chained(0, <<m, e, CASE decision = "Inserted" -> 0
                                              [] decision = "AlreadyPresent" -> 1
                                              [] OTHER -> 2>>)
              /\ Return("insert", <<m, e>>, decision)

-----------------------------------------------------------------------------
(* The outbound queue: class 0 is Critical, 3 is Low. *)

Classes == 0..3

\* At capacity the oldest entry of the least urgent class makes room; Critical
\* entries are passed over as long as there is another.
Victim(entries) ==
    LET candidates == { i \in DOMAIN entries : entries[i].class # 0 }
    IN  IF candidates = {} THEN 0
        ELSE CHOOSE i \in candidates : \A j \in candidates :
                 \/ entries[i].class > entries[j].class
                 \/ entries[i].class = entries[j].class /\ entries[i].seq <= entries[j].seq

Position(entries, class) == Cardinality({ i \in DOMAIN entries : entries[i].class <= class }) + 1

\* A refused entry uses up its sequence number all the same. The log names the
\* entry that made room by its message; the history keeps its sequence number.
enqueue ==
    /\ Serve("message_priority_queue")
    /\ \E class \in Classes, m \in Ids :
          LET full == Len(st.entries) >= QUEUE_CAPACITY
              victim == Victim(st.entries)
              out == IF full THEN (IF victim = 0 THEN 1 ELSE victim) ELSE 0
              room == IF out = 0 THEN st.entries ELSE RemoveAt(st.entries, out)
              entry == [class |-> class, seq |-> st.next_seq, id |-> m]
              evicted == IF out = 0 THEN 0 ELSE st.entries[out].id
          IN  IF full /\ victim = 0 /\ class # 0
              THEN /\ st' = [st EXCEPT !.next_seq = @ + 1]
                   /\ Return("enqueue", <<class, st.next_seq, {}>>, "CriticalReserveViolation")
                   /\ UNCHANGED logs
              ELSE /\ st' = [entries |-> InsertAt(room, Position(room, class), entry),
                             next_seq |-> st.next_seq + 1]
                   /\ logs' = Chained(0, <<Len(calls), 0, Len(room) + 1, evicted>>)
                   /\ Return("enqueue",
                             <<class, st.next_seq, IF full THEN {st.entries[out].seq} ELSE {}>>,
                             "Ok")

dequeue ==
    /\ Serve("message_priority_queue")
    /\ st.entries # << >>
    /\ st' = [st EXCEPT !.entries = Tail(@)]
    /\ logs' = Chained(0, <<Len(calls), 1, Len(st.entries) - 1, 0>>)
    /\ Return("dequeue", <<Head(st.entries).class, Head(st.entries).seq>>, "Ok")

-----------------------------------------------------------------------------
(* Sessions: 0 Open, 1 Active, 2 Suspended, 3 Closed. *)

can_transition_to(from, to) == <<from, to>> \in {<<0, 1>>, <<0, 3>>, <<1, 2>>, <<1, 3>>, <<2, 1>>, <<2, 3>>}

open_session ==
    /\ Serve("session_tracker")
    /\ \E p \in Peers, id \in Ids :
          LET accept == <<p, id>> \notin DOMAIN st
          IN  /\ st' = IF accept THEN Put(st, <<p, id>>, 0) ELSE st
              /\ Return("open", <<p, id>>, accept)
    /\ UNCHANGED logs

transition ==
    /\ Serve("session_tracker")
    /\ \E key \in DOMAIN st, to \in 0..3 :
          LET accept == can_transition_to(st[key], to)
          IN  /\ IF accept
                 THEN /\ st' = [st EXCEPT ![key] = to]
                      /\ logs' = Chained(key, <<key[1], key[2], Len(calls), st[key], to>>)
                 ELSE UNCHANGED <<st, logs>>
              /\ Return("transition", <<key, to>>, accept)

-----------------------------------------------------------------------------
MessageNext ==
    \/ token_consume    \/ tick_refill_all   \/ observe_message    \/ flood_seal_epoch
    \/ rate_consume     \/ rate_seal_epoch   \/ request_bytes      \/ bandwidth_seal_epoch
    \/ pressure_update  \/ tick_recovery     \/ register_origin    \/ forward
    \/ send             \/ ack               \/ expire_timeouts
    \/ schedule         \/ succeed           \/ tick
    \/ observe_sequence \/ observe_message_id \/ dedup_seal_epoch
    \/ advance_epoch    \/ check_nonce       \/ cache_insert
    \/ enqueue          \/ dequeue           \/ open_session       \/ transition

-----------------------------------------------------------------------------
(* Correctness *)

\* Token bucket: over any stretch of calls a peer gets through at most a full
\* bucket and what the ticks of that stretch put back.
TokenBudget ==
    kind = "token_bucket" =>
      \A p \in Peers, i, j \in DOMAIN calls :
        Cardinality({ c \in Made("consume") \cap (i..j) : Arg(c, 1) = p /\ Got(c, TRUE) })
          <= DEFAULT_CAPACITY + DEFAULT_REFILL_RATE * Cardinality(Made("tick") \cap (i..j))

\* The epoch a call is charged to: the latest its source had named by then.
ChargedTo(i, op) ==
    Max({ Arg(c, 2) : c \in { d \in Made(op) \cap (1..i) : Arg(d, 1) = Arg(i, 1) } })
ChargedWith(i, op) ==
    { c \in Made(op) \cap (1..(i - 1)) :
        Arg(c, 1) = Arg(i, 1) /\ ChargedTo(c, op) = ChargedTo(i, op) }

\* Rate limiter: a source is let through exactly while its epoch's quota
\* lasts, also when the calls name epochs out of order.
EpochQuota ==
    kind = "epoch_rate_limiter" =>
      \A i \in Made("consume") :
        Got(i, TRUE) <=> Cardinality({ c \in ChargedWith(i, "consume") : Got(c, TRUE) })
                           < BUCKET_CAPACITY

\* Bandwidth: what was let through in an epoch never exceeds the budget, and a
\* request that would have fitted is never turned down.
BandwidthQuota ==
    kind = "bandwidth_tracker" =>
      \A i \in Made("request") :
        LET before == { c \in ChargedWith(i, "request") : Got(c, "Allow") }
            used == MapThenSumSet(LAMBDA c : Arg(c, 3), before)
        IN  Got(i, "Allow") <=> (used < DEFAULT_BUDGET_BYTES
                                   /\ used + Arg(i, 3) <= DEFAULT_BUDGET_BYTES)

\* Hop counts: a message goes on at most one hop less than its origin allows,
\* every hop lowers what is left, and nothing goes on after a drop.
HopsBounded ==
    kind = "ttl_enforcer" =>
      \A m \in DOMAIN st :
        LET mine == { i \in Made("forward") : Arg(i, 1) = m }
            hops == { i \in mine : Got(i, "Forward") }
        IN  /\ st[m].hops = Cardinality(hops)
            /\ st[m].hops + st[m].current = st[m].origin
            /\ hops # {} => st[m].current > 0
            /\ \A i \in mine \ hops : \A j \in mine : j <= i

\* The accepted entries that at call n had neither been sent nor made room.
Waiting(n) ==
    { i \in Made("enqueue") :
        /\ i < n /\ Got(i, "Ok")
        /\ \A c \in Between(i, n) :
             Arg(i, 2) \notin (IF calls[c].op = "enqueue" THEN Arg(c, 3) ELSE {Arg(c, 2)}) }
MoreUrgent(i, j) == Arg(i, 1) < Arg(j, 1) \/ (Arg(i, 1) = Arg(j, 1) /\ Arg(i, 2) < Arg(j, 2))

\* Queue: what is queued is what was accepted and neither sent nor pushed out,
\* in the order it will be sent; what is sent is the most urgent waiting and
\* among its class the oldest; an entry is pushed out only when the queue is
\* full, and then it is the oldest of the least urgent class, whether or not
\* the newcomer is more urgent; only a queue full of Critical entries refuses,
\* and it refuses what is not Critical.
QueueInOrder ==
    kind = "message_priority_queue" =>
      LET now == Waiting(Len(calls) + 1)
          inOrder == [n \in DOMAIN st.entries |-> <<st.entries[n].class, st.entries[n].seq>>]
      IN  /\ Cardinality(now) <= QUEUE_CAPACITY
          /\ Len(inOrder) = Cardinality(now)
          /\ \A i \in now : inOrder[Cardinality({ j \in now : MoreUrgent(j, i) }) + 1]
                              = <<Arg(i, 1), Arg(i, 2)>>
          /\ \A n \in Made("dequeue") : \E i \in Waiting(n) :
                /\ calls[n].args = <<Arg(i, 1), Arg(i, 2)>>
                /\ \A j \in Waiting(n) \ {i} : MoreUrgent(i, j)
          /\ \A n \in Made("enqueue") :
                LET full == Cardinality(Waiting(n)) = QUEUE_CAPACITY
                    least == { i \in Waiting(n) : \A j \in Waiting(n) : Arg(j, 1) <= Arg(i, 1) }
                    refused == full /\ Arg(n, 1) # 0 /\ \A i \in Waiting(n) : Arg(i, 1) = 0
                IN  /\ Got(n, "Ok") <=> ~refused
                    /\ IF full /\ ~refused
                       THEN Arg(n, 3) = { Min({ Arg(i, 2) : i \in least }) }
                       ELSE Arg(n, 3) = {}
          /\ Cardinality({ r \in DOMAIN LogOf(0) : LogOf(0)[r].data[4] # 0 })
               = Cardinality({ n \in Made("enqueue") : Arg(n, 3) # {} })

\* What the limiters and the hop counts let through.
MessageQuotas == TokenBudget /\ EpochQuota /\ HopsBounded

MessageLimits == BandwidthQuota /\ QueueInOrder

\* The latest epoch a service had been told of before call i.
EpochField == CASE kind = "message_deduplicator" -> 3 [] OTHER -> 2
ToldEpoch(i) == IF calls[i].op \in {"advance"} THEN Arg(i, 1) ELSE Arg(i, EpochField)
ReachedBy(i) ==
    Max({InitialEpoch} \cup
        { ToldEpoch(c) : c \in { d \in 1..i : calls[d].op # "seal" } })

\* Deduplicator: the same message is fresh twice only if the epoch moved on.
DuplicatesCaught ==
    kind = "message_deduplicator" =>
      \A i, j \in Made("observe") :
        (i < j /\ Got(i, TRUE) /\ Got(j, TRUE) /\ Arg(i, 1) = Arg(j, 1) /\ Arg(i, 2) = Arg(j, 2))
          => ReachedBy(i) < ReachedBy(j)

\* From call i on, an epoch's slot was dropped by call c: it had left the window,
\* or it is the slot of epoch 0, which goes as soon as the epoch moves on, for
\* the cutoff saturates at 0 and a slot is kept only above it.
Dropped(e, i, c, width) ==
    \/ ReachedBy(c) >= e + width
    \/ e = 0 /\ ReachedBy(c) > ReachedBy(i)

\* Nonces: the same nonce of a peer and epoch is fresh twice only if its slot
\* was full or dropped in between.
ReplaysCaught ==
    kind = "nonce_cache" =>
      \A i, j \in Made("check") :
        (i < j /\ Got(i, TRUE) /\ Got(j, TRUE) /\ calls[i].args = calls[j].args) =>
           \/ Cardinality({ c \in Made("check") \cap (1..(i - 1)) :
                              Arg(c, 2) = Arg(i, 2) /\ Got(c, TRUE) }) >= MAX_NONCES_PER_EPOCH
           \/ \E c \in Between(i, j) : Dropped(Arg(i, 2), i, c, WINDOW_EPOCHS)

\* Cache: content is inserted again only after the slot it was in was dropped.
ContentOnce ==
    kind = "gossip_message_cache" =>
      \A i, j \in Made("insert") :
        (i < j /\ Got(i, "Inserted") /\ Got(j, "Inserted") /\ Arg(i, 1) = Arg(j, 1)) =>
           \E c \in (i + 1)..j : Dropped(Arg(i, 2), i, c, CACHE_WINDOW_EPOCHS)

\* What the log says of one message, in order.
Statuses(p, m, f) ==
    LET mine == SelectSeq(LogOf(0), LAMBDA r : r.data[1] = p /\ r.data[2] = m)
    IN  [n \in DOMAIN mine |-> mine[n].data[f]]

\* Call c settles the message of send i: it acknowledges it, or looks for
\* timeouts when ACK_TIMEOUT_EPOCHS have gone by since it was sent.
Acks(c, i) == calls[c].op = "ack" /\ Arg(c, 1) = Arg(i, 1) /\ Arg(c, 2) = Arg(i, 2)
TimesOut(c, i) == calls[c].op = "expire" /\ Arg(c, 1) >= Arg(i, 3) + ACK_TIMEOUT_EPOCHS
\* The accepted sends that no call between them and call n settled.
Outstanding(n) ==
    { i \in Made("send") : i < n /\ Got(i, TRUE)
                          /\ \A c \in Between(i, n) : ~Acks(c, i) /\ ~TimesOut(c, i) }

\* Acknowledgements: a sent message is settled once, by the first
\* acknowledgement of it or the first look for timeouts at or after its limit,
\* whichever call comes first, and never by an earlier one; a late or repeated
\* one changes nothing, and the log has one record of it.
SettledOnce ==
    kind = "message_ack_tracker" =>
      LET now == Outstanding(Len(calls) + 1)
          settled(op) ==
            { i \in Made("send") : \E c \in Made(op) :
                i \in Outstanding(c) /\ (Acks(c, i) \/ TimesOut(c, i)) }
          logged(status) == { n \in DOMAIN LogOf(0) : LogOf(0)[n].data[5] = status }
      IN  /\ DOMAIN st.pending = { <<Arg(i, 1), Arg(i, 2)>> : i \in now }
          /\ \A i \in now : st.pending[<<Arg(i, 1), Arg(i, 2)>>] = Arg(i, 3)
          /\ \A n \in Made("send") :
                LET mine == { i \in Outstanding(n) : Arg(i, 1) = Arg(n, 1) }
                IN  Got(n, TRUE) <=> /\ Cardinality(mine) < MAX_PENDING_PER_PEER
                                     /\ \A i \in mine : Arg(i, 2) # Arg(n, 2)
          /\ \A c \in Made("ack") : Got(c, TRUE) <=> \E i \in Outstanding(c) : Acks(c, i)
          /\ Cardinality(logged(1)) = Cardinality(settled("ack"))
          /\ Cardinality(logged(2)) = Cardinality(settled("expire"))
          /\ \A p \in Peers, m \in Ids :
               LET status == Statuses(p, m, 5)
                   sent == Statuses(p, m, 3)
               IN  \A n \in DOMAIN status :
                     IF n % 2 = 1 THEN status[n] = 0
                     ELSE status[n] # 0 /\ sent[n] = sent[n - 1]

\* Retries: attempts count up by one from the schedule, end at the limit, and
\* each waits at least the backoff of the one before.
AttemptsInOrder ==
    kind = "message_retry_scheduler" =>
      \A p \in Peers, m \in Ids :
        LET status == Statuses(p, m, 5)
            attempt == Statuses(p, m, 3)
            due == Statuses(p, m, 4)
        IN  \A n \in DOMAIN status :
              CASE status[n] = 0 -> n = 1 \/ status[n - 1] \in {2, 3}
                [] status[n] = 3 -> n > 1 /\ status[n - 1] \in {0, 1}
                [] OTHER ->
                     /\ n > 1 /\ status[n - 1] \in {0, 1} /\ attempt[n] = attempt[n - 1] + 1
                     /\ status[n] = 2 <=> attempt[n] = MAX_RETRIES
                     /\ due[n] >= due[n - 1] + (IF status[n] = 1 THEN backoff_interval(attempt[n]) ELSE 0)

\* Sequences: a number is in order twice only after a reset.
SequenceOnce ==
    kind = "message_sequence_tracker" =>
      \A i, j \in Made("observe") :
        (i < j /\ Got(i, "InOrder") /\ Got(j, "InOrder") /\ calls[i].args = calls[j].args) =>
           \E c \in Between(i, j) : Got(c, "Reset") /\ Arg(c, 1) = Arg(i, 1)

\* What is settled or abandoned is so once.
MessagesOnce == SettledOnce /\ AttemptsInOrder

\* The maps of the services as their logs alone give them.
LastOfKey(k) == CHOOSE n \in DOMAIN LogOf(0) :
    /\ LogOf(0)[n].data[1] = k[1] /\ LogOf(0)[n].data[2] = k[2]
    /\ \A x \in DOMAIN LogOf(0) :
         LogOf(0)[x].data[1] = k[1] /\ LogOf(0)[x].data[2] = k[2] => x <= n
KeysIn == { <<LogOf(0)[n].data[1], LogOf(0)[n].data[2]>> : n \in DOMAIN LogOf(0) }
LastData(k) == LogOf(0)[LastOfKey(k)].data

\* The peers whose requests before call i had named its epoch last.
OpenAt(i) ==
    { p \in Peers :
        LET named == { Arg(c, 2) : c \in { d \in Made("request") : d < i /\ Arg(d, 1) = p } }
        IN  named # {} /\ Max(named) = Arg(i, 1) }

\* The peers and epochs that the seals among the first n calls leave sealed: each
\* seals the open peers below the first that had been sealed already.
SealedBandwidth[n \in 0..Len(calls)] ==
    IF n = 0 THEN {}
    ELSE LET before == SealedBandwidth[n - 1]
         IN  before \cup { <<p, Arg(n, 1)>> : p \in { q \in OpenAt(n) :
                 /\ calls[n].op = "seal"
                 /\ \A r \in OpenAt(n) : r <= q => <<r, Arg(n, 1)>> \notin before } }

\* Bandwidth seals: a seal that is refused has sealed the peers before the one
\* it stopped at and none after it, and a peer's record holds what it was let
\* through until the seal that wrote it.
BandwidthSealed ==
    LET sealed(n) == SealedBandwidth[n]
    IN  /\ \A i \in Made("seal") :
             Got(i, TRUE) <=> \A p \in OpenAt(i) : <<p, Arg(i, 1)>> \notin sealed(i - 1)
        /\ UNION { { <<p, logs[p][n].data[2]>> : n \in DOMAIN logs[p] } : p \in DOMAIN logs }
             = sealed(Len(calls))
        /\ \A p \in DOMAIN logs : \A n \in DOMAIN logs[p] :
             LET e == logs[p][n].data[2]
                 at == Min({ i \in Made("seal") : <<p, e>> \in sealed(i) })
                 before == { c \in Made("request") : c < at /\ Arg(c, 1) = p
                                                    /\ Got(c, "Allow") /\ ChargedTo(c, "request") = e }
             IN  logs[p][n].data[3] = MapThenSumSet(LAMBDA c : Arg(c, 3), before)

\* A reader of the logs rebuilds what is pending, where each session and each
\* hop count stands, and the next sequence number expected of each peer.
MessageLogsRebuild ==
    CASE kind = "message_ack_tracker" ->
           /\ st.pending = [k \in { x \in KeysIn : LastData(x)[5] = 0 } |-> LastData(k)[3]]
           /\ \A p \in Peers :
                Get(st.acked, p, 0) + Get(st.timeouts, p, 0)
                  = Cardinality({ n \in DOMAIN LogOf(0) :
                       LogOf(0)[n].data[1] = p /\ LogOf(0)[n].data[5] # 0 })
      [] kind = "message_retry_scheduler" ->
           st = [k \in { x \in KeysIn : LastData(x)[5] \in {0, 1} } |->
                   [attempt |-> LastData(k)[3], next |-> LastData(k)[4]]]
      [] kind = "session_tracker" ->
           \A k \in DOMAIN st : st[k] = IF LogOf(k) = << >> THEN 0 ELSE LastRecord(k)[5]
      [] kind = "ttl_enforcer" ->
           \A m \in DOMAIN st :
             st[m] = [origin |-> LastRecord(m)[2], current |-> LastRecord(m)[3],
                      hops |-> LastRecord(m)[4], dropped |-> LastRecord(m)[5] # 0]
      [] kind = "message_sequence_tracker" ->
           \A p \in DOMAIN st :
             st[p] = IF LastRecord(p)[4] = 2 THEN LastRecord(p)[3] ELSE LastRecord(p)[2] + 1
      [] kind = "message_priority_queue" ->
           logs # << >> => LastRecord(0)[3] = Len(st.entries)
      [] kind \in {"flood_guard", "epoch_rate_limiter", "bandwidth_tracker"} ->
           /\ \A p \in DOMAIN logs : \A n \in DOMAIN logs[p] :
                /\ n > 1 => logs[p][n - 1].data[2] < logs[p][n].data[2]
                /\ logs[p][n].data[2] <= st[p].epoch
           /\ kind = "bandwidth_tracker" => BandwidthSealed
      [] OTHER -> TRUE

\* message_priority_queue.rs says of Critical: "consensus/safety messages;
\* never evicted".
CriticalNeverEvicted ==
    kind = "message_priority_queue" =>
      \A i \in Made("enqueue") :
        (Got(i, "Ok") /\ Arg(i, 1) = 0) =>
           \/ \E n \in DOMAIN st.entries : st.entries[n].seq = Arg(i, 2)
           \/ \E j \in Made("dequeue") : Arg(j, 2) = Arg(i, 2)

\* nonce_cache.rs says "A nonce is accepted only once per peer within the
\* window".
NonceOncePerWindow ==
    kind = "nonce_cache" =>
      \A i, j \in Made("check") :
        (/\ i < j /\ Got(i, TRUE) /\ Got(j, TRUE)
         /\ Arg(i, 1) = Arg(j, 1) /\ Arg(i, 3) = Arg(j, 3)
         /\ Cardinality({ c \in Made("check") : Arg(c, 2) = Arg(i, 2) }) <= MAX_NONCES_PER_EPOCH) =>
           ReachedBy(j) >= Arg(i, 2) + WINDOW_EPOCHS
=============================================================================
