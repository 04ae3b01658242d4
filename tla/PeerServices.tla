---------------------------- MODULE PeerServices ----------------------------
(***************************************************************************)
(* The services of src/aegis-cl-psi that keep a table of peers or judge    *)
(* them: blocklist, connection pool, address book, routes, topics,         *)
(* capabilities, heartbeats, reputation, node states with the fault        *)
(* detector that reads them, consensus rounds, epoch alignment and network *)
(* partitions.                                                             *)
(***************************************************************************)
EXTENDS ServiceState, Relation

CONSTANTS
    \* the constants of the files, scaled down by the configurations
    MAX_BLOCKLIST_SIZE, MAX_POOL_SIZE, MAX_IDLE_EPOCHS, MAX_BOOK_SIZE, MAX_ROUTES,
    MAX_TOPICS_PER_PEER, MAX_FILTER_TOPICS, MISS_THRESHOLD, DEAD_THRESHOLD,
    Voters      \* voter_count of every consensus round

ASSUME PeerAssumption ==
    /\ {MAX_BLOCKLIST_SIZE, MAX_POOL_SIZE, MAX_IDLE_EPOCHS, MAX_BOOK_SIZE, MAX_ROUTES,
        MAX_TOPICS_PER_PEER} \subseteq Nat
    /\ MISS_THRESHOLD \in Nat /\ DEAD_THRESHOLD > MISS_THRESHOLD
    /\ MAX_FILTER_TOPICS \in Nat \ {0} /\ Voters \in Nat

PeerKinds == {
    "peer_blocklist", "peer_connection_pool", "peer_address_book", "routing_table",
    "topic_subscription", "subscription_filter", "peer_capability_tracker",
    "heartbeat_tracker", "peer_reputation", "reputation_decay", "node_state_machine",
    "consensus_ledger", "epoch_synchronizer", "partition_detector" }

PeerInit ==
    st = CASE kind = "node_state_machine" -> [p \in Peers |-> 0]
           [] kind = "consensus_ledger" -> [r \in Ids |-> << >>]
           [] OTHER -> << >>

Refused(op, args, error) == Return(op, args, error) /\ UNCHANGED <<st, logs>>
ById(a, b) == a < b

-----------------------------------------------------------------------------
(* Blocklist.  A ban without a duration never expires. *)

Forever == -1
Expiry(e, duration) == IF duration = Forever THEN Forever ELSE e + duration
is_banned(p, e) == p \in DOMAIN st /\ (st[p].expires = Forever \/ e < st[p].expires)

\* Actions in the log: 0 Ban, 1 Unban, 2 Expire.  A ban that has run out and
\* was not swept yet still refuses a new one.
ban ==
    /\ Serve("peer_blocklist")
    /\ \E p \in Peers, e \in Epochs, reason \in Ids, duration \in {Forever, 1, 2} :
          LET args == <<p, e, duration>>
          IN  CASE p \in DOMAIN st -> Refused("ban", args, "AlreadyBanned")
                [] p \notin DOMAIN st /\ Cardinality(DOMAIN st) >= MAX_BLOCKLIST_SIZE ->
                     Refused("ban", args, "BlocklistFull")
                [] OTHER ->
                     /\ st' = Put(st, p, [expires |-> Expiry(e, duration), reason |-> reason])
                     /\ logs' = Chained(0, <<p, e, reason, 0>>)
                     /\ Return("ban", args, "Ok")

unban ==
    /\ Serve("peer_blocklist")
    /\ \E p \in Peers, e \in Epochs :
          IF p \notin DOMAIN st THEN Refused("unban", <<p, e>>, FALSE)
          ELSE /\ st' = Without(st, p)
               /\ logs' = Chained(0, <<p, e, st[p].reason, 1>>)
               /\ Return("unban", <<p, e>>, TRUE)

expire_bans ==
    /\ Serve("peer_blocklist")
    /\ \E e \in Epochs :
          LET expired == { p \in DOMAIN st : st[p].expires # Forever /\ e >= st[p].expires }
          IN  /\ st' = Dropping(st, expired)
              /\ logs' = ChainedInOrder(0, expired, ById, LAMBDA p : <<p, e, st[p].reason, 2>>)
              /\ Return("expire", <<e>>, expired)

-----------------------------------------------------------------------------
(* Connections: 0 Idle, 1 Active, 2 Draining, 3 Closed. *)

Moved(p, e, to) == Chained(0, <<p, e, st[p].state, to>>)

connect ==
    /\ Serve("peer_connection_pool")
    /\ \E p \in Peers, e \in Epochs :
          \/ /\ p \in DOMAIN st /\ st[p].state = 0
             /\ st' = [st EXCEPT ![p] = [state |-> 1, used |-> e]]
             /\ logs' = Moved(p, e, 1)
             /\ Return("connect", <<p, e>>, "Ok")
          \/ p \in DOMAIN st /\ st[p].state = 1 /\ Refused("connect", <<p, e>>, "Ok")
          \/ p \in DOMAIN st /\ st[p].state = 2 /\ Refused("connect", <<p, e>>, "InvalidTransition")
          \/ /\ p \notin DOMAIN st /\ Cardinality(DOMAIN st) >= MAX_POOL_SIZE
             /\ Refused("connect", <<p, e>>, "PoolFull")
          \/ /\ p \notin DOMAIN st /\ Cardinality(DOMAIN st) < MAX_POOL_SIZE
             /\ st' = Put(st, p, [state |-> 1, used |-> e])
             /\ logs' = Chained(0, <<p, e, 0, 1>>)
             /\ Return("connect", <<p, e>>, "Ok")

release ==
    /\ Serve("peer_connection_pool")
    /\ \E p \in Peers, e \in Epochs :
          IF p \in DOMAIN st /\ st[p].state = 1
          THEN /\ st' = [st EXCEPT ![p] = [state |-> 0, used |-> e]]
               /\ logs' = Moved(p, e, 0)
               /\ Return("release", <<p, e>>, TRUE)
          ELSE Refused("release", <<p, e>>, FALSE)

drain ==
    /\ Serve("peer_connection_pool")
    /\ \E p \in Peers, e \in Epochs :
          IF p \in DOMAIN st /\ st[p].state \in {0, 1}
          THEN /\ st' = [st EXCEPT ![p].state = 2]
               /\ logs' = Moved(p, e, 2)
               /\ Return("drain", <<p, e>>, TRUE)
          ELSE Refused("drain", <<p, e>>, FALSE)

close ==
    /\ Serve("peer_connection_pool")
    /\ \E p \in Peers, e \in Epochs :
          IF p \in DOMAIN st
          THEN /\ st' = Without(st, p)
               /\ logs' = Moved(p, e, 3)
               /\ Return("close", <<p, e>>, TRUE)
          ELSE Refused("close", <<p, e>>, FALSE)

\* Mutant: a connection in use may be evicted.
AnyTooLong(e) == { p \in DOMAIN st : e >= st[p].used + MAX_IDLE_EPOCHS }

IdleTooLong(e) == { p \in DOMAIN st : st[p].state = 0 /\ e >= st[p].used + MAX_IDLE_EPOCHS }

evict_idle ==
    /\ Serve("peer_connection_pool")
    /\ \E e \in Epochs :
          /\ st' = Dropping(st, IdleTooLong(e))
          /\ logs' = ChainedInOrder(0, IdleTooLong(e), ById, LAMBDA p : <<p, e, 0, 3>>)
          /\ Return("evict", <<e>>, IdleTooLong(e))

-----------------------------------------------------------------------------
(* Tables with one entry per key, and a log of Insert 0, Update 1, Remove 2. *)

\* An address too long is refused before the book is looked at: it changes
\* nothing, like the other refusals, and is left out.
AddressError(p, e) ==
    CASE p \notin DOMAIN st /\ Cardinality(DOMAIN st) >= MAX_BOOK_SIZE -> "BookFull"
      [] p \in DOMAIN st /\ e <= st[p].epoch -> "StaleEpoch"
      [] OTHER -> "Ok"

register_address ==
    /\ Serve("peer_address_book")
    /\ \E p \in Peers, address \in Ids, e \in Epochs :
          IF AddressError(p, e) # "Ok" THEN Refused("register", <<p, e>>, AddressError(p, e))
          ELSE /\ st' = Put(st, p, [address |-> address, epoch |-> e])
               /\ logs' = Chained(0, <<p, e, address, Byte(p \in DOMAIN st)>>)
               /\ Return("register", <<p, e>>, "Ok")

\* The epoch that guards against stale updates is forgotten with the entry.
remove_address ==
    /\ Serve("peer_address_book")
    /\ \E p \in Peers, e \in Epochs :
          IF p \notin DOMAIN st THEN Refused("remove", <<p, e>>, FALSE)
          ELSE /\ st' = Without(st, p)
               /\ logs' = Chained(0, <<p, e, st[p].address, 2>>)
               /\ Return("remove", <<p, e>>, TRUE)

insert_route ==
    /\ Serve("routing_table")
    /\ \E p \in Peers, hop \in Ids, metric \in {1, 255}, e \in Epochs :
          IF p \notin DOMAIN st /\ Cardinality(DOMAIN st) >= MAX_ROUTES
          THEN Refused("insert", <<p, e>>, "TableFull")
          ELSE /\ st' = Put(st, p, [hop |-> hop, metric |-> metric])
               /\ logs' = Chained(0, <<p, e, hop, Byte(p \in DOMAIN st), metric>>)
               /\ Return("insert", <<p, e>>, "Ok")

remove_route ==
    /\ Serve("routing_table")
    /\ \E p \in Peers, e \in Epochs :
          IF p \notin DOMAIN st THEN Refused("remove", <<p, e>>, FALSE)
          ELSE /\ st' = Without(st, p)
               /\ logs' = Chained(0, <<p, e, st[p].hop, 2, st[p].metric>>)
               /\ Return("remove", <<p, e>>, TRUE)

\* Capabilities: a record holds the old and the new mask; removal writes 0.
update_capabilities ==
    /\ Serve("peer_capability_tracker")
    /\ \E p \in Peers, e \in Epochs, caps \in {0} \cup Ids :
          IF p \in DOMAIN st /\ e <= st[p].epoch THEN Refused("update", <<p, e>>, "StaleEpoch")
          ELSE LET old == IF p \in DOMAIN st THEN st[p].caps ELSE 0
               IN  /\ st' = Put(st, p, [caps |-> caps, epoch |-> e])
                   /\ logs' = Chained(0, <<p, e, old, caps>>)
                   /\ Return("update", <<p, e>>, "Ok")

remove_capabilities ==
    /\ Serve("peer_capability_tracker")
    /\ \E p \in Peers, e \in Epochs :
          IF p \notin DOMAIN st THEN Refused("remove", <<p, e>>, FALSE)
          ELSE /\ st' = Without(st, p)
               /\ logs' = Chained(0, <<p, e, st[p].caps, 0>>)
               /\ Return("remove", <<p, e>>, TRUE)

-----------------------------------------------------------------------------
(* Topics. *)

\* A refused subscription leaves an empty entry for the peer all the same.
subscribe ==
    /\ Serve("topic_subscription")
    /\ \E p \in Peers, topic \in Ids, e \in Epochs :
          LET topics == Get(st, p, {})
              accept == topic \notin topics /\ Cardinality(topics) < MAX_TOPICS_PER_PEER
          IN  /\ st' = Put(st, p, IF accept THEN topics \cup {topic} ELSE topics)
              /\ logs' = IF accept THEN Chained(p, <<p, e, topic, 0>>) ELSE logs
              /\ Return("subscribe", <<p, topic>>, accept)

unsubscribe ==
    /\ Serve("topic_subscription")
    /\ \E p \in Peers, topic \in Ids, e \in Epochs :
          IF topic \notin Get(st, p, {}) THEN Refused("unsubscribe", <<p, topic>>, FALSE)
          ELSE /\ st' = [st EXCEPT ![p] = @ \ {topic}]
               /\ logs' = Chained(p, <<p, e, topic, 1>>)
               /\ Return("unsubscribe", <<p, topic>>, TRUE)

\* A filter keeps the first MAX_FILTER_TOPICS of the topics it is given.
register_topics ==
    /\ Serve("subscription_filter")
    /\ \E p \in Peers, topics \in BoundedSeq(Ids, MAX_FILTER_TOPICS + 1) :
          /\ st' = Put(st, p, Range(SubSeq(topics, 1, AtMost(Len(topics), MAX_FILTER_TOPICS))))
          /\ logs' = Put(logs, p, LogOf(p))
          /\ Return("register", <<p, topics>>, TRUE)

FilterDecision(p, topic) ==
    CASE Get(st, p, {}) = {} -> 2
      [] OTHER -> IF topic \in st[p] THEN 0 ELSE 1

evaluate ==
    /\ Serve("subscription_filter")
    /\ \E p \in Peers, topic \in Ids :
          /\ logs' = Chained(p, <<p, Len(calls), topic, FilterDecision(p, topic)>>)
          /\ Return("evaluate", <<p, topic>>, FilterDecision(p, topic))
    /\ UNCHANGED st

\* The log of the peer goes with its topics.
clear_peer ==
    /\ Serve("subscription_filter")
    /\ \E p \in Peers :
          /\ st' = Without(st, p)
          /\ logs' = Without(logs, p)
          /\ Return("clear", <<p>>, TRUE)

-----------------------------------------------------------------------------
(* Heartbeats and reputation. *)

from_miss_count(misses) ==
    CASE misses >= DEAD_THRESHOLD -> 2
      [] misses >= MISS_THRESHOLD /\ misses < DEAD_THRESHOLD -> 1
      [] OTHER -> 0

beat ==
    /\ Serve("heartbeat_tracker")
    /\ \E p \in Peers :
          /\ st' = Put(st, p, 0)
          /\ logs' = Chained(p, <<p, Len(calls), 0, 0, 0>>)
          /\ Return("beat", <<p>>, 0)

tick_miss ==
    /\ Serve("heartbeat_tracker")
    /\ \E p \in Peers :
          LET misses == SaturatingAdd(Get(st, p, 0), 1)
          IN  /\ st' = Put(st, p, misses)
              /\ logs' = Chained(p, <<p, Len(calls), 1, misses, from_miss_count(misses)>>)
              /\ Return("miss", <<p>>, from_miss_count(misses))

INITIAL_SCORE == 50
classify_tier(score) == AtMost(score \div 20, 4)
Deltas == {2, -10, 1, -3, -2, -15, -20, 5}
Clamped(n) == IF n < 0 THEN 0 ELSE AtMost(n, 100)

record_event ==
    /\ Serve("peer_reputation")
    /\ \E p \in Peers, delta \in Deltas :
          LET before == Get(st, p, [score |-> INITIAL_SCORE, events |-> 0, positive |-> 0,
                                    negative |-> 0, hash |-> Sha256(Genesis, <<p, INITIAL_SCORE, 0>>, 1..3)])
              score == Clamped(before.score + delta)
              events == before.events + 1
          IN  /\ st' = Put(st, p,
                    [score |-> score, events |-> events,
                     positive |-> before.positive + Byte(delta > 0),
                     negative |-> before.negative + Byte(delta <= 0),
                     hash |-> Sha256(before.hash, <<p, score, events>>, 1..3)])
              /\ Return("event", <<p, delta>>, classify_tier(score))
    /\ UNCHANGED logs

decay_amount(reason) == CASE reason = 0 -> 3 [] reason = 1 -> 8 [] OTHER -> 5

\* A stale call of a peer not seen before cannot be: its log is empty.
apply_decay ==
    /\ Serve("reputation_decay")
    /\ \E p \in Peers, e \in Epochs, reason \in 0..2 :
          LET before == Get(st, p, INITIAL_SCORE)
              after == SaturatingSub(before, decay_amount(reason))
          IN  IF LogOf(p) # << >> /\ e <= LastRecord(p)[2]
              THEN Refused("decay", <<p, e>>, "StaleEpoch")
              ELSE /\ st' = Put(st, p, after)
                   /\ logs' = Chained(p, <<p, e, before, after, decay_amount(reason), reason>>)
                   /\ Return("decay", <<p, e>>, "Ok")

-----------------------------------------------------------------------------
(* Node states: 0 Initializing, 1 Active, 2 Degraded, 3 Recovery, 4 Halted;  *)
(* the fault log, under owner 0, is written from the histories of all nodes. *)

node_can_transition_to(from, to) ==
    <<from, to>> \in {<<0, 1>>, <<1, 2>>, <<1, 4>>, <<2, 3>>, <<2, 4>>, <<3, 1>>, <<3, 2>>}

TransitionError(p, to, e) ==
    CASE st[p] = 4 -> "TerminalState"
      [] st[p] # 4 /\ ~node_can_transition_to(st[p], to) -> "InvalidTransition"
      [] OTHER -> IF LogOf(p) # << >> /\ e < LastRecord(p)[4] THEN "StaleEpoch" ELSE "Ok"

node_transition ==
    /\ Serve("node_state_machine")
    /\ \E p \in Peers, to \in 0..4, e \in Epochs :
          IF TransitionError(p, to, e) # "Ok"
          THEN Refused("transition", <<p, to>>, TransitionError(p, to, e))
          ELSE /\ st' = [st EXCEPT ![p] = to]
               /\ logs' = Chained(p, <<p, st[p], to, e>>)
               /\ Return("transition", <<p, to>>, "Ok")

\* How many degradations each epoch of the window saw, over all nodes.
DegradedAt(e) ==
    MapThenSumSet(LAMBDA p : Cardinality({ n \in DOMAIN LogOf(p) :
                        LogOf(p)[n].data[3] = 2 /\ LogOf(p)[n].data[4] = e }), Peers)
epoch_degradation_counts(e, window) ==
    LET hit == { x \in SaturatingSub(e, window)..e : DegradedAt(x) > 0 }
    IN  [n \in 1..Cardinality(hit) |-> DegradedAt(Sorted(hit, ById)[n])]

classify_fault(degraded, counts) ==
    CASE degraded < 2 -> degraded
      [] OTHER -> IF /\ Len(counts) >= 2
                     /\ \A n \in 1..(Len(counts) - 1) : counts[n + 1] >= counts[n]
                  THEN 3 ELSE 2

fault_record ==
    /\ Serve("node_state_machine")
    /\ \E e \in Epochs, window \in {0, 1} :
          LET degraded == { p \in Peers : st[p] \in {2, 4} }
              class == classify_fault(Cardinality(degraded), epoch_degradation_counts(e, window))
          IN  IF LogOf(0) # << >> /\ e < LastRecord(0)[1]
              THEN Refused("refused", <<e>>, "StaleEpoch")
              ELSE /\ logs' = Chained(0, <<e, Cardinality(degraded), class>>)
                   /\ Return("assess", <<e, degraded>>, class)
                   /\ UNCHANGED st

-----------------------------------------------------------------------------
(* Consensus rounds, all on proposal 1; the ledger is the log of owner 0.    *)

quorum_reached(votes) == Voters # 0 /\ votes * 1000000 >= Voters * 618034

\* A voter's later vote replaces its earlier one.
cast_vote ==
    /\ Serve("consensus_ledger")
    /\ \E round \in Ids, p \in Peers, proposal \in {1, 2}, valid \in BOOLEAN, e \in Epochs :
          CASE ~valid -> Refused("vote", <<round, p>>, "InvalidVoteHash")
            [] valid /\ proposal # 1 -> Refused("vote", <<round, p>>, "ProposalMismatch")
            [] OTHER -> /\ st' = [st EXCEPT ![round] = Put(@, p, e)]
                        /\ Return("vote", <<round, p>>, "Ok")
                        /\ UNCHANGED logs

\* Mutant: the round certified last may be certified again.
EarlierRound(round) == LogOf(0) # << >> /\ round < LastRecord(0)[1]

StaleRound(round) == LogOf(0) # << >> /\ round <= LastRecord(0)[1]

append_certificate ==
    /\ Serve("consensus_ledger")
    /\ \E round \in Ids :
          LET votes == Cardinality(DOMAIN st[round])
          IN  IF StaleRound(round)
              THEN Refused("certify", <<round>>, "StaleRound")
              ELSE /\ logs' = Chained(0, <<round, votes, Voters, Byte(quorum_reached(votes))>>)
                   /\ Return("certify", <<round>>, "Ok")
                   /\ UNCHANGED st

-----------------------------------------------------------------------------
(* Epoch alignment (0 Synchronized, 1 Lagging, 2 Leading, 3 NoPeers) and     *)
(* partitions (0 Unified, 1 Asymmetric, 2 Clustered, 3 Isolated, 4 Unknown). *)

classify_alignment(local, top, count) ==
    CASE count = 0 -> 3
      [] count > 0 /\ top > local -> 1
      [] count > 0 /\ top < local -> 2
      [] OTHER -> 0

sync_record ==
    /\ Serve("epoch_synchronizer")
    /\ \E local \in Epochs, peers \in SUBSET Epochs :
          LET top == IF peers = {} THEN 0 ELSE Max(peers)
              low == IF peers = {} THEN 0 ELSE Min(peers)
              class == classify_alignment(local, top, Cardinality(peers))
              lag == IF peers = {} THEN 0 ELSE SaturatingSub(top, local)
              lead == IF peers = {} THEN 0 ELSE SaturatingSub(local, top)
          IN  IF LogOf(0) # << >> /\ local < LastRecord(0)[1]
              THEN Refused("refused", <<local>>, "StaleEpoch")
              ELSE /\ logs' = Chained(0, <<local, top, low, Cardinality(peers), lag, lead, class>>)
                   /\ Return("sync", <<local, peers>>, class)
                   /\ UNCHANGED st

\* The nodes a walk along the reachable pairs comes to from the first node.
Walked(nodes, reach) ==
    LET closure == TransitiveClosure([a, b \in nodes |-> <<a, b>> \in reach], nodes)
    IN  { b \in nodes : b = Min(nodes) \/ closure[Min(nodes), b] }

detect_partition(nodes, reach) ==
    CASE Cardinality(nodes) < 2 -> 4
      [] OTHER ->
           IF \E a \in nodes : \A b \in nodes \ {a} : <<a, b>> \notin reach THEN 3
           ELSE IF \E a, b \in nodes : a # b /\ <<a, b>> \in reach /\ <<b, a>> \notin reach THEN 1
           ELSE IF Walked(nodes, reach) # nodes THEN 2 ELSE 0

partition_record ==
    /\ Serve("partition_detector")
    /\ \E nodes \in SUBSET Peers, e \in Epochs :
          \E reach \in SUBSET { pair \in nodes \X nodes : pair[1] # pair[2] } :
             LET class == detect_partition(nodes, reach)
                 n == Cardinality(nodes)
                 total == IF n < 2 THEN 0 ELSE n * (n - 1)
             IN  IF LogOf(0) # << >> /\ e <= LastRecord(0)[1]
                 THEN Refused("refused", <<e>>, "StaleEpoch")
                 ELSE /\ logs' = Chained(0, <<e, class, Cardinality(reach), total>>)
                      /\ Return("partition", <<nodes, reach>>, class)
                      /\ UNCHANGED st

-----------------------------------------------------------------------------
PeerNext ==
    \/ ban              \/ unban               \/ expire_bans
    \/ connect          \/ release             \/ drain      \/ close      \/ evict_idle
    \/ register_address \/ remove_address      \/ insert_route \/ remove_route
    \/ update_capabilities \/ remove_capabilities
    \/ subscribe        \/ unsubscribe         \/ register_topics \/ evaluate \/ clear_peer
    \/ beat             \/ tick_miss           \/ record_event \/ apply_decay
    \/ node_transition  \/ fault_record        \/ cast_vote  \/ append_certificate
    \/ sync_record      \/ partition_record

-----------------------------------------------------------------------------
(* Limits. *)

Entries == Cardinality(DOMAIN st)

TablesBounded ==
    /\ kind = "peer_blocklist" => Entries <= MAX_BLOCKLIST_SIZE
    /\ kind = "peer_connection_pool" => Entries <= MAX_POOL_SIZE
    /\ kind = "peer_address_book" => Entries <= MAX_BOOK_SIZE
    /\ kind = "routing_table" => Entries <= MAX_ROUTES
    /\ kind = "topic_subscription" => \A p \in DOMAIN st : Cardinality(st[p]) <= MAX_TOPICS_PER_PEER
    /\ kind = "peer_reputation" => \A p \in DOMAIN st : st[p].score \in 0..100

\* A peer is banned at an epoch iff some accepted ban that was not lifted since
\* runs beyond it: no sweep lifts a ban early.
BanStands(i, e) ==
    LET runs == Expiry(Arg(i, 2), Arg(i, 3))
    IN  /\ Got(i, "Ok") /\ (runs = Forever \/ e < runs)
        /\ \A c \in (i + 1)..Len(calls) :
             /\ calls[c].op = "unban" => Arg(c, 1) # Arg(i, 1)
             /\ calls[c].op = "expire" => runs = Forever \/ Arg(c, 1) < runs

BansLast ==
    kind = "peer_blocklist" =>
      \A p \in Peers, e \in Epochs :
        is_banned(p, e) <=> \E i \in Made("ban") : Arg(i, 1) = p /\ BanStands(i, e)

\* A connection runs out of use before it is evicted, and a draining one is
\* not used again: in the log of a peer a record starts where the one before
\* ended, nothing but Closed follows Draining, and Idle follows Closed.
Lifecycle ==
    kind = "peer_connection_pool" =>
      \A p \in Peers :
        LET mine == Records(0, 1, p)
        IN  \A n \in DOMAIN mine :
              LET from == mine[n].data[3]
                  ended == IF n = 1 THEN 3 ELSE mine[n - 1].data[4]
              IN  /\ from = IF ended = 3 THEN 0 ELSE ended
                  /\ from = 2 => mine[n].data[4] = 3

EvictsOnlyIdle ==
    kind = "peer_connection_pool" =>
      \A i \in Made("evict") : \A p \in calls[i].result :
        \E c \in Made("release") \cap 1..(i - 1) :
          Arg(c, 1) = p /\ Got(c, TRUE) /\ Arg(i, 1) >= Arg(c, 2) + MAX_IDLE_EPOCHS

PeerLimits == TablesBounded /\ BansLast /\ Lifecycle /\ EvictsOnlyIdle

(* Once. *)

Ascending(numbers) == \A n \in 2..Len(numbers) : numbers[n - 1] < numbers[n]

\* A round is certified once and in order, and a vote counts once per voter; a
\* peer decays once an epoch; an epoch has one partition verdict; a node that
\* halted stays halted.
PeersOnce ==
    CASE kind = "consensus_ledger" ->
           /\ Ascending(FieldOf(LogOf(0), 1))
           /\ \A n \in DOMAIN LogOf(0) : LogOf(0)[n].data[2] <=
                Cardinality({ Arg(i, 2) : i \in { c \in Made("vote") :
                                Got(c, "Ok") /\ Arg(c, 1) = LogOf(0)[n].data[1] } })
      [] kind = "reputation_decay" -> \A p \in DOMAIN logs : Ascending(FieldOf(logs[p], 2))
      [] kind = "partition_detector" -> Ascending(FieldOf(LogOf(0), 1))
      [] kind = "node_state_machine" ->
           \A p \in Peers : \A i, j \in Made("transition") :
             (i < j /\ Got(i, "Ok") /\ Got(j, "Ok") /\ Arg(i, 1) = p /\ Arg(j, 1) = p)
               => Arg(i, 2) # 4
      [] OTHER -> TRUE

(* The logs rebuild the tables. *)

\* The peers whose last record in the log of owner 0 is not of the given kind,
\* and that record.
LastOf(p) == LET mine == Records(0, 1, p) IN mine[Len(mine)].data
Present(gone) == { p \in Range(FieldOf(LogOf(0), 1)) : LastOf(p)[4] \notin gone }

PeerLogsRebuild ==
    CASE kind = "peer_blocklist" ->
           DOMAIN st = Present({1, 2}) /\ \A p \in DOMAIN st : st[p].reason = LastOf(p)[3]
      [] kind = "peer_connection_pool" ->
           DOMAIN st = Present({3}) /\ \A p \in DOMAIN st : st[p].state = LastOf(p)[4]
      [] kind = "peer_address_book" ->
           st = [p \in Present({2}) |-> [address |-> LastOf(p)[3], epoch |-> LastOf(p)[2]]]
      [] kind = "routing_table" ->
           st = [p \in Present({2}) |-> [hop |-> LastOf(p)[3], metric |-> LastOf(p)[5]]]
      [] kind = "topic_subscription" ->
           \A p \in DOMAIN st : \A t \in Ids :
             t \in st[p] <=> LET mine == Records(p, 3, t)
                            IN  mine # << >> /\ mine[Len(mine)].data[4] = 0
      [] kind = "peer_capability_tracker" ->
           /\ \A p \in DOMAIN st : st[p].caps = LastOf(p)[4]
           /\ \A p \in Present({0}) : p \in DOMAIN st
      [] kind = "heartbeat_tracker" ->
           \A p \in DOMAIN st :
             st[p] = Cardinality({ i \in Made("miss") : Arg(i, 1) = p /\
                        \A b \in Made("beat") : Arg(b, 1) = p => b < i })
      [] kind = "peer_reputation" ->
           \A p \in DOMAIN st : st[p].events = st[p].positive + st[p].negative
      [] kind = "reputation_decay" ->
           \A p \in DOMAIN st : \A n \in DOMAIN logs[p] :
             logs[p][n].data[3] = IF n = 1 THEN INITIAL_SCORE ELSE logs[p][n - 1].data[4]
      [] kind = "node_state_machine" ->
           \A p \in Peers :
             /\ st[p] = IF LogOf(p) = << >> THEN 0 ELSE LastRecord(p)[3]
             /\ \A n \in 2..Len(LogOf(p)) : LogOf(p)[n].data[2] = LogOf(p)[n - 1].data[3]
      [] OTHER -> TRUE

(* Verdicts. *)

\* Every cut of the nodes is crossed in both directions.
EveryCutCrossed(nodes, reach) ==
    \A side \in SUBSET nodes :
      (side # {} /\ side # nodes) =>
        \E a \in side, b \in nodes \ side : <<a, b>> \in reach /\ <<b, a>> \in reach

\* The topics a filter goes by: those of the last registration since the peer
\* was cleared, up to the limit.
RegisteredFor(p, i) ==
    LET told == { c \in 1..(i - 1) : calls[c].op \in {"register", "clear"} /\ Arg(c, 1) = p }
    IN  IF told = {} THEN << >>
        ELSE IF calls[Max(told)].op = "clear" THEN << >>
        ELSE SubSeq(Arg(Max(told), 2), 1, AtMost(Len(Arg(Max(told), 2)), MAX_FILTER_TOPICS))

\* The voters whose vote for a round was accepted before call i: one that votes
\* again, or whose other votes are refused, counts once.
VotersOf(round, i) ==
    { Arg(v, 2) : v \in { c \in Made("vote") \cap 1..i : Got(c, "Ok") /\ Arg(c, 1) = round } }

\* A round is certified with the voters it has by then, whether or not they are
\* a quorum, and the certificate says which: the quorum is 1/phi of the voters
\* of the round, none of no voters. Nothing is certified after a later round.
CertificateFits(i) ==
    LET round == Arg(i, 1)
        votes == Cardinality(VotersOf(round, i))
        quorum == Voters > 0 /\ 1000000 * votes >= 618034 * Voters
    IN  /\ Got(i, "StaleRound") <=>
             \E c \in Made("certify") \cap 1..(i - 1) : Got(c, "Ok") /\ Arg(c, 1) >= round
        /\ Got(i, "Ok") =>
             Records(0, 1, round) # << >>
             /\ Records(0, 1, round)[1].data = <<round, votes, Voters, IF quorum THEN 1 ELSE 0>>

\* A heartbeat verdict counts the misses since the last beat; a filter decides
\* by the last registration; the mesh is unified iff no cut separates it; a
\* fault report is clean iff no node is degraded or halted; a node lags iff
\* some peer is ahead; a certificate tells a quorum from the votes before it.
\* Unified asks for symmetric links that leave no cut, as the breadth-first walk
\* of detect_partition does: nodes 1-2-3 in a chain are Unified, where
\* partition_detector.rs:9 and :70 speak of all pairs.
PeerVerdicts ==
    kind \in PeerKinds =>
      \A i \in DOMAIN calls :
        CASE calls[i].op = "miss" ->
               LET run == { c \in Made("miss") \cap 1..i : Arg(c, 1) = Arg(i, 1) /\
                              \A b \in Made("beat") \cap 1..i : Arg(b, 1) = Arg(i, 1) => b < c }
               IN  /\ calls[i].result = 2 <=> Cardinality(run) >= DEAD_THRESHOLD
                   /\ calls[i].result = 0 <=> Cardinality(run) < MISS_THRESHOLD
          [] calls[i].op = "evaluate" ->
               LET topics == RegisteredFor(Arg(i, 1), i)
               IN  calls[i].result = (IF topics = << >> THEN 2 ELSE Byte(Arg(i, 2) \notin Range(topics)))
          [] calls[i].op = "partition" ->
               calls[i].result = 0 <=>
                 /\ Cardinality(Arg(i, 1)) >= 2 /\ EveryCutCrossed(Arg(i, 1), Arg(i, 2))
                 /\ \A pair \in Arg(i, 2) : <<pair[2], pair[1]>> \in Arg(i, 2)
          [] calls[i].op = "certify" -> CertificateFits(i)
          [] calls[i].op = "assess" /\ kind = "node_state_machine" ->
               calls[i].result = 0 <=> Arg(i, 2) = {}
          [] calls[i].op = "sync" ->
               /\ Got(i, 1) <=> \E e \in Arg(i, 2) : e > Arg(i, 1)
               /\ Got(i, 2) => \A e \in Arg(i, 2) : e < Arg(i, 1)
          [] OTHER -> TRUE
=============================================================================
