--------------------------- MODULE CompactionNet ----------------------------
(***************************************************************************)
(* How a sealed window of epochs reaches the peers (src/aegis-cl-psi,      *)
(* gates 348-356 and the gossip mirrors 370-375): the epoch ledger, the    *)
(* audit seal over a window of it, the broadcaster's frame, the registry   *)
(* of peers, the dispatcher, each peer's validator and the sync tracker    *)
(* fed by their acknowledgements.                                          *)
(*                                                                         *)
(* The crate has no transport: frames and acknowledgements travel over a   *)
(* network of our own that loses, duplicates, reorders and corrupts.  The  *)
(* ledger is changed through entries_mut, which hands out every field of   *)
(* every entry.  The gossip ledger's files repeat their twins token by    *)
(* token: `side' says which of the two is running.                         *)
(***************************************************************************)
EXTENDS HashChain

CONSTANTS
    Peers,
    Bound   \* per side: at most so many ledger entries, seals, changes of
            \* entries already written and registry events, and the peers that ask
            \* to be admitted

Sides == {"compaction", "gossip"}

ASSUME BoundAssumption ==
    Bound \in [Sides -> [epochs : Nat \ {0}, seals : Nat, tampers : Nat, events : Nat,
                         peers : SUBSET Peers]]

VARIABLES
    side,       \* whose files are running: "compaction" or "gossip"
    ledger,     \* LedgerEntry: data is <<epoch, contents>>, contents 0 as written
    written,    \* the entries as append wrote them (history, no state of the code)
    tampers,    \* how many changes were made to entries already written
    seals,      \* CompactionAuditSeal: [first, last, chains_valid, terminal_hash],
                \* and window, where in the ledger its entries were (history)
    registry,   \* CompactionPeerRegistry.peers: the admitted peer ids
    events,     \* CompactionPeerRegistry.events: <<admitted?, peer>>
    dispatched, \* DispatchRecord: [epoch_end, peer_count, delivered_count]
    net,        \* frames under way: [to, epoch, sound]
    last,       \* each validator's last_epoch_end, 0 for None
    acks,       \* acknowledgements sent: <<peer, epoch>>
    tracker     \* CompactionSyncTracker.peers: peer -> [acked, current]

chain_vars == <<ledger, written, tampers, seals>>
registry_vars == <<registry, events>>
net_vars == <<net, last, acks, tracker>>
vars == <<side, chain_vars, registry_vars, dispatched, net_vars>>

Init ==
    /\ side \in Sides
    /\ ledger = << >> /\ written = << >> /\ tampers = 0 /\ seals = << >>
    /\ registry = {} /\ events = << >> /\ dispatched = << >>
    /\ net = {} /\ acks = {} /\ tracker = << >>
    /\ last = [p \in Peers |-> 0]

Covered == {1, 2}
CurrentEpoch == Len(ledger)

-----------------------------------------------------------------------------
(* The ledger and its seals. *)

\* append: the seven stage hashes of an epoch are its contents.
LedgerAppend ==
    /\ Len(ledger) < Bound[side].epochs
    /\ ledger' = ChainPush(ledger, <<Len(ledger) + 1, 0>>, Covered)
    /\ written' = Append(written, ledger'[Len(ledger) + 1])
    /\ UNCHANGED <<side, tampers, seals, registry_vars, dispatched, net_vars>>

\* entries_mut: any field of an entry, its epoch, its link and its hash included,
\* stays or changes.  A link may be made to fit the entry before it and a hash
\* the rest of its entry; every other value is to the walks of the code as good
\* as a flipped one.
LedgerTamper ==
    /\ tampers < Bound[side].tampers
    /\ tampers' = tampers + 1
    /\ \E i \in DOMAIN ledger, epoch \in 1..Bound[side].epochs, contents \in {0, 1} :
       \E prev \in {ledger[i].prev, PrevStored(ledger, i), Flipped} :
       \E hash \in {ledger[i].hash, Sha256(prev, <<epoch, contents>>, Covered), Flipped} :
          ledger' = [ledger EXCEPT ![i] =
                       [data |-> <<epoch, contents>>, prev |-> prev, hash |-> hash]]
    /\ UNCHANGED <<side, written, seals, registry_vars, dispatched, net_vars>>

\* Mutant: each hash is recomputed, the links between them are not compared.
WindowHashed(window) ==
    \A i \in DOMAIN window : window[i].hash = Sha256(window[i].prev, window[i].data, Covered)

\* The walk of certify: from the window's own first prev_hash, not from genesis.
WindowIntact(window) ==
    \A i \in DOMAIN window :
        LET prev == IF i = 1 THEN window[1].prev ELSE window[i - 1].hash
        IN  /\ window[i].prev = prev
            /\ window[i].hash = Sha256(prev, window[i].data, Covered)

\* certify refuses an empty window.
Certify ==
    /\ Len(seals) < Bound[side].seals
    /\ \E a, b \in DOMAIN ledger :
          /\ a <= b
          /\ seals' = Append(seals,
                [first |-> ledger[a].data[1], last |-> ledger[b].data[1],
                 chains_valid |-> WindowIntact(SubSeq(ledger, a, b)),
                 terminal_hash |-> ledger[b].hash, window |-> <<a, b>>])
    /\ UNCHANGED <<side, ledger, written, tampers, registry_vars, dispatched, net_vars>>

-----------------------------------------------------------------------------
(* Registry and dispatch. *)

\* admit refuses a peer already admitted, evict one that is not there.
Admit ==
    /\ Len(events) < Bound[side].events
    /\ \E p \in (Peers \cap Bound[side].peers) \ registry :
          /\ registry' = registry \cup {p}
          /\ events' = Append(events, <<TRUE, p>>)
    /\ UNCHANGED <<side, chain_vars, dispatched, net_vars>>

Evict ==
    /\ Len(events) < Bound[side].events
    /\ \E p \in registry :
          /\ registry' = registry \ {p}
          /\ events' = Append(events, <<FALSE, p>>)
    /\ UNCHANGED <<side, chain_vars, dispatched, net_vars>>

\* encode_frame: the epoch under a checksum, which decode compares.
encode_frame(seal) == [epoch |-> seal.last, sound |-> TRUE]
decode(frame) == frame.sound

\* Mutant: evictions are not replayed.
ReplayedAdmissions == { p \in Peers : \E i \in DOMAIN events : events[i] = <<TRUE, p>> }

\* dispatch does not walk the peers map but replays the registry's events.
ReplayedPeers ==
    { p \in Peers : \E i \in DOMAIN events :
        /\ events[i] = <<TRUE, p>>
        /\ \A j \in (i + 1)..Len(events) : events[j][2] # p }

\* A frame is encoded once for each seal and dispatched at once.  An empty
\* registry is not an error: the record says 0 of 0.
DispatchFrame(frame) ==
    LET results == IF registry = {} THEN {} ELSE ReplayedPeers
    IN  /\ decode(frame)
        /\ dispatched' = Append(dispatched,
             [epoch_end |-> frame.epoch, peer_count |-> Cardinality(registry),
              delivered_count |-> Cardinality(results)])
        /\ net' = net \cup
             { [to |-> p, epoch |-> frame.epoch, sound |-> frame.sound] : p \in results }
        /\ UNCHANGED <<side, chain_vars, registry_vars, last, acks, tracker>>

NextSeal == seals[Len(dispatched) + 1]
Dispatch ==
    /\ Len(dispatched) < Len(seals)
    /\ DispatchFrame(encode_frame(NextSeal))

-----------------------------------------------------------------------------
(* The network and the peers. *)

\* What was sent stays deliverable, in any order and again and again, until it
\* is lost; an acknowledgement that is lost is one that is never tracked.
Lose ==
    /\ \E m \in net : net' = net \ {m}
    /\ UNCHANGED <<side, chain_vars, registry_vars, dispatched, last, acks, tracker>>

\* A corrupted frame may carry any epoch; its checksum no longer fits.
Corrupt ==
    /\ \E m \in net, e \in 1..Bound[side].epochs :
          /\ m.sound
          /\ net' = (net \ {m}) \cup {[m EXCEPT !.sound = FALSE, !.epoch = e]}
    /\ UNCHANGED <<side, chain_vars, registry_vars, dispatched, last, acks, tracker>>

\* Mutants: a frame is believed without its checksum; a peer takes only the
\* epoch that follows its last one.
VerdictUnchecked(frame, previous) ==
    IF frame.epoch >= previous THEN "Valid" ELSE "EpochRegressed"
VerdictInSequence(frame, previous) ==
    IF frame.epoch = previous + 1 /\ decode(frame) THEN "Valid" ELSE "EpochRegressed"

Verdict(frame, previous) ==
    IF frame.epoch >= previous
    THEN IF decode(frame) THEN "Valid" ELSE "ChecksumFail"
    ELSE IF decode(frame) THEN "EpochRegressed" ELSE "ChecksumAndEpoch"

\* The peer a frame is for validates it, and acknowledges it when it is valid.
Receive(m, verdict) ==
    /\ IF verdict = "Valid"
       THEN last' = [last EXCEPT ![m.to] = m.epoch] /\ acks' = acks \cup {<<m.to, m.epoch>>}
       ELSE UNCHANGED <<last, acks>>
    /\ UNCHANGED <<side, chain_vars, registry_vars, dispatched, net, tracker>>

Validate(m) == m \in net /\ Receive(m, Verdict(m, last[m.to]))

\* update(peer, acked, current): the entry is replaced whatever it held.
TrackAck ==
    /\ \E a \in acks :
          tracker' = [p \in DOMAIN tracker \cup {a[1]} |->
                        IF p = a[1] THEN [acked |-> a[2], current |-> CurrentEpoch]
                        ELSE tracker[p]]
    /\ UNCHANGED <<side, chain_vars, registry_vars, dispatched, net, last, acks>>

\* classify
SyncState(e) ==
    IF e.acked = e.current THEN "Synced"
    ELSE IF e.acked < e.current THEN "Lagging" ELSE "Diverged"

-----------------------------------------------------------------------------
(* The gossip mirrors, file by file. *)

GossipLedgerAppend == LedgerAppend
GossipCertify == Certify
GossipAdmitOrEvict == Admit \/ Evict
gossip_encode_frame(seal) == encode_frame(seal)
GossipDispatch ==
    /\ Len(dispatched) < Len(seals)
    /\ DispatchFrame(gossip_encode_frame(NextSeal))
GossipVerdict(frame, previous) == Verdict(frame, previous)
GossipValidate(m) == m \in net /\ Receive(m, GossipVerdict(m, last[m.to]))
GossipSyncState(e) == SyncState(e)
GossipTrackAck == TrackAck

MaxEpochs == Max({ Bound[s].epochs : s \in Sides })
Frames == [to : Peers, epoch : 1..MaxEpochs, sound : BOOLEAN]

CompactionStep ==
    \/ LedgerAppend \/ LedgerTamper \/ Certify \/ Admit \/ Evict \/ Dispatch
    \/ (\E m \in Frames : Validate(m)) \/ TrackAck \/ Lose \/ Corrupt

GossipStep ==
    \/ GossipLedgerAppend \/ LedgerTamper \/ GossipCertify \/ GossipAdmitOrEvict
    \/ GossipDispatch \/ (\E m \in Frames : GossipValidate(m))
    \/ GossipTrackAck \/ Lose \/ Corrupt

Next ==
    \/ side = "compaction" /\ CompactionStep
    \/ side = "gossip" /\ GossipStep

\* The validator is called for every frame that arrives; the rest is the
\* callers' choice and unfair.
Fairness ==
    \A m \in Frames : WF_vars(IF side = "gossip" THEN GossipValidate(m) ELSE Validate(m))

Spec == Init /\ [][Next]_vars /\ Fairness

-----------------------------------------------------------------------------
(* Correctness *)

\* Every dispatch reaches exactly the peers that were admitted at that moment:
\* the replay of the registry's events never disagrees with its map
\* (compaction_gossip_dispatcher.rs: "delivered true if peer was in registry
\* at dispatch time").
DispatchReachesAdmitted ==
    /\ ReplayedPeers = registry
    /\ \A i \in DOMAIN dispatched : dispatched[i].delivered_count = dispatched[i].peer_count

\* From entry i to entry k every link is to the entry as append had written it:
\* none was changed before the one that follows it was written.
LinkedAsWritten(i, k) == \A j \in i..(k - 1) : written[j + 1].prev = written[j].hash

\* What a seal tells: a window that nobody touched always gets a valid one, and
\* in a valid one every entry that has the hash append gave it vouches for all
\* before it, which are as written.  So the terminal hash decides: where it is
\* the one append returned, the whole window is as written, and whoever changes
\* an entry and still gets a valid seal has made every later hash, and that one,
\* another.  The valid flag alone does not tell: it is TRUE as well when the
\* entries after the changed one are linked and hashed again.
SealTold(seal) ==
    LET a == seal.window[1]
        b == seal.window[2]
    IN  /\ (\A i \in a..b : ledger[i] = written[i]) /\ LinkedAsWritten(a, b)
             => seal.chains_valid
        /\ seal.chains_valid =>
             \A i, k \in a..b :
               (i <= k /\ ledger[k].hash = written[k].hash /\ LinkedAsWritten(i, k))
                 => ledger[i] = written[i]
        /\ seal.terminal_hash = ledger[b].hash

SealTellsTampering ==
    [][seals' # seals => SealTold(seals'[Len(seals')])]_vars

\* However frames and acknowledgements are lost, repeated, reordered or
\* corrupted, a peer accepts and the tracker learns only epochs that some seal
\* certified and somebody dispatched, and a peer is taken for diverged, which
\* would mean that it acknowledged an epoch the ledger does not have, only when
\* a seal named such an epoch, read from an entry whose epoch was rewritten.
SyncStateOf(e) == IF side = "gossip" THEN GossipSyncState(e) ELSE SyncState(e)
NamedBeyond ==
    { seals[i].last : i \in { j \in DOMAIN seals : seals[j].last > seals[j].window[2] } }
PeersTrustOnlySeals ==
    LET sealed == { dispatched[i].epoch_end : i \in DOMAIN dispatched }
    IN  /\ \A p \in Peers : last[p] \in sealed \cup {0}
        /\ \A p \in DOMAIN tracker :
              /\ tracker[p].acked \in sealed
              /\ SyncStateOf(tracker[p]) = "Diverged" => tracker[p].acked \in NamedBeyond

\* A sound frame that stays in the network brings its peer to its epoch at
\* last, even when earlier frames were lost or come later.
PeerCatchesUp ==
    \A p \in Peers, e \in 1..MaxEpochs :
        LET frame == [to |-> p, epoch |-> e, sound |-> TRUE]
        IN  frame \in net ~> (frame \notin net \/ last[p] >= e)
=============================================================================
