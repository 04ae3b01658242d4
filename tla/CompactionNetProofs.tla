------------------------- MODULE CompactionNetProofs -------------------------
(***************************************************************************)
(* Proofs about CompactionNet for any set of peers and any bounds, on both *)
(* of its sides.  The invariant has three parts that do not need each      *)
(* other's details: the registry and its event log, how append wrote the   *)
(* entries of the ledger, and where the epochs that travel come from.      *)
(***************************************************************************)
EXTENDS CompactionNet, SequenceTheorems, FiniteSetTheorems, NaturalsInduction,
        WellFoundedInduction, TLAPS

\* The registry is finite, its replay gives it back, and every dispatch found
\* as many peers in the replay as in the map.
RegistryOK ==
    /\ registry \subseteq Peers /\ IsFiniteSet(registry)
    /\ events \in Seq(BOOLEAN \X Peers)
    /\ dispatched \in Seq([epoch_end : Nat, peer_count : Nat, delivered_count : Nat])
    /\ DispatchReachesAdmitted

\* A sequence whose elements have no type.
IsSeq(s) == s \in Seq({ s[i] : i \in DOMAIN s })

\* Every seal names an epoch, and its window was one of the ledger.
SealsOK ==
    /\ IsSeq(seals)
    /\ \A i \in DOMAIN seals : /\ seals[i].last \in Nat /\ seals[i].window[2] \in Nat
                              /\ seals[i].window[2] <= Len(ledger)

\* Every epoch a sound frame, a peer, an acknowledgement or the tracker holds
\* was dispatched, and the tracker's idea of the ledger is not behind it unless
\* a seal named it beyond its place.
Dispatched == { dispatched[i].epoch_end : i \in DOMAIN dispatched }
EpochsOK ==
    /\ \A e \in Dispatched : e <= Len(ledger) \/ e \in NamedBeyond
    /\ last \in [Peers -> Dispatched \cup {0}]
    /\ net \subseteq [to : Peers, epoch : Nat, sound : BOOLEAN]
    /\ \A m \in net : m.sound => m.epoch \in Dispatched
    /\ acks \subseteq Peers \X Dispatched
    /\ \A p \in DOMAIN tracker :
          /\ tracker[p].acked \in Dispatched /\ tracker[p].current \in Nat
          /\ tracker[p].acked <= tracker[p].current \/ tracker[p].acked \in NamedBeyond

\* The entry of epoch i as append writes it after one with the hash prev.
Fresh(i, prev) ==
    [data |-> <<i, 0>>, prev |-> prev, hash |-> Sha256(prev, <<i, 0>>, Covered)]

\* The ledger has an entry for each that was written, whatever became of it.
IsEntry(e) ==
    e.data \in Nat \X Nat /\ e = [data |-> e.data, prev |-> e.prev, hash |-> e.hash]
LedgerOK ==
    /\ IsSeq(ledger) /\ IsSeq(written) /\ Len(written) = Len(ledger)
    /\ \A i \in DOMAIN ledger :
          IsEntry(ledger[i]) /\ written[i] = Fresh(i, written[i].prev)

\* The inductive invariant.
IInv == RegistryOK /\ SealsOK /\ EpochsOK /\ LedgerOK

-----------------------------------------------------------------------------
(* Sequences whose elements have no type. *)

\* Such a sequence has a length and elements up to it.
LEMMA SeqFacts ==
  ASSUME NEW s, IsSeq(s)
  PROVE  Len(s) \in Nat /\ DOMAIN s = 1..Len(s)
  BY LenProperties DEF IsSeq

\* So has the sequence with one more element.
LEMMA SeqAppend ==
  ASSUME NEW s, IsSeq(s), NEW e
  PROVE  /\ IsSeq(Append(s, e))
         /\ Len(Append(s, e)) = Len(s) + 1
         /\ DOMAIN Append(s, e) = 1..(Len(s) + 1)
         /\ \A i \in 1..Len(s) : Append(s, e)[i] = s[i]
         /\ Append(s, e)[Len(s) + 1] = e
  <1> DEFINE R == { s[i] : i \in DOMAIN s } \cup {e}
             a == Append(s, e)
  <1>1. s \in Seq(R)
    BY SeqMonotonic DEF IsSeq
  <1>2. /\ a \in Seq(R)
        /\ Len(a) = Len(s) + 1
        /\ \A i \in 1..Len(s) : a[i] = s[i]
        /\ a[Len(s) + 1] = e
    BY <1>1, AppendProperties
  <1>3. Len(s) \in Nat /\ DOMAIN a = 1..(Len(s) + 1)
    BY <1>1, <1>2, LenProperties
  <1>4. a \in Seq({ a[i] : i \in DOMAIN a })
    <2> HIDE DEF a
    <2>1. a \in [1..(Len(s) + 1) -> { a[i] : i \in DOMAIN a }]
      BY <1>2, <1>3, LenProperties
    <2>2. QED
      BY <2>1, <1>3, SeqDef
  <1>5. QED
    BY <1>2, <1>3, <1>4 DEF IsSeq

\* A function on the same positions is a sequence of the same length.
LEMMA SeqSameDomain ==
  ASSUME NEW s, IsSeq(s), NEW t, DOMAIN t = DOMAIN s, t = [i \in DOMAIN s |-> t[i]]
  PROVE  IsSeq(t) /\ Len(t) = Len(s)
  <1>1. Len(s) \in Nat /\ DOMAIN t = 1..Len(s)
    BY SeqFacts
  <1>2. t \in [1..Len(s) -> { t[i] : i \in DOMAIN t }]
    BY <1>1
  <1>3. t \in Seq({ t[i] : i \in DOMAIN t })
    BY <1>1, <1>2, SeqDef
  <1>4. QED
    BY <1>1, <1>3, LenProperties DEF IsSeq

-----------------------------------------------------------------------------
(* The actions. *)

\* The gossip files' actions are those of their twins.
LEMMA NextCases ==
  ASSUME Next
  PROVE  \/ LedgerAppend \/ LedgerTamper \/ Certify \/ Admit \/ Evict \/ Dispatch
         \/ (\E m \in Frames : Validate(m)) \/ TrackAck \/ Lose \/ Corrupt
  BY DEF Next, CompactionStep, GossipStep, GossipLedgerAppend, GossipCertify,
         GossipAdmitOrEvict, GossipDispatch, gossip_encode_frame, Dispatch,
         GossipValidate, GossipVerdict, Validate, GossipTrackAck

\* A dispatch sends the epoch of a seal to the registered peers and counts them.
LEMMA DispatchStep ==
  ASSUME RegistryOK, SealsOK, LedgerOK, Dispatch
  PROVE  \E e \in Nat :
           /\ e <= Len(ledger) \/ e \in NamedBeyond
           /\ dispatched' = Append(dispatched,
                [epoch_end |-> e, peer_count |-> Cardinality(registry),
                 delivered_count |-> Cardinality(registry)])
           /\ net' = net \cup { [to |-> p, epoch |-> e, sound |-> TRUE] : p \in registry }
           /\ UNCHANGED <<side, chain_vars, registry_vars, last, acks, tracker>>
  <1>1. Len(dispatched) + 1 \in DOMAIN seals /\ Len(ledger) \in Nat
    BY LenProperties, SeqFacts DEF Dispatch, RegistryOK, SealsOK, LedgerOK
  <1>2. /\ NextSeal.last \in Nat
        /\ NextSeal.last <= Len(ledger) \/ NextSeal.last \in NamedBeyond
    BY <1>1 DEF SealsOK, NextSeal, NamedBeyond
  <1>3. (IF registry = {} THEN {} ELSE ReplayedPeers) = registry
    BY DEF RegistryOK, DispatchReachesAdmitted
  <1> DEFINE f == encode_frame(NextSeal)
  <1>4. f.epoch = NextSeal.last /\ f.sound = TRUE
    BY DEF encode_frame
  <1>5. DispatchFrame(f)
    BY DEF Dispatch
  <1> HIDE DEF f
  <1>6. /\ dispatched' = Append(dispatched,
             [epoch_end |-> f.epoch, peer_count |-> Cardinality(registry),
              delivered_count |-> Cardinality(registry)])
        /\ net' = net \cup { [to |-> p, epoch |-> f.epoch, sound |-> f.sound] : p \in registry }
        /\ UNCHANGED <<side, chain_vars, registry_vars, last, acks, tracker>>
    BY <1>3, <1>5, Zenon DEF DispatchFrame
  <1>7. QED
    BY <1>2, <1>4, <1>6

-----------------------------------------------------------------------------
(* The registry and its replay. *)

\* One more event puts its peer in or out of the replay and nobody else.
LEMMA ReplayAppend ==
  ASSUME NEW n \in Nat, NEW b \in BOOLEAN, NEW p \in Peers,
         Len(events) = n, DOMAIN events = 1..n,
         Len(events') = n + 1, DOMAIN events' = 1..(n + 1),
         \A i \in 1..n : events'[i] = events[i],
         events'[n + 1] = <<b, p>>
  PROVE  ReplayedPeers' = IF b THEN ReplayedPeers \cup {p} ELSE ReplayedPeers \ {p}
  <1>1. ASSUME NEW q \in Peers \ {p}
        PROVE  q \in ReplayedPeers' <=> q \in ReplayedPeers
    <2>1. ASSUME NEW i \in DOMAIN events', events'[i] = <<TRUE, q>>,
                 \A j \in (i + 1)..(n + 1) : events'[j][2] # q
          PROVE  q \in ReplayedPeers
      <3>1. i \in DOMAIN events
        BY <1>1, <2>1
      <3>2. events[i] = <<TRUE, q>>
        BY <2>1, <3>1
      <3>3. ASSUME NEW j \in (i + 1)..n
            PROVE  events[j][2] # q
        <4>1. j \in 1..n /\ j \in (i + 1)..(n + 1)
          BY <3>1
        <4>2. events'[j] = events[j]
          BY <4>1
        <4>3. QED
          BY <2>1, <4>1, <4>2
      <3>4. QED
        BY <3>1, <3>2, <3>3 DEF ReplayedPeers
    <2>2. ASSUME NEW i \in DOMAIN events, events[i] = <<TRUE, q>>,
                 \A j \in (i + 1)..n : events[j][2] # q
          PROVE  q \in ReplayedPeers'
      <3>1. i \in DOMAIN events' /\ events'[i] = <<TRUE, q>>
        <4>1. i \in 1..n
          OBVIOUS
        <4>2. events'[i] = events[i] /\ i \in 1..(n + 1)
          BY <4>1
        <4>3. QED
          BY <2>2, <4>2
      <3>2. ASSUME NEW j \in (i + 1)..(n + 1)
            PROVE  events'[j][2] # q
        <4>1. \/ j \in (i + 1)..n /\ j \in 1..n
              \/ j = n + 1
          <5>1. i \in Nat /\ i >= 1
            BY <2>2
          <5>2. QED
            BY <5>1
        <4>2. j \in 1..n => events'[j] = events[j]
          OBVIOUS
        <4>3. events'[n + 1][2] = p
          OBVIOUS
        <4>4. QED
          BY <1>1, <2>2, <4>1, <4>2, <4>3
      <3>3. QED
        BY <3>1, <3>2 DEF ReplayedPeers
    <2>3. QED
      BY <2>1, <2>2 DEF ReplayedPeers
  <1>2. p \in ReplayedPeers' <=> b
    <2>1. ASSUME b PROVE p \in ReplayedPeers'
      <3>1. /\ n + 1 \in DOMAIN events'
            /\ events'[n + 1] = <<TRUE, p>>
        <4>1. <<b, p>> = <<TRUE, p>>
          BY <2>1, Zenon
        <4>2. QED
          BY <4>1
      <3>2. (n + 1 + 1)..(n + 1) = {}
        OBVIOUS
      <3>3. QED
        BY <3>1, <3>2 DEF ReplayedPeers
    <2>2. ASSUME ~b, NEW i \in DOMAIN events', events'[i] = <<TRUE, p>>,
                 \A j \in (i + 1)..(n + 1) : events'[j][2] # p
          PROVE  FALSE
      <3>1. i # n + 1
        <4>1. <<b, p>> # <<TRUE, p>>
          BY <2>2
        <4>2. QED
          BY <2>2, <4>1
      <3>2. n + 1 \in (i + 1)..(n + 1)
        BY <3>1
      <3>3. QED
        BY <2>2, <3>2
    <2>3. QED
      BY <2>1, <2>2 DEF ReplayedPeers
  <1>3. ReplayedPeers \subseteq Peers /\ ReplayedPeers' \subseteq Peers
    BY DEF ReplayedPeers
  <1>4. QED
    BY <1>1, <1>2, <1>3

\* Every step keeps the replay of the events in agreement with the registry.
LEMMA NextRegistryOK ==
  ASSUME RegistryOK, SealsOK, LedgerOK, [Next]_vars
  PROVE  RegistryOK'
  <1>1. ASSUME UNCHANGED <<registry_vars, dispatched>>
        PROVE  RegistryOK'
    BY <1>1 DEF RegistryOK, registry_vars, DispatchReachesAdmitted, ReplayedPeers
  <1>2. CASE \/ LedgerAppend \/ LedgerTamper \/ Certify \/ (\E m \in Frames : Validate(m))
             \/ TrackAck \/ Lose \/ Corrupt
    BY <1>1, <1>2 DEF LedgerAppend, LedgerTamper, Certify, Validate, Receive, TrackAck,
                      Lose, Corrupt
  <1>3. ASSUME NEW b \in BOOLEAN, NEW p \in Peers, events' = Append(events, <<b, p>>),
               registry' = IF b THEN registry \cup {p} ELSE registry \ {p},
               dispatched' = dispatched
        PROVE  RegistryOK'
    <2>1. /\ events' \in Seq(BOOLEAN \X Peers)
          /\ ReplayedPeers' = IF b THEN ReplayedPeers \cup {p} ELSE ReplayedPeers \ {p}
      <3>1. <<b, p>> \in BOOLEAN \X Peers /\ events \in Seq(BOOLEAN \X Peers)
        BY DEF RegistryOK
      <3>2. /\ events' \in Seq(BOOLEAN \X Peers)
            /\ Len(events') = Len(events) + 1
            /\ \A i \in 1..Len(events) : events'[i] = events[i]
            /\ events'[Len(events) + 1] = <<b, p>>
        BY <1>3, <3>1, AppendProperties
      <3>3. /\ Len(events) \in Nat /\ DOMAIN events = 1..Len(events)
            /\ DOMAIN events' = 1..(Len(events) + 1)
        BY <3>1, <3>2, LenProperties
      <3>4. QED
        BY <3>2, <3>3, ReplayAppend
    <2>2. IsFiniteSet(registry') /\ registry' \subseteq Peers
      BY <1>3, FS_AddElement, FS_RemoveElement DEF RegistryOK
    <2>3. QED
      BY <1>3, <2>1, <2>2 DEF RegistryOK, DispatchReachesAdmitted
  <1>4. CASE Admit
    BY <1>3, <1>4 DEF Admit
  <1>5. CASE Evict
    BY <1>3, <1>5 DEF Evict, RegistryOK
  <1>6. CASE Dispatch
    <2>1. PICK e \in Nat :
             /\ dispatched' = Append(dispatched,
                  [epoch_end |-> e, peer_count |-> Cardinality(registry),
                   delivered_count |-> Cardinality(registry)])
             /\ UNCHANGED registry_vars
      BY <1>6, DispatchStep
    <2> DEFINE r == [epoch_end |-> e, peer_count |-> Cardinality(registry),
                     delivered_count |-> Cardinality(registry)]
               R == [epoch_end : Nat, peer_count : Nat, delivered_count : Nat]
    <2>2. r \in R /\ r.delivered_count = r.peer_count
      BY FS_CardinalityType DEF RegistryOK
    <2>3. dispatched' = Append(dispatched, r) /\ dispatched \in Seq(R)
      BY <2>1 DEF RegistryOK
    <2> HIDE DEF r, R
    <2>4. /\ dispatched' \in Seq(R)
          /\ Len(dispatched') = Len(dispatched) + 1
          /\ \A i \in 1..Len(dispatched) : dispatched'[i] = dispatched[i]
          /\ dispatched'[Len(dispatched) + 1] = r
      BY <2>2, <2>3, AppendProperties
    <2>5. /\ Len(dispatched) \in Nat /\ DOMAIN dispatched = 1..Len(dispatched)
          /\ DOMAIN dispatched' = 1..(Len(dispatched) + 1)
      BY <2>3, <2>4, LenProperties
    <2>6. \A i \in DOMAIN dispatched' :
             dispatched'[i].delivered_count = dispatched'[i].peer_count
      <3>1. \A i \in 1..Len(dispatched) : dispatched[i].delivered_count = dispatched[i].peer_count
        BY <2>5 DEF RegistryOK, DispatchReachesAdmitted
      <3>2. \A i \in 1..(Len(dispatched) + 1) : i \in 1..Len(dispatched) \/ i = Len(dispatched) + 1
        BY <2>5
      <3>3. QED
        BY <2>2, <2>4, <2>5, <3>1, <3>2
    <2>7. ReplayedPeers' = registry'
      BY <2>1 DEF RegistryOK, DispatchReachesAdmitted, ReplayedPeers, registry_vars
    <2>8. QED
      BY <2>1, <2>4, <2>6, <2>7 DEF RegistryOK, DispatchReachesAdmitted, registry_vars, R
  <1>7. CASE UNCHANGED vars
    BY <1>1, <1>7 DEF vars
  <1>8. QED
    BY <1>2, <1>4, <1>5, <1>6, <1>7, NextCases

-----------------------------------------------------------------------------
(* The ledger and the changes made to it. *)

\* append writes one entry, chained to the last one, and touches no other.
LEMMA AppendStep ==
  ASSUME IsSeq(ledger), LedgerAppend
  PROVE  /\ ledger' = Append(ledger, Fresh(Len(ledger) + 1, LastHash(ledger)))
         /\ written' = Append(written, Fresh(Len(ledger) + 1, LastHash(ledger)))
         /\ UNCHANGED <<seals, registry_vars, dispatched, net_vars>>
  <1>1. /\ ledger' = Append(ledger, Fresh(Len(ledger) + 1, LastHash(ledger)))
        /\ written' = Append(written, ledger'[Len(ledger) + 1])
        /\ UNCHANGED <<seals, registry_vars, dispatched, net_vars>>
    BY DEF LedgerAppend, ChainPush, Fresh
  <1>2. ledger'[Len(ledger) + 1] = Fresh(Len(ledger) + 1, LastHash(ledger))
    BY <1>1, SeqAppend
  <1>3. QED
    BY <1>1, <1>2

\* A change replaces one entry by another.
LEMMA TamperStep ==
  ASSUME LedgerOK, LedgerTamper
  PROVE  /\ IsSeq(ledger') /\ Len(ledger') = Len(ledger) /\ DOMAIN ledger' = DOMAIN ledger
         /\ \A j \in DOMAIN ledger : ledger'[j] = ledger[j] \/ IsEntry(ledger'[j])
         /\ UNCHANGED <<written, seals, registry_vars, dispatched, net_vars>>
  <1>1. PICK i \in DOMAIN ledger, epoch \in 1..Bound[side].epochs, contents \in {0, 1} :
          \E prev \in {ledger[i].prev, PrevStored(ledger, i), Flipped} :
          \E hash \in {ledger[i].hash, Sha256(prev, <<epoch, contents>>, Covered), Flipped} :
            ledger' = [ledger EXCEPT ![i] =
                         [data |-> <<epoch, contents>>, prev |-> prev, hash |-> hash]]
    BY Zenon DEF LedgerTamper
  <1>2. PICK prev \in {ledger[i].prev, PrevStored(ledger, i), Flipped} :
          \E hash \in {ledger[i].hash, Sha256(prev, <<epoch, contents>>, Covered), Flipped} :
            ledger' = [ledger EXCEPT ![i] =
                         [data |-> <<epoch, contents>>, prev |-> prev, hash |-> hash]]
    BY <1>1
  <1>3. PICK hash \in {ledger[i].hash, Sha256(prev, <<epoch, contents>>, Covered), Flipped} :
            ledger' = [ledger EXCEPT ![i] =
                         [data |-> <<epoch, contents>>, prev |-> prev, hash |-> hash]]
    BY <1>2
  <1> DEFINE e == [data |-> <<epoch, contents>>, prev |-> prev, hash |-> hash]
  <1>4. IsEntry(e)
    BY DEF IsEntry
  <1>5. ledger' = [ledger EXCEPT ![i] = e]
    BY <1>3
  <1> HIDE DEF e
  <1>6. /\ DOMAIN ledger' = DOMAIN ledger
        /\ ledger' = [j \in DOMAIN ledger |-> ledger'[j]]
        /\ \A j \in DOMAIN ledger : ledger'[j] = ledger[j] \/ IsEntry(ledger'[j])
    BY <1>4, <1>5
  <1>7. IsSeq(ledger') /\ Len(ledger') = Len(ledger)
    BY <1>6, SeqSameDomain DEF LedgerOK
  <1>8. QED
    BY <1>6, <1>7 DEF LedgerTamper

\* Every other step leaves the ledger and what was written to it alone.
LEMMA LedgerUnchanged ==
  ASSUME [Next]_vars, ~LedgerAppend, ~LedgerTamper
  PROVE  UNCHANGED <<ledger, written>>
  <1>1. CASE UNCHANGED vars
    BY <1>1 DEF vars, chain_vars
  <1>2. CASE Next
    BY <1>2, NextCases DEF Certify, Admit, Evict, Dispatch, DispatchFrame, Validate,
                           Receive, TrackAck, Lose, Corrupt, chain_vars
  <1>3. QED
    BY <1>1, <1>2

\* Every step keeps an entry for each that was written.
LEMMA NextLedgerOK ==
  ASSUME LedgerOK, [Next]_vars
  PROVE  LedgerOK'
  <1> DEFINE N == Len(ledger)
  <1>1. /\ N \in Nat /\ DOMAIN ledger = 1..N /\ DOMAIN written = 1..N
        /\ IsSeq(ledger) /\ IsSeq(written) /\ Len(written) = N
    BY SeqFacts DEF LedgerOK
  <1>2. CASE LedgerAppend
    <2> DEFINE e == Fresh(N + 1, LastHash(ledger))
    <2>1. ledger' = Append(ledger, e) /\ written' = Append(written, e)
      BY <1>1, <1>2, AppendStep
    <2>2. IsEntry(e) /\ e = Fresh(N + 1, e.prev)
      BY <1>1 DEF Fresh, IsEntry
    <2> HIDE DEF e
    <2>3. /\ IsSeq(ledger') /\ Len(ledger') = N + 1 /\ DOMAIN ledger' = 1..(N + 1)
          /\ \A i \in 1..N : ledger'[i] = ledger[i]
          /\ ledger'[N + 1] = e
      BY <1>1, <2>1, SeqAppend
    <2>4. /\ IsSeq(written') /\ Len(written') = N + 1
          /\ \A i \in 1..N : written'[i] = written[i]
          /\ written'[N + 1] = e
      BY <1>1, <2>1, SeqAppend
    <2>5. ASSUME NEW i \in 1..(N + 1)
          PROVE  IsEntry(ledger'[i]) /\ written'[i] = Fresh(i, written'[i].prev)
      <3>1. CASE i \in 1..N
        BY <1>1, <2>3, <2>4, <3>1 DEF LedgerOK
      <3>2. CASE i = N + 1
        BY <2>2, <2>3, <2>4, <3>2
      <3>3. QED
        BY <1>1, <3>1, <3>2
    <2>6. QED
      BY <2>3, <2>4, <2>5 DEF LedgerOK
  <1>3. CASE LedgerTamper
    <2>1. /\ IsSeq(ledger') /\ Len(ledger') = Len(ledger) /\ DOMAIN ledger' = DOMAIN ledger
          /\ \A j \in DOMAIN ledger : ledger'[j] = ledger[j] \/ IsEntry(ledger'[j])
          /\ written' = written
      BY <1>3, TamperStep
    <2>2. \A j \in DOMAIN ledger' : IsEntry(ledger'[j]) /\ written'[j] = Fresh(j, written'[j].prev)
      BY <2>1 DEF LedgerOK
    <2>3. QED
      BY <1>1, <2>1, <2>2 DEF LedgerOK
  <1>4. CASE ~LedgerAppend /\ ~LedgerTamper
    BY <1>4, LedgerUnchanged DEF LedgerOK
  <1>5. QED
    BY <1>2, <1>3, <1>4

-----------------------------------------------------------------------------
(* The epochs that travel. *)

\* The ledger never gets shorter.
LEMMA LedgerGrows ==
  ASSUME LedgerOK, [Next]_vars
  PROVE  Len(ledger) \in Nat /\ Len(ledger') \in Nat /\ Len(ledger) <= Len(ledger')
  <1>1. Len(ledger) \in Nat
    BY SeqFacts DEF LedgerOK
  <1>2. CASE LedgerAppend
    BY <1>1, <1>2, AppendStep, SeqAppend DEF LedgerOK
  <1>3. CASE LedgerTamper
    <2>1. Len(ledger') = Len(ledger)
      BY <1>3, TamperStep
    <2>2. QED
      BY <1>1, <2>1
  <1>4. CASE ~LedgerAppend /\ ~LedgerTamper
    BY <1>1, <1>4, LedgerUnchanged
  <1>5. QED
    BY <1>2, <1>3, <1>4

\* certify adds one seal, with the epoch of the last entry of its window.
LEMMA CertifyStep ==
  ASSUME LedgerOK, SealsOK, Certify
  PROVE  \E a \in DOMAIN ledger, b \in DOMAIN ledger : \E seal :
           /\ a <= b
           /\ seal = [first |-> ledger[a].data[1], last |-> ledger[b].data[1],
                      chains_valid |-> WindowIntact(SubSeq(ledger, a, b)),
                      terminal_hash |-> ledger[b].hash, window |-> <<a, b>>]
           /\ seals' = Append(seals, seal)
           /\ seal.last \in Nat /\ seal.window = <<a, b>> /\ b \in 1..Len(ledger)
           /\ UNCHANGED <<ledger, written>>
  <1>1. PICK a \in DOMAIN ledger, b \in DOMAIN ledger :
           /\ a <= b
           /\ seals' = Append(seals,
                [first |-> ledger[a].data[1], last |-> ledger[b].data[1],
                 chains_valid |-> WindowIntact(SubSeq(ledger, a, b)),
                 terminal_hash |-> ledger[b].hash, window |-> <<a, b>>])
    BY DEF Certify
  <1>2. ledger[b].data[1] \in Nat /\ b \in 1..Len(ledger)
    BY SeqFacts DEF LedgerOK, IsEntry
  <1>3. QED
    BY <1>1, <1>2 DEF Certify

\* Every step keeps the seals, and the windows of all within the ledger.
LEMMA NextSealsOK ==
  ASSUME LedgerOK, SealsOK, [Next]_vars
  PROVE  /\ SealsOK'
         /\ NamedBeyond \subseteq NamedBeyond'
  <1>1. Len(ledger) \in Nat /\ Len(ledger') \in Nat /\ Len(ledger) <= Len(ledger')
    BY LedgerGrows
  <1>2. IsSeq(seals) /\ Len(seals) \in Nat /\ DOMAIN seals = 1..Len(seals)
    BY SeqFacts DEF SealsOK
  <1>3. CASE seals' = seals
    BY <1>1, <1>2, <1>3 DEF SealsOK, NamedBeyond
  <1>4. CASE Certify
    <2>1. PICK seal :
            /\ seals' = Append(seals, seal)
            /\ seal.last \in Nat /\ seal.window[2] \in 1..Len(ledger)
            /\ ledger' = ledger
      BY <1>4, CertifyStep
    <2>2. /\ IsSeq(seals') /\ DOMAIN seals' = 1..(Len(seals) + 1)
          /\ \A i \in 1..Len(seals) : seals'[i] = seals[i]
          /\ seals'[Len(seals) + 1] = seal
      BY <1>2, <2>1, SeqAppend
    <2>3. \A i : i \in 1..(Len(seals) + 1) <=> i \in 1..Len(seals) \/ i = Len(seals) + 1
      BY <1>2
    <2>4. seal.window[2] \in Nat /\ seal.window[2] <= Len(ledger)
      BY <1>1, <2>1
    <2>5. SealsOK'
      BY <1>2, <2>1, <2>2, <2>3, <2>4 DEF SealsOK
    <2>6. QED
      BY <1>2, <2>2, <2>3, <2>5 DEF NamedBeyond
  <1>5. CASE \/ LedgerAppend \/ LedgerTamper \/ Admit \/ Evict \/ Dispatch
             \/ (\E m \in Frames : Validate(m)) \/ TrackAck \/ Lose \/ Corrupt
             \/ UNCHANGED vars
    BY <1>3, <1>5 DEF LedgerAppend, LedgerTamper, Admit, Evict, Dispatch, DispatchFrame,
       Validate, Receive, TrackAck, Lose, Corrupt, chain_vars, vars
  <1>6. QED
    BY <1>4, <1>5, NextCases

\* Every step lets only dispatched epochs travel.
LEMMA NextEpochsOK ==
  ASSUME RegistryOK, SealsOK, LedgerOK, EpochsOK, [Next]_vars
  PROVE  EpochsOK'
  <1>1. Len(ledger) \in Nat /\ Len(ledger') \in Nat /\ Len(ledger) <= Len(ledger')
    BY LedgerGrows
  <1>2. /\ Len(dispatched) \in Nat /\ DOMAIN dispatched = 1..Len(dispatched)
        /\ Dispatched \subseteq Nat
    <2> DEFINE R == [epoch_end : Nat, peer_count : Nat, delivered_count : Nat]
    <2>1. dispatched \in Seq(R)
      BY DEF RegistryOK
    <2>2. \A i \in DOMAIN dispatched : dispatched[i] \in R
      BY <2>1, LenProperties, ElementOfSeq
    <2>3. QED
      BY <2>1, <2>2, LenProperties DEF Dispatched
  <1>3. NamedBeyond \subseteq NamedBeyond'
    BY NextSealsOK
  <1>told. \A e \in Dispatched : e <= Len(ledger') \/ e \in NamedBeyond'
    BY <1>1, <1>2, <1>3 DEF EpochsOK
  <1>kept. \A p \in DOMAIN tracker :
             /\ tracker[p].acked \in Dispatched /\ tracker[p].current \in Nat
             /\ tracker[p].acked <= tracker[p].current \/ tracker[p].acked \in NamedBeyond'
    BY <1>3 DEF EpochsOK
  <1>4. CASE UNCHANGED <<dispatched, net_vars>>
    BY <1>told, <1>kept, <1>4 DEF EpochsOK, Dispatched, net_vars
  <1>5. CASE \/ LedgerAppend \/ LedgerTamper \/ Certify \/ Admit \/ Evict \/ UNCHANGED vars
    BY <1>4, <1>5 DEF LedgerAppend, LedgerTamper, Certify, Admit, Evict, vars
  <1>6. CASE Dispatch
    <2>1. PICK e \in Nat :
             /\ e <= Len(ledger) \/ e \in NamedBeyond
             /\ dispatched' = Append(dispatched,
                  [epoch_end |-> e, peer_count |-> Cardinality(registry),
                   delivered_count |-> Cardinality(registry)])
             /\ net' = net \cup { [to |-> p, epoch |-> e, sound |-> TRUE] : p \in registry }
             /\ UNCHANGED <<chain_vars, last, acks, tracker>>
      BY <1>6, DispatchStep
    <2> DEFINE r == [epoch_end |-> e, peer_count |-> Cardinality(registry),
                     delivered_count |-> Cardinality(registry)]
               R == [epoch_end : Nat, peer_count : Nat, delivered_count : Nat]
    <2>2. r \in R /\ r.epoch_end = e
      BY FS_CardinalityType DEF RegistryOK
    <2>3. dispatched' = Append(dispatched, r) /\ dispatched \in Seq(R)
      BY <2>1 DEF RegistryOK
    <2> HIDE DEF r, R
    <2>4. /\ DOMAIN dispatched' = 1..(Len(dispatched) + 1)
          /\ \A i \in 1..Len(dispatched) : dispatched'[i] = dispatched[i]
          /\ dispatched'[Len(dispatched) + 1] = r
      BY <2>2, <2>3, AppendProperties, LenProperties
    <2>5. \A i : i \in 1..(Len(dispatched) + 1)
                   <=> i \in 1..Len(dispatched) \/ i = Len(dispatched) + 1
      BY <1>2
    <2>6. Dispatched' = Dispatched \cup {e}
      BY <1>2, <2>2, <2>4, <2>5 DEF Dispatched
    <2>7. /\ net' \subseteq [to : Peers, epoch : Nat, sound : BOOLEAN]
          /\ \A m \in net' : m.sound => m.epoch \in Dispatched'
      <3>1. \A m \in net : /\ m \in [to : Peers, epoch : Nat, sound : BOOLEAN]
                           /\ m.sound => m.epoch \in Dispatched'
        BY <2>6 DEF EpochsOK
      <3>2. \A p \in registry :
               [to |-> p, epoch |-> e, sound |-> TRUE]
                 \in [to : Peers, epoch : Nat, sound : BOOLEAN]
        BY DEF RegistryOK
      <3>3. ASSUME NEW m \in net' \ net
            PROVE  /\ m \in [to : Peers, epoch : Nat, sound : BOOLEAN]
                   /\ m.epoch = e
        <4>1. PICK p \in registry : m = [to |-> p, epoch |-> e, sound |-> TRUE]
          BY <2>1
        <4>2. QED
          BY <3>2, <4>1
      <3>4. QED
        BY <2>6, <3>1, <3>3
    <2>8. \A x \in Dispatched' : x <= Len(ledger') \/ x \in NamedBeyond'
      BY <1>1, <1>3, <1>told, <2>1, <2>6
    <2>9. /\ last' \in [Peers -> Dispatched' \cup {0}]
          /\ acks' \subseteq Peers \X Dispatched'
      BY <2>1, <2>6 DEF EpochsOK
    <2>10. \A p \in DOMAIN tracker' :
             /\ tracker'[p].acked \in Dispatched' /\ tracker'[p].current \in Nat
             /\ tracker'[p].acked <= tracker'[p].current
                  \/ tracker'[p].acked \in NamedBeyond'
      BY <1>kept, <1>3, <2>1, <2>6
    <2>11. QED
      BY <2>1, <2>7, <2>8, <2>9, <2>10 DEF EpochsOK
  <1>7. ASSUME NEW m \in Frames, Validate(m)
        PROVE  EpochsOK'
    <2>1. m \in net /\ UNCHANGED <<dispatched, net, tracker>> /\ Dispatched' = Dispatched
      BY <1>7 DEF Validate, Receive, Dispatched
    <2>2. CASE Verdict(m, last[m.to]) = "Valid"
      <3>1. m.sound /\ m.to \in Peers /\ m.epoch \in Dispatched
        BY <2>1, <2>2 DEF Verdict, decode, EpochsOK
      <3>2. last' = [last EXCEPT ![m.to] = m.epoch] /\ acks' = acks \cup {<<m.to, m.epoch>>}
        BY <1>7, <2>2 DEF Validate, Receive
      <3>3. QED
        BY <1>told, <1>kept, <2>1, <3>1, <3>2 DEF EpochsOK
    <2>3. CASE Verdict(m, last[m.to]) # "Valid"
      <3>1. UNCHANGED <<last, acks>>
        BY <1>7, <2>3 DEF Validate, Receive
      <3>2. QED
        BY <1>told, <1>kept, <2>1, <3>1 DEF EpochsOK
    <2>4. QED
      BY <2>2, <2>3
  <1>8. CASE TrackAck
    <2>1. PICK a \in acks :
             tracker' = [p \in DOMAIN tracker \cup {a[1]} |->
                           IF p = a[1] THEN [acked |-> a[2], current |-> CurrentEpoch]
                           ELSE tracker[p]]
      BY <1>8 DEF TrackAck
    <2>2. /\ UNCHANGED <<dispatched, net, last, acks>> /\ ledger' = ledger
          /\ Dispatched' = Dispatched
      BY <1>8 DEF TrackAck, chain_vars, Dispatched
    <2>3. /\ a[2] \in Dispatched /\ CurrentEpoch \in Nat
          /\ a[2] <= CurrentEpoch \/ a[2] \in NamedBeyond'
      BY <1>1, <1>2, <1>3 DEF EpochsOK, CurrentEpoch
    <2>4. ASSUME NEW p \in DOMAIN tracker'
          PROVE  /\ tracker'[p].acked \in Dispatched /\ tracker'[p].current \in Nat
                 /\ tracker'[p].acked <= tracker'[p].current
                      \/ tracker'[p].acked \in NamedBeyond'
      <3>1. CASE p = a[1]
        BY <2>1, <2>3, <3>1
      <3>2. CASE p # a[1]
        <4>1. p \in DOMAIN tracker /\ tracker'[p] = tracker[p]
          BY <2>1, <3>2
        <4>2. QED
          BY <1>kept, <4>1
      <3>3. QED
        BY <3>1, <3>2
    <2>5. QED
      BY <1>told, <2>2, <2>4 DEF EpochsOK
  <1>9. CASE Lose
    BY <1>told, <1>kept, <1>9 DEF Lose, EpochsOK, Dispatched
  <1>10. CASE Corrupt
    <2>1. PICK m \in net, e \in 1..Bound[side].epochs :
             net' = (net \ {m}) \cup {[m EXCEPT !.sound = FALSE, !.epoch = e]}
      BY <1>10 DEF Corrupt
    <2>2. /\ UNCHANGED <<dispatched, last, acks, tracker>> /\ ledger' = ledger
          /\ Dispatched' = Dispatched
      BY <1>10 DEF Corrupt, chain_vars, Dispatched
    <2> DEFINE c == [m EXCEPT !.sound = FALSE, !.epoch = e]
    <2>3. c \in [to : Peers, epoch : Nat, sound : BOOLEAN] /\ c.sound = FALSE
      <3>1. m \in [to : Peers, epoch : Nat, sound : BOOLEAN]
        BY DEF EpochsOK
      <3>2. e \in Nat
        OBVIOUS
      <3>3. QED
        BY <3>1, <3>2
    <2>4. /\ net' \subseteq [to : Peers, epoch : Nat, sound : BOOLEAN]
          /\ \A x \in net' : x.sound => x.epoch \in Dispatched
      <3>1. net' = (net \ {m}) \cup {c}
        BY <2>1
      <3> HIDE DEF c
      <3>2. QED
        BY <2>3, <3>1 DEF EpochsOK
    <2>5. QED
      BY <1>told, <1>kept, <2>2, <2>4 DEF EpochsOK
  <1>11. QED
    BY <1>5, <1>6, <1>7, <1>8, <1>9, <1>10, NextCases

-----------------------------------------------------------------------------
(* What a seal says of the changes. *)

\* Entries with equal hashes that fit have equal data and links.
LEMMA HashInjective ==
  ASSUME NEW p, NEW q, NEW d \in Nat \X Nat, NEW e \in Nat \X Nat,
         Sha256(p, d, Covered) = Sha256(q, e, Covered)
  PROVE  p = q /\ d = e
  <1>1. p = q /\ [f \in {1, 2} |-> d[f]] = [f \in {1, 2} |-> e[f]]
    BY DEF Sha256, Covered
  <1>2. /\ [f \in {1, 2} |-> d[f]][1] = d[1] /\ [f \in {1, 2} |-> d[f]][2] = d[2]
        /\ [f \in {1, 2} |-> e[f]][1] = e[1] /\ [f \in {1, 2} |-> e[f]][2] = e[2]
    OBVIOUS
  <1>3. d[1] = e[1] /\ d[2] = e[2]
    BY <1>1, <1>2, Zenon
  <1>4. d = <<d[1], d[2]>> /\ e = <<e[1], e[2]>>
    OBVIOUS
  <1>5. QED
    BY <1>1, <1>3, <1>4

\* The walk of certify over the entries a to b, in terms of the ledger.
LEMMA WindowOfLedger ==
  ASSUME IsSeq(ledger), NEW a \in DOMAIN ledger, NEW b \in DOMAIN ledger, a <= b
  PROVE  WindowIntact(SubSeq(ledger, a, b)) <=>
           /\ \A i \in a..b : ledger[i].hash = Sha256(ledger[i].prev, ledger[i].data, Covered)
           /\ \A i \in a..(b - 1) : ledger[i + 1].prev = ledger[i].hash
  <1> DEFINE w == SubSeq(ledger, a, b)
             R == { ledger[i] : i \in DOMAIN ledger }
             n == b - a + 1
  <1>1. a \in Nat /\ b \in Nat /\ a >= 1 /\ a..b \subseteq DOMAIN ledger
    BY SeqFacts
  <1>2. /\ w \in Seq(R) /\ Len(w) = n
        /\ \A k \in 1..n : w[k] = ledger[a + k - 1]
    <2>1. \A i \in a..b : ledger[i] \in R
      BY <1>1
    <2>2. /\ w \in Seq(R) /\ Len(w) = IF a <= b THEN b - a + 1 ELSE 0
          /\ \A k \in 1..(b - a + 1) : w[k] = ledger[a + k - 1]
      BY <1>1, <2>1, SubSeqProperties, Z3
    <2>3. QED
      BY <2>2
  <1>3. DOMAIN w = 1..n
    BY <1>2, LenProperties
  <1> HIDE DEF w, R
  <1>4. n \in Nat \ {0}
    BY <1>1
  <1>5. ASSUME NEW k \in 1..n
        PROVE  a + k - 1 \in a..b /\ (k # 1 => k - 1 \in 1..n /\ a + k - 2 \in a..(b - 1))
    BY <1>1
  <1>6. ASSUME NEW i \in a..b
        PROVE  i - a + 1 \in 1..n /\ w[i - a + 1] = ledger[i]
    <2>1. i - a + 1 \in 1..n /\ a + (i - a + 1) - 1 = i
      BY <1>1
    <2>2. QED
      BY <1>2, <2>1
  <1>7. ASSUME WindowIntact(w)
        PROVE  /\ \A i \in a..b :
                     ledger[i].hash = Sha256(ledger[i].prev, ledger[i].data, Covered)
               /\ \A i \in a..(b - 1) : ledger[i + 1].prev = ledger[i].hash
    <2>1. \A k \in 1..n : w[k].hash = Sha256(w[k].prev, w[k].data, Covered)
      BY <1>3, <1>7 DEF WindowIntact
    <2>2. \A k \in 1..n : k # 1 => w[k].prev = w[k - 1].hash
      BY <1>3, <1>7 DEF WindowIntact
    <2>3. ASSUME NEW i \in a..(b - 1)
          PROVE  ledger[i + 1].prev = ledger[i].hash
      <3>1. i \in Nat /\ i >= a /\ i \in a..b /\ i + 1 \in a..b
        BY <1>1
      <3> DEFINE k == (i + 1) - a + 1
      <3>2. k \in 1..n /\ k # 1 /\ w[k] = ledger[i + 1] /\ k - 1 = i - a + 1
        <4>1. k \in 1..n /\ w[k] = ledger[i + 1]
          BY <1>6, <3>1
        <4>2. k # 1 /\ k - 1 = i - a + 1
          BY <1>1, <3>1
        <4>3. QED
          BY <4>1, <4>2
      <3> HIDE DEF k
      <3>3. w[k].prev = w[k - 1].hash
        BY <2>2, <3>2
      <3>4. w[k - 1] = ledger[i]
        BY <1>6, <3>1, <3>2
      <3>5. QED
        BY <3>2, <3>3, <3>4
    <2>4. QED
      BY <1>6, <2>1, <2>3
  <1>8. ASSUME \A i \in a..b :
                  ledger[i].hash = Sha256(ledger[i].prev, ledger[i].data, Covered),
               \A i \in a..(b - 1) : ledger[i + 1].prev = ledger[i].hash
        PROVE  WindowIntact(w)
    <2>1. ASSUME NEW k \in 1..n
          PROVE  w[k].hash = Sha256(w[k].prev, w[k].data, Covered)
      BY <1>2, <1>5, <1>8
    <2>2. ASSUME NEW k \in 1..n, k # 1
          PROVE  w[k].prev = w[k - 1].hash
      <3>1. k - 1 \in 1..n /\ a + k - 2 \in a..(b - 1)
        BY <1>5, <2>2
      <3>2. a + (k - 1) - 1 = a + k - 2 /\ a + k - 2 + 1 = a + k - 1
        BY <1>1
      <3>3. w[k] = ledger[a + k - 1] /\ w[k - 1] = ledger[a + k - 2]
        BY <1>2, <3>1, <3>2
      <3>4. QED
        BY <1>8, <3>1, <3>2, <3>3
    <2>3. QED
      BY <1>3, <2>1, <2>2 DEF WindowIntact
  <1>9. QED
    BY <1>7, <1>8 DEF w

\* A nonempty set of natural numbers has a least element.
LEMMA LeastOfNat ==
  ASSUME NEW T, T \subseteq Nat, T # {}
  PROVE  \E n \in T : \A m \in T : n <= m
  <1>1. PICK R : R = OpToRel(<, Nat)
    OBVIOUS
  <1>2. PICK n \in T : \A m \in T : ~(<<m, n>> \in R)
    BY <1>1, NatLessThanWellFounded, WFMin
  <1>3. \A x, y \in Nat : x < y => <<x, y>> \in R
    BY <1>1 DEF OpToRel
  <1>4. \A m \in T : ~(m < n) /\ m \in Nat /\ n \in Nat
    BY <1>2, <1>3
  <1>5. QED
    BY <1>4

\* A set that has k, and with each number the one before it, has all down to a.
LEMMA Downwards ==
  ASSUME NEW a \in Nat, NEW k \in Nat, NEW T, k \in T,
         \A i \in a..(k - 1) : i + 1 \in T => i \in T
  PROVE  \A i \in a..k : i \in T
  <1>1. PICK U : U = { n \in Nat : n <= k - a /\ k - n \notin T }
    OBVIOUS
  <1>2. CASE U = {}
    <2>1. ASSUME NEW i \in a..k PROVE i \in T
      <3>1. k - i \in Nat /\ k - i <= k - a /\ k - (k - i) = i
        OBVIOUS
      <3>2. k - i \in Nat /\ k - i \notin U
        BY <1>2, <3>1
      <3>3. k - (k - i) \in T
        BY <1>1, <3>1, <3>2
      <3>4. QED
        BY <3>1, <3>3
    <2>2. QED
      BY <2>1
  <1>3. CASE U # {}
    <2>1. PICK n \in U : \A m \in U : n <= m
      BY <1>1, <1>3, LeastOfNat
    <2>2. n \in Nat /\ n <= k - a /\ k - n \notin T
      BY <1>1
    <2>3. n # 0
      BY <2>2
    <2>4. n - 1 \in Nat /\ n - 1 <= k - a /\ n - 1 \notin U
      BY <2>1, <2>2, <2>3
    <2>5. k - (n - 1) \in T
      BY <1>1, <2>4
    <2>6. k - n \in a..(k - 1) /\ (k - n) + 1 = k - (n - 1)
      BY <2>2, <2>3
    <2>7. QED
      BY <2>2, <2>5, <2>6
  <1>4. QED
    BY <1>2, <1>3

\* What certify finds in the ledger tells what was written to it.
LEMMA CertifyTold ==
  ASSUME LedgerOK, NEW a \in DOMAIN ledger, NEW b \in DOMAIN ledger, a <= b,
         NEW seal, seal.window = <<a, b>>, seal.terminal_hash = ledger[b].hash,
         seal.chains_valid = WindowIntact(SubSeq(ledger, a, b))
  PROVE  SealTold(seal)
  <1>1. /\ IsSeq(ledger) /\ DOMAIN ledger = 1..Len(ledger) /\ Len(ledger) \in Nat
        /\ a \in Nat /\ b \in Nat /\ a..b \subseteq DOMAIN ledger
        /\ a..(b - 1) \subseteq a..b /\ \A i \in a..(b - 1) : i + 1 \in a..b
    <2>1. IsSeq(ledger) /\ Len(ledger) \in Nat /\ DOMAIN ledger = 1..Len(ledger)
      BY SeqFacts DEF LedgerOK
    <2>2. QED
      BY <2>1
  <1> DEFINE valid == WindowIntact(SubSeq(ledger, a, b))
  <1>2. valid <=>
           /\ \A i \in a..b : ledger[i].hash = Sha256(ledger[i].prev, ledger[i].data, Covered)
           /\ \A i \in a..(b - 1) : ledger[i + 1].prev = ledger[i].hash
    BY <1>1, WindowOfLedger
  <1> HIDE DEF valid
  <1>3. \A i \in a..b :
           /\ written[i].data \in Nat \X Nat
           /\ written[i].hash = Sha256(written[i].prev, written[i].data, Covered)
           /\ written[i] = [data |-> written[i].data, prev |-> written[i].prev,
                            hash |-> written[i].hash]
           /\ ledger[i].data \in Nat \X Nat
           /\ ledger[i] = [data |-> ledger[i].data, prev |-> ledger[i].prev,
                           hash |-> ledger[i].hash]
    <2>1. SUFFICES ASSUME NEW i \in a..b
                   PROVE  IsEntry(written[i]) /\ IsEntry(ledger[i])
                          /\ written[i].hash = Sha256(written[i].prev, written[i].data, Covered)
      BY DEF IsEntry
    <2>2. i \in Nat /\ IsEntry(ledger[i]) /\ written[i] = Fresh(i, written[i].prev)
      BY <1>1 DEF LedgerOK
    <2>3. QED
      BY <2>2 DEF Fresh, IsEntry
  <1>4. ASSUME \A i \in a..b : ledger[i] = written[i], LinkedAsWritten(a, b)
        PROVE  valid
    <2>1. \A i \in a..b : ledger[i].hash = Sha256(ledger[i].prev, ledger[i].data, Covered)
      BY <1>3, <1>4
    <2>2. \A i \in a..(b - 1) : ledger[i + 1].prev = ledger[i].hash
      BY <1>1, <1>4 DEF LinkedAsWritten
    <2>3. QED
      BY <1>2, <2>1, <2>2
  <1>5. ASSUME valid, NEW i \in a..b, NEW k \in a..b,
               i <= k, ledger[k].hash = written[k].hash, LinkedAsWritten(i, k)
        PROVE  ledger[i] = written[i]
    <2> DEFINE T == { j \in i..k : ledger[j] = written[j] }
    <2>1. i \in Nat /\ k \in Nat /\ i..k \subseteq a..b
          /\ i..(k - 1) \subseteq a..(b - 1) /\ i..(k - 1) \subseteq i..k
          /\ \A j \in i..(k - 1) : j + 1 \in i..k
      BY <1>1, <1>5
    <2>2. ASSUME NEW j \in a..b, ledger[j].hash = written[j].hash
          PROVE  ledger[j] = written[j]
      <3>1. ledger[j].hash = Sha256(ledger[j].prev, ledger[j].data, Covered)
        BY <1>2, <1>5
      <3>2. ledger[j].prev = written[j].prev /\ ledger[j].data = written[j].data
        <4> DEFINE p == ledger[j].prev
                   q == written[j].prev
                   d == ledger[j].data
                   e == written[j].data
        <4>1. d \in Nat \X Nat /\ e \in Nat \X Nat
              /\ Sha256(p, d, Covered) = Sha256(q, e, Covered)
          BY <1>3, <2>2, <3>1
        <4> HIDE DEF p, q, d, e
        <4>2. p = q /\ d = e
          BY <4>1, HashInjective
        <4>3. QED
          BY <4>2 DEF p, q, d, e
      <3>3. QED
        BY <1>3, <2>2, <3>2
    <2>3. k \in T
      BY <1>5, <2>1, <2>2
    <2>4. ASSUME NEW j \in i..(k - 1), j + 1 \in T
          PROVE  j \in T
      <3>1. ledger[j + 1].prev = ledger[j].hash /\ written[j + 1].prev = written[j].hash
        BY <1>2, <1>5, <2>1 DEF LinkedAsWritten
      <3>2. ledger[j].hash = written[j].hash
        BY <2>4, <3>1
      <3>3. QED
        BY <2>1, <2>2, <3>2
    <2> HIDE DEF T
    <2>5. \A j \in i..k : j \in T
      BY <2>1, <2>3, <2>4, Downwards
    <2>6. i \in i..k
      BY <1>5, <2>1
    <2>7. QED
      BY <2>5, <2>6 DEF T
  <1>6. seal.window[1] = a /\ seal.window[2] = b /\ seal.chains_valid = valid
    BY DEF valid
  <1>7. QED
    BY <1>4, <1>5, <1>6 DEF SealTold

-----------------------------------------------------------------------------
(* The theorems. *)

\* The initial state satisfies the invariant.
LEMMA InitIInv == Init => IInv
  <1> SUFFICES ASSUME Init PROVE IInv
    OBVIOUS
  <1>1. /\ Len(ledger) = 0 /\ DOMAIN ledger = {} /\ Len(written) = 0
        /\ DOMAIN seals = {} /\ DOMAIN dispatched = {} /\ DOMAIN events = {}
        /\ DOMAIN tracker = {}
    BY DEF Init
  <1>2. RegistryOK
    BY <1>1, EmptySeq, FS_EmptySet DEF Init, RegistryOK, DispatchReachesAdmitted, ReplayedPeers
  <1>3. SealsOK
    BY <1>1, EmptySeq DEF Init, SealsOK, IsSeq
  <1>4. EpochsOK
    BY <1>1 DEF Init, EpochsOK, Dispatched
  <1>5. LedgerOK
    BY <1>1, EmptySeq DEF Init, LedgerOK, IsSeq
  <1>6. QED
    BY <1>2, <1>3, <1>4, <1>5 DEF IInv

\* Every reachable state satisfies it.
LEMMA Invariance == Spec => []IInv
  <1>1. IInv /\ [Next]_vars => IInv'
    BY NextRegistryOK, NextSealsOK, NextEpochsOK, NextLedgerOK DEF IInv
  <1>2. QED
    BY InitIInv, <1>1, PTL DEF Spec

\* The dispatcher, which replays the registry's events instead of reading its
\* map, reaches exactly the peers that are admitted when it runs.
THEOREM DispatchCorrect == Spec => []DispatchReachesAdmitted
  <1>1. IInv => DispatchReachesAdmitted
    BY DEF IInv, RegistryOK
  <1>2. QED
    BY Invariance, <1>1, PTL

\* Whatever the network does to frames and acknowledgements, peers and tracker
\* hold dispatched epochs only, and a peer is taken for diverged only when a seal
\* named an epoch beyond the place of its entry.
THEOREM TrustCorrect == Spec => []PeersTrustOnlySeals
  <1>1. IInv => PeersTrustOnlySeals
    <2> SUFFICES ASSUME IInv PROVE PeersTrustOnlySeals
      OBVIOUS
    <2>1. Dispatched \subseteq Nat
      <3> DEFINE R == [epoch_end : Nat, peer_count : Nat, delivered_count : Nat]
      <3>1. dispatched \in Seq(R)
        BY DEF IInv, RegistryOK
      <3>2. \A i \in DOMAIN dispatched : dispatched[i] \in R
        BY <3>1, LenProperties, ElementOfSeq
      <3>3. QED
        BY <3>2 DEF Dispatched
    <2>2. ASSUME NEW p \in DOMAIN tracker
          PROVE  /\ tracker[p].acked \in Dispatched
                 /\ SyncStateOf(tracker[p]) = "Diverged" => tracker[p].acked \in NamedBeyond
      <3> DEFINE e == tracker[p]
      <3>1. /\ e.acked \in Dispatched /\ e.current \in Nat
            /\ e.acked <= e.current \/ e.acked \in NamedBeyond
        BY DEF IInv, EpochsOK
      <3> HIDE DEF e
      <3>2. e.acked \in Nat
        BY <2>1, <3>1
      <3>3. e.acked <= e.current => e.acked = e.current \/ e.acked < e.current
        BY <3>1, <3>2
      <3>4. e.acked <= e.current => SyncStateOf(e) # "Diverged"
        BY <3>3 DEF SyncStateOf, GossipSyncState, SyncState
      <3>5. QED
        BY <3>1, <3>4 DEF e
    <2>3. QED
      BY <2>2 DEF IInv, EpochsOK, Dispatched, PeersTrustOnlySeals
  <1>2. QED
    BY Invariance, <1>1, PTL

\* A seal that certify issues tells what was written to its window, whatever
\* was changed through entries_mut: an untouched window gets a valid one, and in
\* a valid one each entry with the hash append gave it vouches for those before.
THEOREM SealsTell == Spec => SealTellsTampering
  <1>1. IInv /\ [Next]_vars => [seals' # seals => SealTold(seals'[Len(seals')])]_vars
    <2> SUFFICES ASSUME IInv, Next, seals' # seals
                 PROVE  SealTold(seals'[Len(seals')])
      OBVIOUS
    <2>1. Certify
      BY NextCases DEF LedgerAppend, LedgerTamper, Admit, Evict, Dispatch, DispatchFrame,
         Validate, Receive, TrackAck, Lose, Corrupt, chain_vars
    <2>2. PICK a \in DOMAIN ledger, b \in DOMAIN ledger : \E seal :
            /\ a <= b
            /\ seal = [first |-> ledger[a].data[1], last |-> ledger[b].data[1],
                       chains_valid |-> WindowIntact(SubSeq(ledger, a, b)),
                       terminal_hash |-> ledger[b].hash, window |-> <<a, b>>]
            /\ seals' = Append(seals, seal)
      BY <2>1, CertifyStep DEF IInv
    <2>3. PICK seal :
            /\ seal.window = <<a, b>> /\ seal.terminal_hash = ledger[b].hash
            /\ seal.chains_valid = WindowIntact(SubSeq(ledger, a, b))
            /\ seals' = Append(seals, seal)
      BY <2>2
    <2>4. SealTold(seal)
      BY <2>2, <2>3, CertifyTold DEF IInv
    <2>5. seals'[Len(seals')] = seal
      BY <2>3, SeqAppend DEF IInv, SealsOK
    <2>6. QED
      BY <2>4, <2>5
  <1>2. QED
    BY Invariance, <1>1, PTL DEF Spec, SealTellsTampering
=============================================================================
