---------------------------- MODULE EventProofs ----------------------------
(***************************************************************************)
(* Proofs about the two models of what happens to an event: EventStore,    *)
(* which stores it, for any number of streams, appenders and event         *)
(* identifiers, and ExecutionRouter, which dispatches it, for any number   *)
(* of threads and calls.  CounterMatchesIndex is not inductive: what a     *)
(* transaction writes was computed from an earlier read, so the invariant  *)
(* also says what a call in flight still knows about the database.  Of the *)
(* router, SequencesUnique needs only types and a finite number of calls   *)
(* in flight.  AuditIsRecent says nothing of the middle of a call, so its  *)
(* invariant adds what the one call in flight has done to the trail, and   *)
(* what threads past the capacity check can still append.                  *)
(***************************************************************************)
EXTENDS EventStore, ExecutionRouter, FiniteSetTheorems, SequenceTheorems, TLAPS

\* A stored event links to the event before it in its stream.
Linked ==
    \A e \in events :
        /\ e.sequence = 0 => e.prev_hash = GenesisHash
        /\ \A f \in events :
              /\ f.stream_id = e.stream_id
              /\ e.sequence = f.sequence + 1
              => e.prev_hash = f.self_hash

\* A link of a call in flight to position n - 1 of stream s: what it read is
\* still what the database says of that position.
LinkHolds(s, n, prev) ==
    /\ n <= sequences[s] + 1
    /\ n = 0 => prev = GenesisHash
    /\ \A f \in events :
          f.stream_id = s /\ n = f.sequence + 1 => prev = f.self_hash

InFlight ==
    \A a \in Appenders :
        /\ calls[a].phase = "read" =>
              LinkHolds(calls[a].stream, calls[a].currentSeq + 1, calls[a].prevHash)
        /\ calls[a].phase = "hashed" =>
              LET e == calls[a].envelope
              IN  LinkHolds(e.stream_id, e.sequence, e.prev_hash)

\* An identifier belongs to one call or one stored event, and a hashed
\* envelope is neither stored nor settled.
IdsOwned ==
    /\ \A e \in events : e.event_id \in usedIds
    /\ resolved \cup rejected \subseteq usedIds
    /\ \A a \in Appenders :
        /\ calls[a].phase \in {"hashed", "written"} =>
              /\ calls[a].envelope.event_id \in usedIds
              /\ calls[a].envelope.event_id \notin rejected
        /\ calls[a].phase = "hashed" =>
              /\ \A e \in events : e.event_id # calls[a].envelope.event_id
              /\ \A b \in Appenders \ {a} :
                    calls[b].phase \in {"hashed", "written"} =>
                        calls[b].envelope.event_id # calls[a].envelope.event_id
        /\ calls[a].phase = "written" => calls[a].envelope \in events

\* The inductive invariant.
IInv == /\ TypeOK
        /\ CounterMatchesIndex
        /\ Linked
        /\ InFlight
        /\ IdsOwned
        /\ OutcomeTruthful

-----------------------------------------------------------------------------
\* The initial database satisfies the invariant.
LEMMA InitIInv == Init => IInv
  BY DEF Init, IInv, TypeOK, CounterMatchesIndex, Linked, InFlight, IdsOwned,
         OutcomeTruthful, Idle

\* Steps that leave the database alone keep what is said of the database only.
LEMMA DatabaseFrame ==
  ASSUME CounterMatchesIndex, Linked, UNCHANGED <<events, sequences>>
  PROVE  CounterMatchesIndex' /\ Linked'
  BY DEF CounterMatchesIndex, Linked, IndexGet

\* A stream's tip hash is the hash of its last event, and zeros without one:
\* what phase 1 of append reads.
LEMMA ReadTipLinks ==
  ASSUME TypeOK, CounterMatchesIndex, NEW s \in Streams
  PROVE  LinkHolds(s, sequences[s] + 1, PrevHash(s, sequences[s]))
  <1>1. sequences[s] \in Nat \cup {-1}
    BY DEF TypeOK
  <1>2. CASE sequences[s] = -1
    <2>1. IndexGet(s, sequences[s]) = {}
      BY <1>2 DEF IndexGet, TypeOK, IsEnvelope
    <2>2. \A f \in events : f.stream_id # s
      BY <1>2 DEF CounterMatchesIndex
    <2>3. QED
      BY <1>2, <2>1, <2>2 DEF LinkHolds, PrevHash
  <1>3. CASE sequences[s] \in Nat
    <2>1. PICK e \in IndexGet(s, sequences[s]) : IndexGet(s, sequences[s]) = {e}
      BY <1>3 DEF CounterMatchesIndex
    <2>2. PrevHash(s, sequences[s]) = e.self_hash
      BY <2>1 DEF PrevHash
    <2>3. \A f \in events :
             f.stream_id = s /\ sequences[s] + 1 = f.sequence + 1 => f = e
      BY <1>3, <2>1 DEF IndexGet, TypeOK, IsEnvelope
    <2>4. QED
      BY <1>3, <2>2, <2>3 DEF LinkHolds
  <1>4. QED
    BY <1>1, <1>2, <1>3

\* An envelope the unique index admits is the next one of its stream: a stale
\* read cannot commit.
LEMMA AdmittedIsNext ==
  ASSUME TypeOK, CounterMatchesIndex, InFlight,
         NEW a \in Appenders, calls[a].phase = "hashed",
         IndexAdmits(calls[a].envelope)
  PROVE  /\ calls[a].envelope.stream_id \in Streams
         /\ calls[a].envelope.sequence = sequences[calls[a].envelope.stream_id] + 1
  <1> DEFINE e == calls[a].envelope
  <1>1. IsEnvelope(e)
    BY DEF TypeOK, Idle
  <1>2. sequences[e.stream_id] \in Nat \cup {-1} /\ e.sequence \in Nat
        /\ e.stream_id \in Streams
    BY <1>1 DEF TypeOK, IsEnvelope
  <1>3. e.sequence <= sequences[e.stream_id] + 1
    BY DEF InFlight, LinkHolds
  <1>4. e.sequence \notin 0..sequences[e.stream_id]
    BY <1>2 DEF CounterMatchesIndex, IndexAdmits
  <1>5. QED
    BY <1>2, <1>3, <1>4

\* Every step of an append keeps the invariant.
LEMMA NextIInv ==
  ASSUME IInv, [Next]_vars
  PROVE  IInv'
  <1> USE DEF IInv
  <1>1. ASSUME NEW a \in Appenders, NEW s \in Streams, ReadTip(a, s)
        PROVE  IInv'
    <2> USE <1>1
    <2>0. LinkHolds(s, sequences[s] + 1, PrevHash(s, sequences[s]))
      BY ReadTipLinks
    <2>1. TypeOK'
      BY DEF TypeOK, ReadTip, Idle
    <2>2. CounterMatchesIndex' /\ Linked'
      BY DatabaseFrame DEF ReadTip
    <2>3. InFlight'
      BY <2>0 DEF InFlight, LinkHolds, ReadTip, TypeOK
    <2>4. IdsOwned' /\ OutcomeTruthful'
      BY DEF IdsOwned, OutcomeTruthful, ReadTip, TypeOK
    <2>5. QED
      BY <2>1, <2>2, <2>3, <2>4
  <1>2. ASSUME NEW a \in Appenders, NEW id \in EventIds, ComputeHash(a, id)
        PROVE  IInv'
    <2> USE <1>2
    <2> DEFINE e == Envelope(id, calls[a].stream, calls[a].currentSeq + 1,
                             calls[a].prevHash)
    <2>a. calls[a].stream \in Streams /\ calls[a].currentSeq \in Nat \cup {-1}
      BY DEF TypeOK, ComputeHash, Idle
    <2>b. calls[a].currentSeq + 1 \in Nat
      BY <2>a
    <2>0. IsEnvelope(e) /\ e.event_id = id
      BY <2>a, <2>b DEF IsEnvelope, Envelope
    <2>1. TypeOK'
      BY <2>0 DEF TypeOK, ComputeHash
    <2>2. CounterMatchesIndex' /\ Linked'
      BY DatabaseFrame DEF ComputeHash
    <2>3. InFlight'
      BY DEF InFlight, LinkHolds, ComputeHash, TypeOK, Envelope
    <2>4. IdsOwned'
      BY <2>0 DEF IdsOwned, ComputeHash, TypeOK
    <2>5. OutcomeTruthful'
      BY DEF OutcomeTruthful, ComputeHash
    <2>6. QED
      BY <2>1, <2>2, <2>3, <2>4, <2>5
  <1>3. ASSUME NEW a \in Appenders, CommitAppend(a)
        PROVE  IInv'
    <2> USE <1>3
    <2> DEFINE e == calls[a].envelope
    <2>0. /\ e.stream_id \in Streams
          /\ e.sequence = sequences[e.stream_id] + 1
          /\ IsEnvelope(e)
          /\ sequences[e.stream_id] \in Nat \cup {-1}
      BY AdmittedIsNext DEF CommitAppend, TypeOK, Idle
    <2>1. TypeOK'
      BY <2>0 DEF TypeOK, CommitAppend, IsEnvelope
    <2>2. CounterMatchesIndex'
      <3>1. ASSUME NEW s \in Streams, NEW f \in events', f.stream_id = s
            PROVE  f.sequence \in 0..sequences'[s]
        BY <3>1, <2>0 DEF CounterMatchesIndex, CommitAppend, TypeOK, IsEnvelope
      <3>2. ASSUME NEW s \in Streams, NEW n \in 0..sequences'[s]
            PROVE  \E f \in IndexGet(s, n)' : IndexGet(s, n)' = {f}
        <4>1. CASE s = e.stream_id /\ n = e.sequence
          <5>1. IndexGet(s, n)' = {e}
            BY <4>1 DEF CommitAppend, IndexAdmits, IndexGet
          <5>2. QED
            BY <5>1
        <4>2. CASE ~(s = e.stream_id /\ n = e.sequence)
          <5>1. IndexGet(s, n)' = IndexGet(s, n)
            BY <4>2 DEF CommitAppend, IndexGet
          <5>2. n \in 0..sequences[s]
            BY <4>2, <3>2, <2>0 DEF CommitAppend, TypeOK
          <5>3. QED
            BY <5>1, <5>2 DEF CounterMatchesIndex
        <4>3. QED
          BY <4>1, <4>2
      <3>3. QED
        BY <3>1, <3>2 DEF CounterMatchesIndex
    <2>3. Linked'
      <3>1. ASSUME NEW f \in events, f.stream_id = e.stream_id
            PROVE  f.sequence # e.sequence + 1
        BY <3>1, <2>0 DEF CounterMatchesIndex, TypeOK, IsEnvelope
      <3>2. LinkHolds(e.stream_id, e.sequence, e.prev_hash)
        BY DEF InFlight, CommitAppend
      <3>3. QED
        BY <3>1, <3>2, <2>0 DEF Linked, LinkHolds, CommitAppend, TypeOK, IsEnvelope
    <2>4. InFlight'
      <3>1. ASSUME NEW b \in Appenders, calls'[b].phase = "read"
            PROVE  LinkHolds(calls[b].stream, calls[b].currentSeq + 1,
                             calls[b].prevHash)'
        <4>1. b # a /\ calls'[b] = calls[b]
          BY <3>1 DEF CommitAppend, TypeOK
        <4>2. calls[b].stream \in Streams /\ calls[b].currentSeq \in Nat \cup {-1}
          BY <3>1, <4>1 DEF TypeOK, Idle
        <4>3. LinkHolds(calls[b].stream, calls[b].currentSeq + 1, calls[b].prevHash)
          BY <3>1, <4>1 DEF InFlight
        <4>4. QED
          BY <4>1, <4>2, <4>3, <2>0 DEF LinkHolds, CommitAppend, TypeOK
      <3>2. ASSUME NEW b \in Appenders, calls'[b].phase = "hashed"
            PROVE  LinkHolds(calls[b].envelope.stream_id, calls[b].envelope.sequence,
                             calls[b].envelope.prev_hash)'
        <4>1. b # a /\ calls'[b] = calls[b]
          BY <3>2 DEF CommitAppend, TypeOK
        <4>2. calls[b].envelope.stream_id \in Streams /\ calls[b].envelope.sequence \in Nat
          BY <3>2, <4>1 DEF TypeOK, Idle, IsEnvelope
        <4>3. LinkHolds(calls[b].envelope.stream_id, calls[b].envelope.sequence,
                        calls[b].envelope.prev_hash)
          BY <3>2, <4>1 DEF InFlight
        <4>4. QED
          BY <4>1, <4>2, <4>3, <2>0 DEF LinkHolds, CommitAppend, TypeOK
      <3>3. QED
        BY <3>1, <3>2 DEF InFlight
    <2>5. IdsOwned'
      BY <2>0 DEF IdsOwned, CommitAppend, TypeOK
    <2>6. OutcomeTruthful'
      BY DEF OutcomeTruthful, CommitAppend, IdsOwned
    <2>7. QED
      BY <2>1, <2>2, <2>3, <2>4, <2>5, <2>6
  <1>4. ASSUME NEW a \in Appenders,
               \/ ConflictAppend(a) \/ FailAppend(a)
        PROVE  IInv'
    <2> USE <1>4 DEF ConflictAppend, FailAppend, RejectAs
    <2>1. TypeOK'
      BY DEF TypeOK, IdsOwned
    <2>2. CounterMatchesIndex' /\ Linked'
      BY DatabaseFrame
    <2>3. InFlight'
      BY DEF InFlight, LinkHolds, TypeOK, Idle
    <2>4. IdsOwned'
      BY DEF IdsOwned, TypeOK, Idle
    <2>5. OutcomeTruthful'
      BY DEF OutcomeTruthful, IdsOwned
    <2>6. QED
      BY <2>1, <2>2, <2>3, <2>4, <2>5
  <1>5. ASSUME NEW a \in Appenders, ResolveAppend(a) \/ Crash(a)
        PROVE  IInv'
    <2> USE <1>5 DEF ResolveAppend, Crash
    <2>1. TypeOK'
      BY DEF TypeOK, IdsOwned
    <2>2. CounterMatchesIndex' /\ Linked'
      BY DatabaseFrame
    <2>3. InFlight'
      BY DEF InFlight, LinkHolds, TypeOK, Idle
    <2>4. IdsOwned'
      BY DEF IdsOwned, TypeOK, Idle
    <2>5. OutcomeTruthful'
      BY DEF OutcomeTruthful, IdsOwned
    <2>6. QED
      BY <2>1, <2>2, <2>3, <2>4, <2>5
  <1>6. CASE UNCHANGED vars
    BY <1>6 DEF vars, TypeOK, CounterMatchesIndex, IndexGet, Linked, InFlight,
                LinkHolds, IdsOwned, OutcomeTruthful
  <1>7. QED
    BY <1>1, <1>2, <1>3, <1>4, <1>5, <1>6 DEF Next

\* The inductive invariant holds in every reachable state.
THEOREM InvariantHolds == Spec => []IInv
  <1>1. Init => IInv
    BY InitIInv
  <1>2. IInv /\ [Next]_vars => IInv'
    BY NextIInv
  <1>3. QED
    BY <1>1, <1>2, PTL DEF Spec

\* Type correctness of the store, for any number of streams and appenders.
THEOREM TypeCorrect == Spec => []TypeOK
  <1>1. IInv => TypeOK
    BY DEF IInv
  <1>2. QED
    BY <1>1, InvariantHolds, PTL

\* The counter of a stream is always the number of its last event and its
\* events are numbered without gap or repetition, however appends interleave,
\* fail or die: the unique index is enough to protect the three-phase append.
THEOREM CounterCorrect == Spec => []CounterMatchesIndex
  <1>1. IInv => CounterMatchesIndex
    BY DEF IInv
  <1>2. QED
    BY <1>1, InvariantHolds, PTL

\* A resolved append is stored, a rejected one never is.
THEOREM OutcomeCorrect == Spec => []OutcomeTruthful
  <1>1. IInv => OutcomeTruthful
    BY DEF IInv
  <1>2. QED
    BY <1>1, InvariantHolds, PTL

-----------------------------------------------------------------------------
\* EventAt(s, n) is the one event the index holds under [s, n].
LEMMA EventAtIs ==
  ASSUME CounterMatchesIndex, NEW s \in Streams, NEW n \in 0..sequences[s]
  PROVE  /\ EventAt(s, n) \in events
         /\ EventAt(s, n).stream_id = s
         /\ EventAt(s, n).sequence = n
         /\ \A f \in events : f.stream_id = s /\ f.sequence = n => f = EventAt(s, n)
  BY DEF CounterMatchesIndex, IndexGet, EventAt

\* The log of a stream is a sequence with one entry per number.
LEMMA LogOfIsSeq ==
  ASSUME TypeOK, CounterMatchesIndex, NEW s \in Streams
  PROVE  /\ LogOf(s) \in Seq(events)
         /\ Len(LogOf(s)) = sequences[s] + 1
         /\ \A i \in 1..(sequences[s] + 1) : LogOf(s)[i] = EventAt(s, i - 1)
  <1> DEFINE n == sequences[s] + 1
  <1>1. n \in Nat /\ sequences[s] \in Int
    BY DEF TypeOK
  <1>2. \A i \in 1..n : EventAt(s, i - 1) \in events
    <2>1. SUFFICES ASSUME NEW i \in 1..n PROVE EventAt(s, i - 1) \in events
      OBVIOUS
    <2>2. i - 1 \in 0..sequences[s]
      BY <1>1
    <2>3. QED
      BY <2>2, EventAtIs
  <1>3. LogOf(s) \in [1..n -> events]
    BY <1>2 DEF LogOf
  <1>4. LogOf(s) \in Seq(events) /\ Len(LogOf(s)) = n
    BY <1>1, <1>3
  <1>5. \A i \in 1..n : LogOf(s)[i] = EventAt(s, i - 1)
    BY DEF LogOf
  <1>6. QED
    BY <1>4, <1>5

\* What getSince asks of the enumeration it returns, for the whole stream:
\* every event of the stream once, in index order.
Reads(s, r) ==
    LET found == {e \in events : e.stream_id = s /\ e.sequence >= 0}
    IN  /\ r \in [1..Cardinality(found) -> found]
        /\ \A e \in found : \E i \in DOMAIN r : r[i] = e
        /\ \A i, j \in DOMAIN r : i < j => /\ r[i] # r[j]
                                          /\ r[i].sequence <= r[j].sequence

\* The log of a stream is such an enumeration: the database holds as many
\* events of the stream as the counter has counted.
LEMMA LogReads ==
  ASSUME TypeOK, CounterMatchesIndex, NEW s \in Streams
  PROVE  /\ Cardinality({e \in events : e.stream_id = s /\ e.sequence >= 0}) \in Nat
         /\ Reads(s, LogOf(s))
  <1> DEFINE found == {e \in events : e.stream_id = s /\ e.sequence >= 0}
             n == sequences[s] + 1
             r == LogOf(s)
  <1>1. n \in Nat /\ sequences[s] \in Int
    BY DEF TypeOK
  <1>2. \A i \in 1..n : /\ r[i] \in events
                        /\ r[i].stream_id = s
                        /\ r[i].sequence = i - 1
    <2>1. SUFFICES ASSUME NEW i \in 1..n
                   PROVE  /\ r[i] \in events
                          /\ r[i].stream_id = s
                          /\ r[i].sequence = i - 1
      OBVIOUS
    <2>2. i - 1 \in 0..sequences[s]
      BY <1>1
    <2>3. r[i] = EventAt(s, i - 1)
      BY LogOfIsSeq
    <2>4. QED
      BY <2>2, <2>3, EventAtIs
  <1>3. r \in [1..n -> found]
    <2>1. DOMAIN r = 1..n /\ r = [i \in 1..n |-> r[i]]
      BY DEF LogOf
    <2>2. \A i \in 1..n : r[i] \in found
      BY <1>1, <1>2
    <2>3. QED
      BY <2>1, <2>2
  <1>4. \A e \in found : \E i \in 1..n : r[i] = e
    <2>1. SUFFICES ASSUME NEW e \in found PROVE \E i \in 1..n : r[i] = e
      OBVIOUS
    <2>2. e.sequence \in 0..sequences[s]
      BY DEF CounterMatchesIndex
    <2>3. e.sequence + 1 \in 1..n /\ (e.sequence + 1) - 1 = e.sequence
      BY <1>1, <2>2
    <2>4. r[e.sequence + 1] = EventAt(s, e.sequence)
      BY <2>3, LogOfIsSeq
    <2>5. QED
      BY <2>2, <2>3, <2>4, EventAtIs
  <1>5. \A i, j \in 1..n : r[i] = r[j] => i = j
    <2>1. SUFFICES ASSUME NEW i \in 1..n, NEW j \in 1..n, r[i] = r[j]
                   PROVE  i = j
      OBVIOUS
    <2>2. i - 1 = j - 1
      BY <1>2, <2>1
    <2>3. QED
      BY <1>1, <2>2
  <1>6. Cardinality(found) = n
    <2>1. r \in Bijection(1..n, found)
      BY <1>3, <1>4, <1>5, Zenon DEF Bijection, Injection, Surjection, IsInjective
    <2>2. ExistsBijection(1..n, found)
      BY <2>1 DEF ExistsBijection
    <2>3. QED
      BY <1>1, <2>2, FS_CountingElements
  <1>7. \A i, j \in 1..n : i < j => r[i] # r[j] /\ r[i].sequence <= r[j].sequence
    <2>1. SUFFICES ASSUME NEW i \in 1..n, NEW j \in 1..n, i < j
                   PROVE  r[i] # r[j] /\ r[i].sequence <= r[j].sequence
      OBVIOUS
    <2>2. r[i].sequence = i - 1 /\ r[j].sequence = j - 1
      BY <1>2
    <2>3. i - 1 <= j - 1 /\ i # j
      BY <1>1, <2>1
    <2>4. QED
      BY <1>5, <2>2, <2>3
  <1> HIDE DEF r
  <1>8. Reads(s, r)
    BY <1>3, <1>4, <1>6, <1>7 DEF Reads
  <1>9. QED
    BY <1>1, <1>6, <1>8 DEF r

\* So getAll returns one.
LEMMA GetAllReads ==
  ASSUME TypeOK, CounterMatchesIndex, NEW s \in Streams
  PROVE  Reads(s, getAll(s))
  <1> DEFINE found == {e \in events : e.stream_id = s /\ e.sequence >= 0}
             S == [1..Cardinality(found) -> found]
             Good(r) == /\ \A e \in found : \E i \in DOMAIN r : r[i] = e
                        /\ \A i, j \in DOMAIN r :
                              i < j => /\ r[i] # r[j]
                                       /\ r[i].sequence <= r[j].sequence
  <1>1. LogOf(s) \in S /\ Good(LogOf(s))
    BY LogReads DEF Reads
  <1>2. getAll(s) = CHOOSE r \in S : Good(r)
    BY DEF getAll, getSince
  <1>3. getAll(s) \in S /\ Good(getAll(s))
    <2> HIDE DEF S, Good
    <2>1. QED
      BY <1>1, <1>2, Zenon
  <1>4. QED
    BY <1>3 DEF Reads

\* Reading a stream back gives its events in number order without a gap: the
\* first entry is number 0 and each other one follows the number before it.
LEMMA ReadsInOrder ==
  ASSUME TypeOK, CounterMatchesIndex, NEW s \in Streams, NEW r, Reads(s, r)
  PROVE  \A i \in DOMAIN r :
            /\ r[i] \in events /\ r[i].stream_id = s
            /\ i = 1 => r[i].sequence = 0
            /\ i # 1 => i - 1 \in DOMAIN r
                        /\ r[i].sequence = r[i - 1].sequence + 1
  <1> DEFINE found == {e \in events : e.stream_id = s /\ e.sequence >= 0}
             D == DOMAIN r
  <1>1. /\ r \in [1..Cardinality(found) -> found]
        /\ \A e \in found : \E i \in D : r[i] = e
        /\ \A i, j \in D : i < j => r[i] # r[j] /\ r[i].sequence <= r[j].sequence
    BY DEF Reads
  <1>2. sequences[s] \in Int
    BY DEF TypeOK
  <1>3. \A i \in D : /\ r[i] \in events /\ r[i].stream_id = s
                     /\ r[i].sequence \in 0..sequences[s]
    BY <1>1 DEF CounterMatchesIndex
  <1>4. \A n \in 0..sequences[s] : \E k \in D : r[k].sequence = n
    <2>1. SUFFICES ASSUME NEW n \in 0..sequences[s]
                   PROVE  \E k \in D : r[k].sequence = n
      OBVIOUS
    <2>2. EventAt(s, n) \in found /\ EventAt(s, n).sequence = n
      BY EventAtIs
    <2>3. QED
      BY <1>1, <2>2
  <1>5. \A i, j \in D : r[i].sequence = r[j].sequence => r[i] = r[j]
    BY <1>3, EventAtIs
  <1>6. \A i \in D : i \in Nat /\ i >= 1 /\ \A k \in 1..i : k \in D
    <2>1. D = 1..Cardinality(found)
      BY <1>1
    <2>2. Cardinality(found) \in Nat
      BY LogReads
    <2> HIDE DEF D, found
    <2>3. QED
      BY <2>1, <2>2
  <1> HIDE DEF D, found
  <1>7. SUFFICES ASSUME NEW i \in D
                 PROVE  /\ i = 1 => r[i].sequence = 0
                        /\ i # 1 => i - 1 \in D
                                    /\ r[i].sequence = r[i - 1].sequence + 1
    BY <1>3 DEF D
  <1>8. CASE i = 1
    <2>1. 0 \in 0..sequences[s]
      BY <1>2, <1>3
    <2>2. PICK k \in D : r[k].sequence = 0
      BY <1>4, <2>1
    <2>3. k = i \/ i < k
      BY <1>6, <1>8
    <2>4. r[i].sequence <= 0
      BY <1>1, <1>2, <1>3, <2>2, <2>3 DEF D
    <2>5. QED
      BY <1>2, <1>3, <1>8, <2>4
  <1>9. CASE i # 1
    <2> DEFINE a == r[i - 1].sequence
               b == r[i].sequence
    <2>1. i - 1 \in D /\ i - 1 < i
      BY <1>6, <1>9
    <2>2. a \in 0..sequences[s] /\ b \in 0..sequences[s]
      BY <1>3, <2>1
    <2>3. a <= b /\ a # b
      BY <1>1, <1>5, <2>1 DEF D
    <2>4. \A k \in D : r[k].sequence <= a \/ b <= r[k].sequence
      <3>1. SUFFICES ASSUME NEW k \in D
                     PROVE  r[k].sequence <= a \/ b <= r[k].sequence
        OBVIOUS
      <3>2. k < i - 1 \/ k = i - 1 \/ k = i \/ i < k
        BY <1>6
      <3>3. k < i - 1 => r[k].sequence <= a
        BY <1>1, <2>1
      <3>4. i < k => b <= r[k].sequence
        BY <1>1
      <3>5. a <= a /\ b <= b
        BY <1>2, <2>2
      <3>6. QED
        BY <3>2, <3>3, <3>4, <3>5
    <2> HIDE DEF a, b
    <2>5. b = a + 1
      <3>1. SUFFICES ASSUME b # a + 1 PROVE FALSE
        OBVIOUS
      <3>2. a + 1 \in 0..sequences[s] /\ a < a + 1 /\ a + 1 < b
        BY <1>2, <2>2, <2>3, <3>1
      <3>3. PICK k \in D : r[k].sequence = a + 1
        BY <1>4, <3>2
      <3>4. a + 1 <= a \/ b <= a + 1
        BY <2>4, <3>3
      <3>5. QED
        BY <1>2, <2>2, <3>2, <3>4
    <2>6. QED
      BY <1>9, <2>1, <2>5 DEF a, b
  <1>10. QED
    BY <1>8, <1>9

\* verifyChain finds no broken link in any reachable database.
THEOREM ChainCorrect == Spec => []ChainVerifies
  <1>1. IInv => ChainVerifies
    <2>1. SUFFICES ASSUME IInv, NEW s \in Streams, NEW i \in DOMAIN getAll(s)
                   PROVE  getAll(s)[i].prev_hash =
                             IF i = 1 THEN GenesisHash ELSE getAll(s)[i - 1].self_hash
      BY DEF ChainVerifies, brokenLinks
    <2> DEFINE r == getAll(s)
    <2>2. TypeOK /\ CounterMatchesIndex /\ Linked
      BY <2>1 DEF IInv
    <2>3. Reads(s, r)
      BY <2>2, GetAllReads
    <2> HIDE DEF r
    <2>4. \A j \in DOMAIN r :
             /\ r[j] \in events /\ r[j].stream_id = s
             /\ j = 1 => r[j].sequence = 0
             /\ j # 1 => j - 1 \in DOMAIN r
                         /\ r[j].sequence = r[j - 1].sequence + 1
      BY <2>2, <2>3, ReadsInOrder
    <2>5. i \in DOMAIN r
      BY <2>1 DEF r
    <2>6. r[i].prev_hash = IF i = 1 THEN GenesisHash ELSE r[i - 1].self_hash
      BY <2>2, <2>4, <2>5 DEF Linked
    <2>7. QED
      BY <2>6 DEF r
  <1>2. QED
    BY <1>1, InvariantHolds, PTL

\* A commit is one append of the abstract log: next number, linked to the tip.
LEMMA CommitIsLogAppend ==
  ASSUME IInv, IInv', NEW a \in Appenders, CommitAppend(a)
  PROVE  Log!LogAppend(calls[a].envelope.stream_id, calls[a].envelope.event_id)
  <1> USE DEF IInv
  <1>0. /\ calls[a].envelope.stream_id \in Streams
        /\ calls[a].envelope.sequence = sequences[calls[a].envelope.stream_id] + 1
        /\ IsEnvelope(calls[a].envelope)
    BY AdmittedIsNext DEF CommitAppend, TypeOK, Idle
  <1>a. PICK e : e = calls[a].envelope
    OBVIOUS
  <1>b. PICK t \in Streams : t = e.stream_id
    BY <1>0, <1>a
  <1>c. PICK n \in Nat : n = sequences[t] + 1
    BY DEF TypeOK
  <1>1. /\ e = calls[a].envelope
        /\ t = e.stream_id
        /\ n = sequences[t] + 1
        /\ e.sequence = n
        /\ IsEnvelope(e)
    BY <1>0, <1>a, <1>b, <1>c
  <1>2. /\ sequences' = [sequences EXCEPT ![t] = n]
        /\ events' = events \cup {e}
        /\ LinkHolds(t, n, e.prev_hash)
    BY <1>1 DEF CommitAppend, InFlight
  <1>3. \A s \in Streams : \A k \in 0..sequences[s] : EventAt(s, k)' = EventAt(s, k)
    <2> SUFFICES ASSUME NEW s \in Streams, NEW k \in 0..sequences[s]
                 PROVE  EventAt(s, k)' = EventAt(s, k)
      OBVIOUS
    <2>1. k \in 0..sequences'[s]
      BY <1>1, <1>2 DEF TypeOK
    <2>2. /\ EventAt(s, k) \in events
          /\ EventAt(s, k).stream_id = s
          /\ EventAt(s, k).sequence = k
      BY EventAtIs
    <2>3. \E f \in events' : IndexGet(s, k)' = {f}
      BY <2>1 DEF CounterMatchesIndex, IndexGet
    <2>4. PICK f \in events' : IndexGet(s, k)' = {f}
      BY <2>3
    <2>5. EventAt(s, k)' = f /\ EventAt(s, k) = f
      BY <2>2, <2>4, <1>2 DEF EventAt, IndexGet
    <2>6. QED
      BY <2>5
  <1>4. EventAt(t, n)' = e
    <2>1. IndexGet(t, n)' = {e}
      BY <1>1, <1>2 DEF CommitAppend, IndexAdmits, IndexGet
    <2>2. QED
      BY <2>1, <1>2 DEF EventAt, IndexGet
  <1>5. /\ LogOf(t) \in Seq(events)
        /\ Len(LogOf(t)) = n
        /\ \A i \in 1..n : LogOf(t)[i] = EventAt(t, i - 1)
    BY <1>1, LogOfIsSeq
  <1>6. Log!TipHash(LogOf(t)) = e.prev_hash
    <2>1. CASE n = 0
      BY <2>1, <1>1, <1>2, <1>5 DEF Log!TipHash, Log!GenesisHash, GenesisHash, LinkHolds
    <2>2. CASE n > 0
      <3>1. n - 1 \in 0..sequences[t] /\ n \in 1..n
        BY <2>2, <1>1 DEF TypeOK
      <3>2. EventAt(t, n - 1) \in events /\ EventAt(t, n - 1).stream_id = t
            /\ EventAt(t, n - 1).sequence = n - 1
        BY <3>1, <1>1, EventAtIs
      <3>3. e.prev_hash = EventAt(t, n - 1).self_hash
        BY <3>2, <1>1, <1>2 DEF LinkHolds
      <3>4. LogOf(t) # << >>
        BY <2>2, <1>5
      <3>5. QED
        BY <3>1, <3>3, <3>4, <1>5 DEF Log!TipHash
    <2>3. QED
      BY <2>1, <2>2, <1>1
  <1>7. Log!Envelope(e.event_id, t, n, e.prev_hash) = e
    BY <1>1 DEF IsEnvelope, Envelope, HashOf, Log!Envelope, Log!HashOf
  <1>8. LogOf(t)' = Append(LogOf(t), e)
    <2>1. LogOf(t)' = [i \in 1..(n + 1) |-> EventAt(t, i - 1)']
      BY <1>1, <1>2 DEF LogOf, TypeOK
    <2>2. Append(LogOf(t), e) = [i \in 1..(n + 1) |-> IF i = n + 1 THEN e ELSE LogOf(t)[i]]
      <3>1. PICK l : l = LogOf(t)
        OBVIOUS
      <3>2. /\ l \in Seq(events \cup {e}) /\ Len(l) = n
            /\ \A i \in 1..n : l[i] = LogOf(t)[i]
        BY <1>5, <3>1, SeqMonotonic
      <3>3. /\ Append(l, e) \in Seq(events \cup {e}) /\ Len(Append(l, e)) = n + 1
            /\ \A i \in 1..n : Append(l, e)[i] = l[i]
            /\ Append(l, e)[n + 1] = e
        BY <3>2, AppendProperties
      <3>4. Append(l, e) = [i \in 1..(n + 1) |-> Append(l, e)[i]]
        BY <3>3, LenProperties
      <3>5. n \in Nat
        BY <3>2, LenProperties
      <3>6. \A i \in 1..(n + 1) : Append(l, e)[i] = IF i = n + 1 THEN e ELSE LogOf(t)[i]
        BY <3>2, <3>3, <3>5
      <3>7. QED
        BY <3>1, <3>4, <3>6, Zenon
    <2>3. ASSUME NEW i \in 1..(n + 1)
          PROVE  EventAt(t, i - 1)' = IF i = n + 1 THEN e ELSE LogOf(t)[i]
      <3>1. CASE i = n + 1
        BY <3>1, <1>4, <1>1
      <3>2. CASE i # n + 1
        <4>1. i \in 1..n /\ i - 1 \in 0..sequences[t]
          BY <3>2, <1>1 DEF TypeOK
        <4>2. QED
          BY <4>1, <3>2, <1>1, <1>3, <1>5
      <3>3. QED
        BY <3>1, <3>2
    <2>4. QED
      BY <2>1, <2>2, <2>3
  <1>9. \A s \in Streams \ {t} : LogOf(s)' = LogOf(s)
    <2> SUFFICES ASSUME NEW s \in Streams \ {t} PROVE LogOf(s)' = LogOf(s)
      OBVIOUS
    <2>1. sequences'[s] = sequences[s] /\ sequences[s] \in Nat \cup {-1}
      BY <1>2 DEF TypeOK
    <2>2. \A i \in 1..(sequences[s] + 1) : EventAt(s, i - 1)' = EventAt(s, i - 1)
      <3> SUFFICES ASSUME NEW i \in 1..(sequences[s] + 1)
                   PROVE  EventAt(s, i - 1)' = EventAt(s, i - 1)
        OBVIOUS
      <3>1. i - 1 \in 0..sequences[s]
        BY <2>1
      <3>2. QED
        BY <3>1, <1>3
    <2>3. QED
      BY <2>1, <2>2 DEF LogOf
  <1>10. QED
    BY <1>1, <1>5, <1>6, <1>7, <1>8, <1>9 DEF Log!LogAppend

\* The three-phase append implements the append-only hash-chained log: every
\* reachable database is a family of logs in which each event names the hash
\* of its predecessor, and no step changes an event that is already there.
THEOREM StoreImplementsLog == Spec => ImplementsEventLog
  <1> DEFINE logs == [s \in Streams |-> LogOf(s)]
  <1>1. Init => Log!LogInit
    <2>1. ASSUME Init, NEW s \in Streams PROVE LogOf(s) = << >>
      BY <2>1 DEF Init, LogOf
    <2>2. QED
      BY <2>1 DEF Log!LogInit
  <1>2. IInv /\ IInv' /\ [Next]_vars => [Log!LogNext]_logs
    <2> SUFFICES ASSUME IInv, IInv', [Next]_vars PROVE [Log!LogNext]_logs
      OBVIOUS
    <2>1. ASSUME NEW a \in Appenders, CommitAppend(a) PROVE Log!LogNext
      <3>1. calls[a].envelope.stream_id \in Streams /\ calls[a].envelope.event_id \in EventIds
        BY <2>1 DEF IInv, TypeOK, CommitAppend, Idle, IsEnvelope
      <3>2. QED
        BY <2>1, <3>1, CommitIsLogAppend DEF Log!LogNext
    <2>2. CASE UNCHANGED <<events, sequences>>
      BY <2>2 DEF LogOf, EventAt
    <2>3. QED
      BY <2>1, <2>2 DEF Next, vars, ReadTip, ComputeHash, ConflictAppend, FailAppend,
                        ResolveAppend, Crash
  <1>3. QED
    BY <1>1, <1>2, InvariantHolds, PTL DEF Spec, ImplementsEventLog, Log!LogSpec
-----------------------------------------------------------------------------
(* The router. *)

\* A call in flight is one of a finite number, and takes at most the newest
\* MAX_AUDIT_TRAIL - 1 records into its copy of the trail.
CallsOK ==
    /\ IsFiniteSet(Busy)
    /\ \A t \in Threads :
          call[t].at = "assign" => Len(call[t].slice) <= MAX_AUDIT_TRAIL - 1

\* The threads that will append without looking at the trail again.
Appending == { t \in Threads : call[t].at = "append" }

\* The trail with all that will be appended unchecked.
TrailBounded ==
    Len(audit) + Cardinality(Appending) <= MAX_AUDIT_TRAIL + Cardinality(Threads) - 1

\* While calls never overlapped: at most one is in flight, and the trail or
\* its copy is what that call's step has made of the newest decisions.
OneCall ==
    ~overlapped =>
      /\ \A t, u \in Busy : t = u
      /\ (\A t \in Threads : call[t].at \notin {"assign", "append"})
            => audit = LastN(decided, MAX_AUDIT_TRAIL)
      /\ \A t \in Threads :
            /\ call[t].at = "assign" => call[t].slice = LastN(decided, MAX_AUDIT_TRAIL - 1)
            /\ call[t].at = "append" => audit = LastN(decided, MAX_AUDIT_TRAIL - 1)

\* The inductive invariant.
RouterIInv ==
    /\ RouterTypeOK
    /\ CallsOK
    /\ SequencesUnique
    /\ TrailBounded
    /\ OneCall

-----------------------------------------------------------------------------
(* The newest records of a sequence. *)

\* LastN returns the last n elements, or all when there are no more.
LEMMA LastNProperties ==
  ASSUME NEW S, NEW s \in Seq(S), NEW n \in Nat
  PROVE  /\ LastN(s, n) \in Seq(S)
         /\ Len(LastN(s, n)) = IF Len(s) <= n THEN Len(s) ELSE n
         /\ \A i \in 1..Len(LastN(s, n)) :
               LastN(s, n)[i] = s[Len(s) - Len(LastN(s, n)) + i]
  <1>1. Len(s) \in Nat /\ \A i \in 1..Len(s) : s[i] \in S
    BY LenProperties, ElementOfSeq
  <1>2. CASE Len(s) <= n
    BY <1>1, <1>2 DEF LastN
  <1>3. CASE ~(Len(s) <= n)
    <2>1. \A i \in (Len(s) - n + 1)..Len(s) : s[i] \in S
      BY <1>1, <1>3
    <2>2. /\ SubSeq(s, Len(s) - n + 1, Len(s)) \in Seq(S)
          /\ Len(SubSeq(s, Len(s) - n + 1, Len(s)))
               = IF Len(s) - n + 1 <= Len(s) THEN Len(s) - (Len(s) - n + 1) + 1 ELSE 0
          /\ \A i \in 1..(Len(s) - (Len(s) - n + 1) + 1) :
                SubSeq(s, Len(s) - n + 1, Len(s))[i] = s[(Len(s) - n + 1) + i - 1]
      BY <2>1, <1>1, <1>3, SubSeqProperties, Z3
    <2>3. QED
      BY <2>2, <1>1, <1>3 DEF LastN
  <1>4. QED
    BY <1>2, <1>3

\* Taking the last n of the last m is taking the last n, n at most m.
LEMMA LastNOfLastN ==
  ASSUME NEW S, NEW s \in Seq(S), NEW m \in Nat, NEW n \in Nat, n <= m
  PROVE  LastN(LastN(s, m), n) = LastN(s, n)
  <1> DEFINE k == LastN(s, m)
             l == LastN(k, n)
             r == LastN(s, n)
  <1>1. /\ k \in Seq(S)
        /\ Len(k) = IF Len(s) <= m THEN Len(s) ELSE m
        /\ \A i \in 1..Len(k) : k[i] = s[Len(s) - Len(k) + i]
    BY LastNProperties
  <1> HIDE DEF k
  <1>2. /\ l \in Seq(S)
        /\ Len(l) = IF Len(k) <= n THEN Len(k) ELSE n
        /\ \A i \in 1..Len(l) : l[i] = k[Len(k) - Len(l) + i]
    BY <1>1, LastNProperties
  <1>3. /\ r \in Seq(S)
        /\ Len(r) = IF Len(s) <= n THEN Len(s) ELSE n
        /\ \A i \in 1..Len(r) : r[i] = s[Len(s) - Len(r) + i]
    BY LastNProperties
  <1>4. Len(s) \in Nat
    BY LenProperties
  <1> HIDE DEF l, r
  <1>5. Len(l) = Len(r) /\ Len(l) \in Nat /\ Len(k) \in Nat /\ Len(l) <= Len(k)
    BY <1>1, <1>2, <1>3, <1>4
  <1>6. ASSUME NEW i \in 1..Len(l)
        PROVE  l[i] = r[i]
    <2>1. Len(k) - Len(l) + i \in 1..Len(k)
      BY <1>5
    <2>2. Len(s) - Len(k) + (Len(k) - Len(l) + i) = Len(s) - Len(r) + i
      BY <1>4, <1>5
    <2>3. QED
      BY <1>1, <1>2, <1>3, <1>5, <2>1, <2>2
  <1>7. l = r
    BY <1>2, <1>3, <1>5, <1>6, SeqEqual
  <1>8. QED
    BY <1>7 DEF l, r, k

\* Appending to the newest n - 1 gives the newest n.
LEMMA LastNAppend ==
  ASSUME NEW S, NEW s \in Seq(S), NEW e \in S, NEW n \in Nat \ {0}
  PROVE  Append(LastN(s, n - 1), e) = LastN(Append(s, e), n)
  <1> DEFINE p == LastN(s, n - 1)
             l == Append(p, e)
             a == Append(s, e)
             r == LastN(a, n)
  <1>1. n - 1 \in Nat
    OBVIOUS
  <1>2. /\ p \in Seq(S)
        /\ Len(p) = IF Len(s) <= n - 1 THEN Len(s) ELSE n - 1
        /\ \A i \in 1..Len(p) : p[i] = s[Len(s) - Len(p) + i]
    BY <1>1, LastNProperties
  <1> HIDE DEF p
  <1>3. /\ l \in Seq(S) /\ Len(l) = Len(p) + 1
        /\ \A i \in 1..Len(p) : l[i] = p[i]
        /\ l[Len(p) + 1] = e
    BY <1>2, AppendProperties
  <1>4. /\ a \in Seq(S) /\ Len(a) = Len(s) + 1
        /\ \A i \in 1..Len(s) : a[i] = s[i]
        /\ a[Len(s) + 1] = e
    BY AppendProperties
  <1> HIDE DEF l, a
  <1>5. /\ r \in Seq(S)
        /\ Len(r) = IF Len(a) <= n THEN Len(a) ELSE n
        /\ \A i \in 1..Len(r) : r[i] = a[Len(a) - Len(r) + i]
    <2>1. n \in Nat
      OBVIOUS
    <2>2. QED
      BY <1>4, <2>1, LastNProperties, SMTT(30)
  <1>6. Len(s) \in Nat /\ Len(p) \in Nat /\ Len(p) <= Len(s)
    BY <1>2, LenProperties
  <1> HIDE DEF r
  <1>7. Len(l) = Len(r)
    BY <1>2, <1>3, <1>4, <1>5, <1>6
  <1>8. ASSUME NEW i \in 1..Len(l)
        PROVE  l[i] = r[i]
    <2>1. Len(a) - Len(r) + i = Len(s) - Len(p) + i
      BY <1>3, <1>4, <1>6, <1>7
    <2>2. r[i] = a[Len(s) - Len(p) + i]
      BY <2>1, <1>5, <1>7
    <2>3. CASE i = Len(p) + 1
      <3>1. Len(s) - Len(p) + i = Len(s) + 1
        BY <2>3, <1>6
      <3>2. QED
        BY <3>1, <2>2, <2>3, <1>3, <1>4
    <2>4. CASE i # Len(p) + 1
      <3>1. i \in 1..Len(p) /\ Len(s) - Len(p) + i \in 1..Len(s)
        BY <2>4, <1>3, <1>6
      <3>2. QED
        BY <3>1, <2>2, <1>2, <1>3, <1>4
    <2>5. QED
      BY <2>3, <2>4
  <1>9. l = r
    BY <1>3, <1>5, <1>7, <1>8, SeqEqual
  <1>10. QED
    BY <1>9 DEF l, r, a, p

-----------------------------------------------------------------------------
(* SequencesUnique, its invariant and types. *)

\* The initial router satisfies the invariant.
LEMMA RouterInitIInv == RouterInit => RouterIInv
  <1> SUFFICES ASSUME RouterInit PROVE RouterIInv
    OBVIOUS
  <1>1. RouterTypeOK
    BY EmptySeq DEF RouterInit, RouterTypeOK, NoCall
  <1>2. Busy = {} /\ Appending = {} /\ IsFiniteSet(Busy) /\ Cardinality(Busy) = 0
    BY FS_EmptySet DEF RouterInit, Busy, NoCall, Appending
  <1>3. CallsOK
    BY <1>2 DEF CallsOK, RouterInit, NoCall
  <1>4. SequencesUnique
    <2>1. 0..(sequence - 1) = {} /\ Len(decided) = 0
      BY DEF RouterInit
    <2>2. { decided[i].sequence : i \in DOMAIN decided } = {}
      BY DEF RouterInit
    <2>3. QED
      BY <1>2, <2>1, <2>2 DEF SequencesUnique, RouterInit
  <1>5. TrailBounded
    <2>1. Len(audit) = 0 /\ Cardinality(Appending) = 0
      BY <1>2, FS_EmptySet DEF RouterInit
    <2>2. Cardinality(Threads) \in Nat
      BY RouterAssumption, FS_CardinalityType
    <2>3. QED
      BY <2>1, <2>2, RouterAssumption DEF TrailBounded
  <1>6. OneCall
    <2>1. LastN(decided, MAX_AUDIT_TRAIL) = << >>
      BY RouterAssumption DEF LastN, RouterInit
    <2>2. QED
      BY <1>2, <2>1 DEF OneCall, RouterInit, NoCall
  <1>7. QED
    BY <1>1, <1>3, <1>4, <1>5, <1>6 DEF RouterIInv

\* What classify and the handler make of an event is one of three outcomes.
LEMMA OutcomeType ==
  ASSUME NEW v, NEW oversized, NEW raises
  PROVE  Outcome(v, oversized, raises) \in Outcomes
  BY DEF Outcome, Outcomes

\* Every step keeps the types.
LEMMA NextTypeOK ==
  ASSUME RouterTypeOK, [RouterNext]_router_vars
  PROVE  RouterTypeOK'
  <1>1. ASSUME NEW c \in Classes, register(c)
        PROVE  RouterTypeOK'
    BY <1>1 DEF register, RouterTypeOK
  <1>2. CASE seal
    BY <1>2 DEF seal, RouterTypeOK
  <1>3. ASSUME NEW t \in Threads, DrawSequence(t)
        PROVE  RouterTypeOK'
    BY <1>3 DEF DrawSequence, RouterTypeOK, NoCall
  <1>4. ASSUME NEW t \in Threads, NEW v \in Verifiers, NEW oversized \in BOOLEAN,
               NEW raises \in BOOLEAN, Dispatch(t, v, oversized, raises)
        PROVE  RouterTypeOK'
    <2>1. call[t].sequence \in Nat
      BY <1>4 DEF Dispatch, RouterTypeOK, NoCall
    <2>2. [sequence |-> call[t].sequence, verifier |-> v,
           outcome |-> Outcome(v, oversized, raises)] \in Records
      BY <2>1, OutcomeType DEF Records
    <2>3. QED
      BY <1>4, <2>2 DEF Dispatch, RouterTypeOK, NoCall
  <1>5. ASSUME NEW t \in Threads, CheckCapacity(t)
        PROVE  RouterTypeOK'
    <2>1. call[t].record \in Records
      BY <1>5 DEF CheckCapacity, RouterTypeOK, NoCall
    <2>2. LastN(audit, MAX_AUDIT_TRAIL - 1) \in Seq(Records)
      <3>1. MAX_AUDIT_TRAIL - 1 \in Nat /\ audit \in Seq(Records)
        BY RouterAssumption DEF RouterTypeOK
      <3>2. QED
        BY <3>1, LastNProperties
    <2>3. QED
      BY <1>5, <2>1, <2>2 DEF CheckCapacity, RouterTypeOK, NoCall
  <1>6. ASSUME NEW t \in Threads, AssignSlice(t)
        PROVE  RouterTypeOK'
    <2>1. call[t].record \in Records /\ call[t].slice \in Seq(Records)
      BY <1>6 DEF AssignSlice, RouterTypeOK, NoCall
    <2>2. QED
      BY <1>6, <2>1 DEF AssignSlice, RouterTypeOK, NoCall
  <1>7. ASSUME NEW t \in Threads, AppendRecord(t)
        PROVE  RouterTypeOK'
    <2>1. call[t].record \in Records
      BY <1>7 DEF AppendRecord, RouterTypeOK, NoCall
    <2>2. QED
      BY <1>7, <2>1, AppendProperties DEF AppendRecord, RouterTypeOK, NoCall
  <1>8. CASE UNCHANGED router_vars
    BY <1>8 DEF router_vars, RouterTypeOK
  <1>9. QED
    BY <1>1, <1>2, <1>3, <1>4, <1>5, <1>6, <1>7, <1>8 DEF RouterNext

\* Drawing a number brings the thread in with that number, and nothing else.
LEMMA DrawBusy ==
  ASSUME RouterTypeOK, NEW t \in Threads, DrawSequence(t)
  PROVE  /\ t \notin Busy
         /\ Busy' = Busy \cup {t}
         /\ Holds(t)' = sequence
         /\ \A u \in Busy : Holds(u)' = Holds(u)
         /\ decided' = decided /\ sequence' = sequence + 1
  BY DEF DrawSequence, RouterTypeOK, Busy, Holds, NoCall

\* Between drawing and appending a call stays in flight, with its number.
LEMMA InsideBusy ==
  ASSUME RouterTypeOK, NEW t \in Threads,
         \/ \E v \in Verifiers, oversized, raises \in BOOLEAN :
               Dispatch(t, v, oversized, raises)
         \/ CheckCapacity(t)
         \/ AssignSlice(t)
  PROVE  /\ Busy' = Busy
         /\ \A u \in Busy : Holds(u)' = Holds(u)
         /\ decided' = decided /\ sequence' = sequence
  <1>1. CASE \E v \in Verifiers, oversized, raises \in BOOLEAN :
               Dispatch(t, v, oversized, raises)
    BY <1>1 DEF Dispatch, RouterTypeOK, Busy, Holds, NoCall
  <1>2. CASE CheckCapacity(t)
    BY <1>2 DEF CheckCapacity, RouterTypeOK, Busy, Holds, NoCall
  <1>3. CASE AssignSlice(t)
    BY <1>3 DEF AssignSlice, RouterTypeOK, Busy, Holds, NoCall
  <1>4. QED
    BY <1>1, <1>2, <1>3

\* Appending takes the thread out and its number into the decisions.
LEMMA AppendBusy ==
  ASSUME RouterTypeOK, NEW t \in Threads, AppendRecord(t)
  PROVE  /\ t \in Busy
         /\ Busy' = Busy \ {t}
         /\ call[t].record \in Records
         /\ Holds(t) = call[t].record.sequence
         /\ \A u \in Busy \ {t} : Holds(u)' = Holds(u)
         /\ decided' = Append(decided, call[t].record) /\ sequence' = sequence
  BY DEF AppendRecord, RouterTypeOK, Busy, Holds, NoCall

\* Every step keeps the calls in flight finite and a copy of the trail short.
LEMMA NextCallsOK ==
  ASSUME RouterTypeOK, CallsOK, [RouterNext]_router_vars
  PROVE  CallsOK'
  <1>1. ASSUME NEW c \in Classes, register(c)
        PROVE  CallsOK'
    BY <1>1 DEF register, CallsOK, Busy
  <1>2. CASE seal
    BY <1>2 DEF seal, CallsOK, Busy
  <1>3. ASSUME NEW t \in Threads, DrawSequence(t)
        PROVE  CallsOK'
    <2>1. IsFiniteSet(Busy')
      BY <1>3, DrawBusy, FS_AddElement DEF CallsOK
    <2>2. QED
      BY <1>3, <2>1 DEF CallsOK, DrawSequence, RouterTypeOK
  <1>4. ASSUME NEW t \in Threads, NEW v \in Verifiers, NEW oversized \in BOOLEAN,
               NEW raises \in BOOLEAN, Dispatch(t, v, oversized, raises)
        PROVE  CallsOK'
    <2>1. Busy' = Busy
      BY <1>4, InsideBusy
    <2>2. QED
      BY <1>4, <2>1 DEF CallsOK, Dispatch, RouterTypeOK
  <1>5. ASSUME NEW t \in Threads, CheckCapacity(t)
        PROVE  CallsOK'
    <2>1. Busy' = Busy
      BY <1>5, InsideBusy
    <2>2. MAX_AUDIT_TRAIL - 1 \in Nat /\ audit \in Seq(Records)
      BY RouterAssumption DEF RouterTypeOK
    <2>3. Len(LastN(audit, MAX_AUDIT_TRAIL - 1)) <= MAX_AUDIT_TRAIL - 1
      BY <2>2, LastNProperties, LenProperties
    <2>4. QED
      BY <1>5, <2>1, <2>3 DEF CallsOK, CheckCapacity, RouterTypeOK
  <1>6. ASSUME NEW t \in Threads, AssignSlice(t)
        PROVE  CallsOK'
    <2>1. Busy' = Busy
      BY <1>6, InsideBusy
    <2>2. QED
      BY <1>6, <2>1 DEF CallsOK, AssignSlice, RouterTypeOK
  <1>7. ASSUME NEW t \in Threads, AppendRecord(t)
        PROVE  CallsOK'
    <2>1. IsFiniteSet(Busy')
      BY <1>7, AppendBusy, FS_RemoveElement DEF CallsOK
    <2>2. QED
      BY <1>7, <2>1 DEF CallsOK, AppendRecord, RouterTypeOK, NoCall
  <1>8. CASE UNCHANGED router_vars
    BY <1>8 DEF router_vars, CallsOK, Busy
  <1>9. QED
    BY <1>1, <1>2, <1>3, <1>4, <1>5, <1>6, <1>7, <1>8 DEF RouterNext

\* Every step keeps the numbers unique: drawing one hands it to a call, which
\* hands it on to the decision it appends.
LEMMA NextSequences ==
  ASSUME RouterTypeOK, CallsOK, SequencesUnique, [RouterNext]_router_vars
  PROVE  SequencesUnique'
  <1> DEFINE recorded == {decided[i].sequence : i \in DOMAIN decided}
             held     == {Holds(t) : t \in Busy}
  <1>1. /\ recorded \cup held = 0..(sequence - 1)
        /\ Len(decided) + Cardinality(Busy) = sequence
    BY DEF SequencesUnique
  <1>2. IsFiniteSet(Busy) /\ Cardinality(Busy) \in Nat /\ Len(decided) \in Nat
    BY FS_CardinalityType, LenProperties DEF CallsOK, RouterTypeOK
  <1>3. ASSUME Busy' = Busy, \A u \in Busy : Holds(u)' = Holds(u),
               decided' = decided, sequence' = sequence
        PROVE  SequencesUnique'
    BY <1>3 DEF SequencesUnique
  <1>4. ASSUME NEW c \in Classes, register(c)
        PROVE  SequencesUnique'
    BY <1>4 DEF register, SequencesUnique, Busy, Holds
  <1>5. CASE seal
    BY <1>5 DEF seal, SequencesUnique, Busy, Holds
  <1>6. ASSUME NEW t \in Threads, DrawSequence(t)
        PROVE  SequencesUnique'
    <2>1. /\ t \notin Busy
          /\ Busy' = Busy \cup {t}
          /\ Holds(t)' = sequence
          /\ \A u \in Busy : Holds(u)' = Holds(u)
          /\ decided' = decided /\ sequence' = sequence + 1
      BY <1>6, DrawBusy
    <2>2. held' = held \cup {sequence} /\ recorded' = recorded
      BY <2>1
    <2>3. 0..(sequence' - 1) = 0..(sequence - 1) \cup {sequence}
      BY <2>1 DEF RouterTypeOK
    <2>4. Cardinality(Busy') = Cardinality(Busy) + 1
      BY <1>2, <2>1, FS_AddElement
    <2>5. Len(decided') + Cardinality(Busy') = sequence'
      BY <1>1, <1>2, <2>1, <2>4
    <2>6. recorded' \cup held' = 0..(sequence' - 1)
      BY <1>1, <2>2, <2>3
    <2>7. QED
      BY <2>5, <2>6 DEF SequencesUnique
  <1>7. ASSUME NEW t \in Threads,
               \/ \E v \in Verifiers, oversized, raises \in BOOLEAN :
                     Dispatch(t, v, oversized, raises)
               \/ CheckCapacity(t)
               \/ AssignSlice(t)
        PROVE  SequencesUnique'
    BY <1>3, <1>7, InsideBusy
  <1>8. ASSUME NEW t \in Threads, AppendRecord(t)
        PROVE  SequencesUnique'
    <2>1. /\ t \in Busy
          /\ Busy' = Busy \ {t}
          /\ call[t].record \in Records
          /\ Holds(t) = call[t].record.sequence
          /\ \A u \in Busy \ {t} : Holds(u)' = Holds(u)
          /\ decided' = Append(decided, call[t].record) /\ sequence' = sequence
      BY <1>8, AppendBusy
    <2>2. /\ Len(decided') = Len(decided) + 1
          /\ \A i \in 1..Len(decided) : decided'[i] = decided[i]
          /\ decided'[Len(decided) + 1] = call[t].record
          /\ DOMAIN decided' = 1..(Len(decided) + 1) /\ DOMAIN decided = 1..Len(decided)
      BY <2>1, AppendProperties, LenProperties DEF RouterTypeOK
    <2>3. recorded' = recorded \cup {Holds(t)}
      BY <2>1, <2>2, <1>2
    <2>4. held = held' \cup {Holds(t)}
      BY <2>1
    <2>5. Cardinality(Busy') = Cardinality(Busy) - 1
      BY <1>2, <2>1, FS_RemoveElement
    <2>6. Len(decided') + Cardinality(Busy') = sequence'
      BY <1>1, <1>2, <2>1, <2>2, <2>5
    <2>7. recorded' \cup held' = 0..(sequence' - 1)
      BY <1>1, <2>1, <2>3, <2>4
    <2>8. QED
      BY <2>6, <2>7 DEF SequencesUnique
  <1>9. CASE UNCHANGED router_vars
    BY <1>9 DEF router_vars, SequencesUnique, Busy, Holds
  <1>10. QED
    BY <1>4, <1>5, <1>6, <1>7, <1>8, <1>9 DEF RouterNext

-----------------------------------------------------------------------------
(* The trail. *)

\* Every step keeps the trail, with what is still to be appended, in its
\* bound: whoever looks sees fewer than MAX_AUDIT_TRAIL records or takes fewer.
LEMMA NextTrailBounded ==
  ASSUME RouterTypeOK, CallsOK, TrailBounded, [RouterNext]_router_vars
  PROVE  TrailBounded'
  <1>1. /\ IsFiniteSet(Threads) /\ Cardinality(Threads) \in Nat
        /\ MAX_AUDIT_TRAIL \in Nat /\ Len(audit) \in Nat
    BY RouterAssumption, FS_CardinalityType, LenProperties DEF RouterTypeOK
  <1>2. \A A \in SUBSET Threads :
           /\ IsFiniteSet(A) /\ Cardinality(A) \in Nat
           /\ Cardinality(A) <= Cardinality(Threads)
    BY <1>1, FS_Subset, FS_CardinalityType
  <1>3. Appending \in SUBSET Threads /\ Appending' \in SUBSET Threads
    BY DEF Appending
  <1>4. ASSUME Appending' = Appending, audit' = audit
        PROVE  TrailBounded'
    BY <1>4 DEF TrailBounded
  <1>5. ASSUME Len(audit') \in Nat, Len(audit') <= MAX_AUDIT_TRAIL - 1
        PROVE  TrailBounded'
    <2>1. Cardinality(Appending') \in Nat /\ Cardinality(Appending') <= Cardinality(Threads)
      BY <1>2, <1>3
    <2>2. QED
      BY <1>1, <1>5, <2>1 DEF TrailBounded
  <1>6. ASSUME NEW c \in Classes, register(c)
        PROVE  TrailBounded'
    BY <1>4, <1>6 DEF register, Appending
  <1>7. CASE seal
    BY <1>4, <1>7 DEF seal, Appending
  <1>8. ASSUME NEW t \in Threads, DrawSequence(t)
        PROVE  TrailBounded'
    BY <1>4, <1>8 DEF DrawSequence, Appending, RouterTypeOK, NoCall
  <1>9. ASSUME NEW t \in Threads, NEW v \in Verifiers, NEW oversized \in BOOLEAN,
               NEW raises \in BOOLEAN, Dispatch(t, v, oversized, raises)
        PROVE  TrailBounded'
    BY <1>4, <1>9 DEF Dispatch, Appending, RouterTypeOK
  <1>10. ASSUME NEW t \in Threads, CheckCapacity(t)
         PROVE  TrailBounded'
    <2>1. CASE Len(audit) >= MAX_AUDIT_TRAIL
      BY <1>4, <1>10, <2>1 DEF CheckCapacity, Appending, RouterTypeOK
    <2>2. CASE ~(Len(audit) >= MAX_AUDIT_TRAIL)
      BY <1>1, <1>5, <1>10, <2>2 DEF CheckCapacity
    <2>3. QED
      BY <2>1, <2>2
  <1>11. ASSUME NEW t \in Threads, AssignSlice(t)
         PROVE  TrailBounded'
    <2>1. audit' = call[t].slice /\ call[t].slice \in Seq(Records)
      BY <1>11 DEF AssignSlice, RouterTypeOK, NoCall
    <2>2. Len(audit') \in Nat /\ Len(audit') <= MAX_AUDIT_TRAIL - 1
      BY <1>11, <2>1, LenProperties DEF AssignSlice, CallsOK
    <2>3. QED
      BY <1>5, <2>2
  <1>12. ASSUME NEW t \in Threads, AppendRecord(t)
         PROVE  TrailBounded'
    <2>1. t \in Appending /\ Appending' = Appending \ {t}
      BY <1>12 DEF AppendRecord, Appending, RouterTypeOK, NoCall
    <2>2. /\ Cardinality(Appending') = Cardinality(Appending) - 1
          /\ Cardinality(Appending) \in Nat
      BY <1>2, <1>3, <2>1, FS_RemoveElement
    <2>3. Len(audit') = Len(audit) + 1
      BY <1>12, AppendBusy, AppendProperties DEF AppendRecord, RouterTypeOK
    <2>4. QED
      BY <1>1, <2>2, <2>3 DEF TrailBounded
  <1>13. CASE UNCHANGED router_vars
    BY <1>4, <1>13 DEF router_vars, Appending
  <1>14. QED
    BY <1>6, <1>7, <1>8, <1>9, <1>10, <1>11, <1>12, <1>13 DEF RouterNext

\* Every step of calls that never overlapped leaves the trail where the one
\* call's progress says: copying all but the newest, then appending, gives the
\* newest MAX_AUDIT_TRAIL decisions with the new one among them.
LEMMA NextOneCall ==
  ASSUME RouterTypeOK, OneCall, [RouterNext]_router_vars
  PROVE  OneCall'
  <1> SUFFICES ASSUME ~overlapped'
               PROVE  OneCall'
    BY DEF OneCall
  <1>1. ~overlapped
    BY DEF RouterNext, register, seal, DrawSequence, Dispatch, CheckCapacity, AssignSlice,
           AppendRecord, router_vars, RouterTypeOK
  <1>2. /\ \A t, u \in Busy : t = u
        /\ (\A t \in Threads : call[t].at \notin {"assign", "append"})
              => audit = LastN(decided, MAX_AUDIT_TRAIL)
        /\ \A t \in Threads :
              /\ call[t].at = "assign" => call[t].slice = LastN(decided, MAX_AUDIT_TRAIL - 1)
              /\ call[t].at = "append" => audit = LastN(decided, MAX_AUDIT_TRAIL - 1)
    BY <1>1 DEF OneCall
  <1>3. \A t \in Busy : \A u \in Threads \ {t} : call[u] = NoCall
    BY <1>2 DEF Busy
  <1>4. /\ MAX_AUDIT_TRAIL \in Nat \ {0} /\ MAX_AUDIT_TRAIL - 1 \in Nat
        /\ decided \in Seq(Records) /\ Len(decided) \in Nat
    BY RouterAssumption, LenProperties DEF RouterTypeOK
  <1>5. ASSUME NEW c \in Classes, register(c)
        PROVE  OneCall'
    BY <1>2, <1>5 DEF register, OneCall, Busy
  <1>6. CASE seal
    BY <1>2, <1>6 DEF seal, OneCall, Busy
  <1>7. ASSUME NEW t \in Threads, DrawSequence(t)
        PROVE  OneCall'
    <2>1. Busy = {} /\ Busy' = {t}
      BY <1>7, DrawBusy DEF DrawSequence, RouterTypeOK
    <2>2. \A u \in Threads : call[u].at = "idle" /\ call'[u].at \in {"idle", "routing"}
      BY <1>7, <2>1 DEF DrawSequence, RouterTypeOK, Busy, NoCall
    <2>3. audit' = LastN(decided', MAX_AUDIT_TRAIL)
      BY <1>2, <1>7, <2>2 DEF DrawSequence
    <2>4. QED
      BY <2>1, <2>2, <2>3 DEF OneCall
  <1>8. ASSUME NEW t \in Threads, NEW v \in Verifiers, NEW oversized \in BOOLEAN,
               NEW raises \in BOOLEAN, Dispatch(t, v, oversized, raises)
        PROVE  OneCall'
    <2>1. Busy' = Busy /\ t \in Busy
      BY <1>8, InsideBusy DEF Dispatch, Busy, NoCall
    <2>2. /\ \A u \in Threads : /\ call[u].at \notin {"assign", "append"}
                                /\ call'[u].at \notin {"assign", "append"}
          /\ audit' = audit /\ decided' = decided
      BY <1>3, <1>8, <2>1 DEF Dispatch, RouterTypeOK, NoCall
    <2>3. QED
      BY <1>2, <2>1, <2>2 DEF OneCall
  <1>9. ASSUME NEW t \in Threads, CheckCapacity(t)
        PROVE  OneCall'
    <2>1. Busy' = Busy /\ t \in Busy
      BY <1>9, InsideBusy DEF CheckCapacity, Busy, NoCall
    <2>2. /\ \A u \in Threads \ {t} : call[u].at = "idle" /\ call'[u].at = "idle"
          /\ call[t].at = "audit"
          /\ audit' = audit /\ decided' = decided
      BY <1>3, <1>9, <2>1 DEF CheckCapacity, RouterTypeOK, NoCall
    <2>3. audit = LastN(decided, MAX_AUDIT_TRAIL)
      BY <1>2, <2>2
    <2>4. CASE Len(audit) >= MAX_AUDIT_TRAIL
      <3>1. /\ call'[t].at = "assign"
            /\ call'[t].slice = LastN(audit, MAX_AUDIT_TRAIL - 1)
        BY <1>9, <2>4 DEF CheckCapacity, RouterTypeOK
      <3>2. LastN(audit, MAX_AUDIT_TRAIL - 1) = LastN(decided, MAX_AUDIT_TRAIL - 1)
        <4>1. MAX_AUDIT_TRAIL - 1 <= MAX_AUDIT_TRAIL
          BY <1>4
        <4>2. QED
          BY <1>4, <2>3, <4>1, LastNOfLastN
      <3>3. QED
        BY <1>2, <2>1, <2>2, <3>1, <3>2 DEF OneCall
    <2>5. CASE ~(Len(audit) >= MAX_AUDIT_TRAIL)
      <3>1. call'[t].at = "append"
        BY <1>9, <2>5 DEF CheckCapacity, RouterTypeOK
      <3>2. Len(decided) <= MAX_AUDIT_TRAIL - 1
        BY <1>4, <2>3, <2>5, LastNProperties
      <3>3. audit = LastN(decided, MAX_AUDIT_TRAIL - 1)
        BY <1>4, <2>3, <3>2 DEF LastN
      <3>4. QED
        BY <1>2, <2>1, <2>2, <3>1, <3>3 DEF OneCall
    <2>6. QED
      BY <2>4, <2>5
  <1>10. ASSUME NEW t \in Threads, AssignSlice(t)
         PROVE  OneCall'
    <2>1. Busy' = Busy /\ t \in Busy
      BY <1>10, InsideBusy DEF AssignSlice, Busy, NoCall
    <2>2. /\ \A u \in Threads \ {t} : call'[u].at = "idle"
          /\ call'[t].at = "append" /\ decided' = decided
      BY <1>3, <1>10, <2>1 DEF AssignSlice, RouterTypeOK, NoCall
    <2>3. audit' = LastN(decided, MAX_AUDIT_TRAIL - 1)
      BY <1>2, <1>10 DEF AssignSlice
    <2>4. QED
      BY <1>2, <2>1, <2>2, <2>3 DEF OneCall
  <1>11. ASSUME NEW t \in Threads, AppendRecord(t)
         PROVE  OneCall'
    <2>1. /\ t \in Busy /\ Busy' = Busy \ {t} /\ call[t].record \in Records
          /\ decided' = Append(decided, call[t].record)
      BY <1>11, AppendBusy
    <2>2. \A u \in Threads : call'[u].at = "idle"
      BY <1>3, <1>11, <2>1 DEF AppendRecord, RouterTypeOK, NoCall
    <2>3. audit' = Append(LastN(decided, MAX_AUDIT_TRAIL - 1), call[t].record)
      BY <1>2, <1>11 DEF AppendRecord
    <2>4. audit' = LastN(decided', MAX_AUDIT_TRAIL)
      BY <1>4, <2>1, <2>3, LastNAppend
    <2>5. QED
      BY <1>2, <2>1, <2>2, <2>4 DEF OneCall
  <1>12. CASE UNCHANGED router_vars
    BY <1>2, <1>12 DEF router_vars, OneCall, Busy
  <1>13. QED
    BY <1>5, <1>6, <1>7, <1>8, <1>9, <1>10, <1>11, <1>12 DEF RouterNext

-----------------------------------------------------------------------------
(* The theorems. *)

\* Every reachable state of the router satisfies the invariant.
LEMMA Invariance == RouterSpec => []RouterIInv
  <1>1. RouterIInv /\ [RouterNext]_router_vars => RouterIInv'
    BY NextTypeOK, NextCallsOK, NextSequences, NextTrailBounded, NextOneCall DEF RouterIInv
  <1>2. QED
    BY RouterInitIInv, <1>1, PTL DEF RouterSpec

\* The router's variables keep their types, at every point of every call: what
\* route records has one of the three outcomes.
THEOREM RouterTypes == RouterSpec => []RouterTypeOK
  <1>1. RouterIInv => RouterTypeOK
    BY DEF RouterIInv
  <1>2. QED
    BY Invariance, <1>1, PTL

\* The numbers route draws under its lock: none is lost and none given twice,
\* however many threads are inside the unlocked rest of route.
THEOREM SequencesCorrect == RouterSpec => []SequencesUnique
  <1>1. RouterIInv => SequencesUnique
    BY DEF RouterIInv
  <1>2. QED
    BY Invariance, <1>1, PTL

\* The audit trail is exactly the newest decisions as long as calls never
\* overlapped, and never longer than its limit by a record per further thread.
THEOREM AuditCorrect == RouterSpec => []AuditIsRecent
  <1>1. RouterIInv => AuditIsRecent
    <2> SUFFICES ASSUME RouterIInv PROVE AuditIsRecent
      OBVIOUS
    <2>1. AuditBounded
      <3>1. /\ Cardinality(Threads) \in Nat /\ Cardinality(Appending) \in Nat
            /\ MAX_AUDIT_TRAIL \in Nat /\ Len(audit) \in Nat
        BY RouterAssumption, FS_Subset, FS_CardinalityType, LenProperties
           DEF RouterIInv, RouterTypeOK, Appending
      <3>2. QED
        BY <3>1 DEF RouterIInv, TrailBounded, AuditBounded
    <2>2. ASSUME ~overlapped, Busy = {}
          PROVE  audit = LastN(decided, MAX_AUDIT_TRAIL)
      BY <2>2 DEF RouterIInv, OneCall, Busy, NoCall
    <2>3. QED
      BY <2>1, <2>2 DEF AuditIsRecent
  <1>2. QED
    BY Invariance, <1>1, PTL
=============================================================================
