----------------------------- MODULE EventStore -----------------------------
(***************************************************************************)
(* The E3 event substrate (event/store.ts): EventStore.append over a       *)
(* shared IndexedDB database.  An append reads the stream's counter and    *)
(* tip hash in one readonly transaction, computes the SHA-256 hash outside *)
(* any transaction, and writes event and counter in one readwrite          *)
(* transaction.  Appends of several tabs or tasks interleave between the   *)
(* transactions; the unique index by_stream_sequence is the only thing     *)
(* that keeps two of them from taking the same sequence number.            *)
(*                                                                         *)
(* A transaction is atomic and isolated (IndexedDB, external).  A tab may  *)
(* die between transactions and a write may fail for reasons of its own    *)
(* (quota, disk); both drop the append.                                    *)
(***************************************************************************)
EXTENDS Integers, FiniteSets, Sequences

CONSTANTS Streams,    \* stream identifiers sharing the database
          EventIds,   \* UUIDv7 values; each is drawn at most once
          Appenders   \* concurrent calls of append

VARIABLES events,     \* EVENTS_STORE: the set of stored envelopes
          sequences,  \* SEQUENCES_STORE: last sequence of a stream, -1 if absent
          calls,      \* calls[a]: the local state of the append running in a
          usedIds,    \* event identifiers generated so far
          resolved,   \* history: ids of the appends whose promise resolved
          rejected    \* history: ids of the appends whose promise rejected

vars == <<events, sequences, calls, usedIds, resolved, rejected>>

\* prevEvent?.self_hash ?? '0'.repeat(64)
GenesisHash == << >>

\* SHA-256 of the canonical envelope: collision free, so the fields it covers.
HashOf(id, s, n, prev) == <<id, s, n, prev>>

\* The frozen envelope; payload, producer and timestamps go with event_id.
Envelope(id, s, n, prev) ==
    [event_id  |-> id,
     stream_id |-> s,
     sequence  |-> n,
     prev_hash |-> prev,
     self_hash |-> HashOf(id, s, n, prev)]

\* index('by_stream_sequence').get([s, n]), as the set of matching events.
IndexGet(s, n) == {e \in events : e.stream_id = s /\ e.sequence = n}

\* Mutant: links to the event before the tip.
PrevHashBeforeTip(s, n) ==
    IF IndexGet(s, n - 1) = {} THEN GenesisHash
                               ELSE (CHOOSE e \in IndexGet(s, n - 1) : TRUE).self_hash

\* The hash an append that read counter value n links to.
PrevHash(s, n) ==
    IF IndexGet(s, n) = {} THEN GenesisHash
                           ELSE (CHOOSE e \in IndexGet(s, n) : TRUE).self_hash

Idle == [phase |-> "idle"]

\* A well-formed stored envelope: its self_hash is the hash of its fields.
IsEnvelope(e) ==
    /\ e.event_id \in EventIds
    /\ e.stream_id \in Streams
    /\ e.sequence \in Nat
    /\ e = Envelope(e.event_id, e.stream_id, e.sequence, e.prev_hash)

TypeOK ==
    /\ \A e \in events : IsEnvelope(e)
    /\ sequences \in [Streams -> Nat \cup {-1}]
    /\ DOMAIN calls = Appenders
    /\ \A a \in Appenders :
         \/ calls[a] = Idle
         \/ /\ calls[a].phase = "read"
            /\ calls[a].stream \in Streams
            /\ calls[a].currentSeq \in Nat \cup {-1}
         \/ /\ calls[a].phase \in {"hashed", "written"}
            /\ IsEnvelope(calls[a].envelope)
    /\ usedIds \subseteq EventIds
    /\ resolved \subseteq usedIds
    /\ rejected \subseteq usedIds

-----------------------------------------------------------------------------
Init ==
    /\ events = {}
    /\ sequences = [s \in Streams |-> -1]
    /\ calls = [a \in Appenders |-> Idle]
    /\ usedIds = {}
    /\ resolved = {}
    /\ rejected = {}

\* Mutant: the counter is taken for the next sequence instead of the last one.
ReadTipOffByOne(a, s) ==
    /\ calls[a] = Idle
    /\ calls' = [calls EXCEPT ![a] =
                    [phase      |-> "read",
                     stream     |-> s,
                     currentSeq |-> sequences[s] - 1,
                     prevHash   |-> PrevHash(s, sequences[s])]]
    /\ UNCHANGED <<events, sequences, usedIds, resolved, rejected>>

\* Phase 1: counter and tip hash, in one readonly transaction.
ReadTip(a, s) ==
    /\ calls[a] = Idle
    /\ calls' = [calls EXCEPT ![a] =
                    [phase      |-> "read",
                     stream     |-> s,
                     currentSeq |-> sequences[s],
                     prevHash   |-> PrevHash(s, sequences[s])]]
    /\ UNCHANGED <<events, sequences, usedIds, resolved, rejected>>

\* Phase 2: draw the identifier, hash and freeze the envelope; no transaction.
ComputeHash(a, id) ==
    /\ calls[a].phase = "read"
    /\ id \notin usedIds
    /\ usedIds' = usedIds \cup {id}
    /\ calls' = [calls EXCEPT ![a] =
                    [phase    |-> "hashed",
                     envelope |-> Envelope(id, calls[a].stream,
                                           calls[a].currentSeq + 1,
                                           calls[a].prevHash)]]
    /\ UNCHANGED <<events, sequences, resolved, rejected>>

\* Mutant: createIndex without { unique: true }.
IndexAdmitsAnything(e) == TRUE

\* The unique index admits envelope e.
IndexAdmits(e) == IndexGet(e.stream_id, e.sequence) = {}

\* Mutant: the counter is not written with the event.
CommitEventOnly(a) ==
    /\ calls[a].phase = "hashed"
    /\ LET e == calls[a].envelope
       IN  /\ IndexGet(e.stream_id, e.sequence) = {}
           /\ events' = events \cup {e}
           /\ calls' = [calls EXCEPT ![a] = [phase |-> "written", envelope |-> e]]
    /\ UNCHANGED <<sequences, usedIds, resolved, rejected>>

\* Phase 3, success: both puts take effect together.
CommitAppend(a) ==
    /\ calls[a].phase = "hashed"
    /\ LET e == calls[a].envelope
       IN  /\ IndexAdmits(e)
           /\ events' = events \cup {e}
           /\ sequences' = [sequences EXCEPT ![e.stream_id] = e.sequence]
           /\ calls' = [calls EXCEPT ![a] = [phase |-> "written", envelope |-> e]]
    /\ UNCHANGED <<usedIds, resolved, rejected>>

\* The append promise rejects with EventStoreError.
RejectAs(a) ==
    /\ rejected' = rejected \cup {calls[a].envelope.event_id}
    /\ calls' = [calls EXCEPT ![a] = Idle]

\* Phase 3, the unique index raises a constraint error: the transaction aborts.
ConflictAppend(a) ==
    /\ calls[a].phase = "hashed"
    /\ ~ IndexAdmits(calls[a].envelope)
    /\ RejectAs(a)
    /\ UNCHANGED <<events, sequences, usedIds, resolved>>

\* Mutant: the two puts in transactions of their own; the second one fails.
FailAfterFirstPut(a) ==
    /\ calls[a].phase = "hashed"
    /\ IndexGet(calls[a].envelope.stream_id, calls[a].envelope.sequence) = {}
    /\ events' = events \cup {calls[a].envelope}
    /\ RejectAs(a)
    /\ UNCHANGED <<sequences, usedIds, resolved>>

\* Phase 3, the transaction fails for another reason and aborts as a whole.
FailAppend(a) ==
    /\ calls[a].phase = "hashed"
    /\ RejectAs(a)
    /\ UNCHANGED <<events, sequences, usedIds, resolved>>

\* tx.oncomplete: the promise resolves with the envelope.
ResolveAppend(a) ==
    /\ calls[a].phase = "written"
    /\ resolved' = resolved \cup {calls[a].envelope.event_id}
    /\ calls' = [calls EXCEPT ![a] = Idle]
    /\ UNCHANGED <<events, sequences, usedIds, rejected>>

\* The tab dies: the call is forgotten, the database keeps what it has.
Crash(a) ==
    /\ calls[a] # Idle
    /\ calls' = [calls EXCEPT ![a] = Idle]
    /\ UNCHANGED <<events, sequences, usedIds, resolved, rejected>>

Next ==
    \E a \in Appenders :
        \/ \E s \in Streams : ReadTip(a, s)
        \/ \E id \in EventIds : ComputeHash(a, id)
        \/ CommitAppend(a)
        \/ ConflictAppend(a)
        \/ FailAppend(a)
        \/ ResolveAppend(a)
        \/ Crash(a)

Spec == Init /\ [][Next]_vars

-----------------------------------------------------------------------------
\* Event n of stream s.
EventAt(s, n) == CHOOSE e \in events : e.stream_id = s /\ e.sequence = n

\* getSince(from): the events of the stream in index order, from `from` on.
getSince(s, from) ==
    LET found == {e \in events : e.stream_id = s /\ e.sequence >= from}
    IN  CHOOSE r \in [1..Cardinality(found) -> found] :
            /\ \A e \in found : \E i \in DOMAIN r : r[i] = e
            /\ \A i, j \in DOMAIN r : i < j => /\ r[i] # r[j]
                                              /\ r[i].sequence <= r[j].sequence

\* getAll(): the whole stream.
getAll(s) == getSince(s, 0)

\* verifyChain(): the positions whose prev_hash is not the hash before them.
brokenLinks(s) ==
    LET all == getAll(s)
    IN  {i \in DOMAIN all :
            all[i].prev_hash # IF i = 1 THEN GenesisHash ELSE all[i - 1].self_hash}

(***************************************************************************)
(* The counter and the index never disagree: the events of a stream are    *)
(* numbered 0..sequences[s], each number once.  A counter left behind the  *)
(* events would make every later append of the stream hit the unique index *)
(* and reject for ever; two events under one number would fork the log.    *)
(***************************************************************************)
CounterMatchesIndex ==
    \A s \in Streams :
        /\ \A e \in events : e.stream_id = s => e.sequence \in 0..sequences[s]
        /\ \A n \in 0..sequences[s] : \E e \in IndexGet(s, n) : IndexGet(s, n) = {e}

\* verifyChain never reports a broken link, whatever appends raced, failed or
\* died between their read and their write.
ChainVerifies == \A s \in Streams : brokenLinks(s) = {}

\* What append told its caller is true of the database: a resolved event is
\* stored, a rejected one is not and never will be.
OutcomeTruthful ==
    /\ \A id \in resolved : \E e \in events : e.event_id = id
    /\ \A id \in rejected : \A e \in events : e.event_id # id

\* The logs the database holds, as EventLog describes them.
LogOf(s) == [i \in 1..(sequences[s] + 1) |-> EventAt(s, i - 1)]

Log == INSTANCE EventLog WITH log <- [s \in Streams |-> LogOf(s)]

\* The store implements the append-only hash-chained log: every step extends
\* one stream by one event linked to its tip, or changes no stream.
ImplementsEventLog == Log!LogSpec
=============================================================================
