------------------------------ MODULE EventLog ------------------------------
(***************************************************************************)
(* What the event substrate promises: every stream is one hash-chained,    *)
(* append-only log.  The only thing that ever happens to it is that one    *)
(* stream grows by one event whose sequence number is the next one and     *)
(* whose prev_hash is the hash of the event it follows.  EventStore, the   *)
(* three-phase append over IndexedDB, implements this specification.       *)
(***************************************************************************)
EXTENDS Naturals, Sequences

CONSTANTS Streams,   \* stream identifiers that share one database
          EventIds   \* UUIDv7 values an append can draw

VARIABLE log         \* log[s]: the sequence of envelopes of stream s

\* prev_hash of the first event of a stream (64 zeros in the code).
GenesisHash == << >>

\* SHA-256 of the canonical envelope, collision free: the fields it covers.
HashOf(id, s, n, prev) == <<id, s, n, prev>>

\* An envelope as it is stored; payload and metadata are determined by id.
Envelope(id, s, n, prev) ==
    [event_id  |-> id,
     stream_id |-> s,
     sequence  |-> n,
     prev_hash |-> prev,
     self_hash |-> HashOf(id, s, n, prev)]

\* The hash the next event of a log must name.
TipHash(l) == IF l = << >> THEN GenesisHash ELSE l[Len(l)].self_hash

LogInit == log = [s \in Streams |-> << >>]

LogAppend(s, id) ==
    log' = [log EXCEPT ![s] =
                Append(@, Envelope(id, s, Len(@), TipHash(@)))]

LogNext == \E s \in Streams, id \in EventIds : LogAppend(s, id)

LogSpec == LogInit /\ [][LogNext]_log
=============================================================================
