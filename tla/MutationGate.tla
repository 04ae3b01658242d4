---------------------------- MODULE MutationGate ----------------------------
(***************************************************************************)
(* Gate signals on their way from the TypeScript gate into Layer B: the    *)
(* POST /gate_signal handler of bridge.py with its acknowledgement guard,  *)
(* MutationGate.record_signal (gate.py) and the M2 write of                *)
(* CoreMatrix.receive_gate_signal.                                         *)
(*                                                                         *)
(* A request may arrive late, twice or never: the handler gets any signal  *)
(* at any time.  The server runs one handler at a time; the handler's      *)
(* three effects are separate steps because KeyboardInterrupt can leave    *)
(* it between them.  All of this is in memory only.                        *)
(***************************************************************************)
EXTENDS Integers, Sequences, FiniteSets, SequencesExt

CONSTANTS Proposals,   \* proposal identifiers
          NoProposal,  \* '': the signal names no proposal
          WINDOW_SIZE,
          MaxSequence, \* bound: highest sequence of a signal
          MaxRequests  \* bound: requests handled in one life of the server

ASSUME GateAssumption ==
    /\ WINDOW_SIZE \in Nat \ {0}
    /\ NoProposal \notin Proposals
    /\ MaxSequence \in Nat
    /\ MaxRequests \in Nat

VARIABLES process,           \* "up" or "stopped"
          handler,           \* the step of the running handler and its signal
          last_ack_sequence, \* bridge.py
          last_sequence,     \* gate._last_sequence
          window,            \* gate._window: the accepted flags, newest last
          verdicts,          \* gate._proposals: APPROVED or REJECTED, else PENDING
          sealed,            \* gate._sealed
          total_signals,     \* gate._total_signals
          requests,          \* requests the server took in this life
          recorded,          \* history: the signals the gate did not discard
          m2                 \* history: the proposals whose signal was written to M2

vars == <<process, handler, last_ack_sequence, last_sequence, window, verdicts,
          sealed, total_signals, requests, recorded, m2>>
gate == <<last_sequence, window, verdicts, sealed, total_signals>>

\* A request's body; -1 is the default for one without a sequence.
Signals == [sequence : (-1)..MaxSequence, proposal : Proposals \cup {NoProposal},
            accepted : BOOLEAN]
Idle == [at |-> "idle"]
Verdicts == {"PENDING", "APPROVED", "REJECTED"}

TypeOK ==
    /\ process \in {"up", "stopped"}
    /\ \/ handler = Idle
       \/ handler \in [at : {"record", "m2"}, signal : Signals]
    /\ last_ack_sequence \in (-1)..MaxSequence
    /\ last_sequence \in (-1)..MaxSequence
    /\ window \in Seq(BOOLEAN) /\ Len(window) <= WINDOW_SIZE
    /\ verdicts \in [Proposals -> Verdicts]
    /\ sealed \in BOOLEAN
    /\ total_signals \in Nat
    /\ requests \in Nat
    /\ recorded \in Seq(Signals)
    /\ m2 \subseteq Proposals

Init ==
    /\ process = "up"
    /\ handler = Idle
    /\ last_ack_sequence = -1
    /\ last_sequence = -1
    /\ window = << >>
    /\ verdicts = [p \in Proposals |-> "PENDING"]
    /\ sealed = FALSE
    /\ total_signals = 0
    /\ requests = 0
    /\ recorded = << >>
    /\ m2 = {}

-----------------------------------------------------------------------------
\* Mutant: the guard lets the acknowledged number through again.
AcknowledgeRepeat(s) ==
    /\ process = "up" /\ handler = Idle /\ requests < MaxRequests
    /\ requests' = requests + 1
    /\ IF s.sequence < last_ack_sequence
       THEN UNCHANGED <<handler, last_ack_sequence>>
       ELSE /\ last_ack_sequence' = s.sequence
            /\ handler' = [at |-> "record", signal |-> s]
    /\ UNCHANGED <<process, gate, recorded, m2>>

\* do_POST /gate_signal: the acknowledgement guard; 400 SEQUENCE_DESYNC or go on.
Acknowledge(s) ==
    /\ process = "up" /\ handler = Idle /\ requests < MaxRequests
    /\ requests' = requests + 1
    /\ IF s.sequence <= last_ack_sequence
       THEN UNCHANGED <<handler, last_ack_sequence>>
       ELSE /\ last_ack_sequence' = s.sequence
            /\ handler' = [at |-> "record", signal |-> s]
    /\ UNCHANGED <<process, gate, recorded, m2>>

\* Mutant: a full window keeps its oldest flags.
PushUnlessFull(w, flag) == IF Len(w) < WINDOW_SIZE THEN Append(w, flag) ELSE w

\* deque(maxlen = WINDOW_SIZE).append
Push(w, flag) ==
    IF Len(w) < WINDOW_SIZE THEN Append(w, flag) ELSE Append(Tail(w), flag)

\* sum(self._window): how many of the flags are True.
Accepted(w) == Cardinality({i \in DOMAIN w : w[i]})

\* _acceptance_rate() >= MIN_ACCEPTANCE_RATE, one half
VerdictOf(w) == IF 2 * Accepted(w) >= Len(w) THEN "APPROVED" ELSE "REJECTED"

\* Mutant: the verdict is taken before the signal joins the window.
record_signal_stale(s) ==
    /\ ~sealed
    /\ total_signals' = total_signals + 1
    /\ last_sequence' = s.sequence
    /\ window' = Push(window, s.accepted)
    /\ verdicts' = [p \in Proposals |-> IF p = s.proposal THEN VerdictOf(window) ELSE verdicts[p]]
    /\ UNCHANGED sealed

\* MutationGate.record_signal
record_signal(s) ==
    IF sealed THEN UNCHANGED gate
    ELSE /\ total_signals' = total_signals + 1
         /\ IF s.sequence <= last_sequence
            THEN UNCHANGED <<last_sequence, window, verdicts>>
            ELSE /\ last_sequence' = s.sequence
                 /\ window' = Push(window, s.accepted)
                 /\ verdicts' = [p \in Proposals |->
                        IF p = s.proposal THEN VerdictOf(window') ELSE verdicts[p]]
         /\ UNCHANGED sealed

\* The handler calls gate.record_signal.
Record ==
    /\ handler.at = "record"
    /\ record_signal(handler.signal)
    /\ recorded' = IF last_sequence' # last_sequence
                   THEN Append(recorded, handler.signal) ELSE recorded
    /\ handler' = [handler EXCEPT !.at = "m2"]
    /\ UNCHANGED <<process, last_ack_sequence, requests, m2>>

\* matrix.receive_gate_signal writes M2; the handler answers ACK.
receive_gate_signal ==
    /\ handler.at = "m2"
    /\ m2' = m2 \cup ({handler.signal.proposal} \ {NoProposal})
    /\ handler' = Idle
    /\ UNCHANGED <<process, gate, last_ack_sequence, requests, recorded>>

\* KeyboardInterrupt leaves serve_forever and the handler; the gate is sealed.
Interrupt ==
    /\ process = "up"
    /\ process' = "stopped"
    /\ handler' = Idle
    /\ sealed' = TRUE
    /\ UNCHANGED <<last_ack_sequence, last_sequence, window, verdicts,
                   total_signals, requests, recorded, m2>>

\* A new process: the module state of bridge.py and gate.py from the start.
Restart ==
    /\ process = "stopped"
    /\ process' = "up"
    /\ last_ack_sequence' = -1
    /\ last_sequence' = -1
    /\ window' = << >>
    /\ verdicts' = [p \in Proposals |-> "PENDING"]
    /\ sealed' = FALSE
    /\ total_signals' = 0
    /\ requests' = 0
    /\ recorded' = << >>
    /\ m2' = {}
    /\ UNCHANGED handler

Next ==
    \/ \E s \in Signals : Acknowledge(s)
    \/ Record
    \/ receive_gate_signal
    \/ Interrupt
    \/ Restart

Spec == Init /\ [][Next]_vars

-----------------------------------------------------------------------------
Serving == process = "up" /\ handler = Idle

\* The two guards on a signal's sequence, one in the bridge and one in the
\* gate, agree between requests: a signal the bridge acknowledges is never
\* discarded by the gate, and one the gate would discard is never acknowledged.
GuardsAgree ==
    Serving => /\ last_ack_sequence = last_sequence
               /\ total_signals = Len(recorded)

\* Late and repeated deliveries leave no trace: the recorded signals are in
\* strictly increasing order and the window holds the newest of them.
WindowIsRecent ==
    Serving =>
        LET n    == Len(recorded)
            from == IF n < WINDOW_SIZE THEN 0 ELSE n - WINDOW_SIZE
        IN  /\ \A i \in 1..(n - 1) : recorded[i].sequence < recorded[i + 1].sequence
            /\ window = [i \in 1..(n - from) |-> recorded[from + i].accepted]

\* The signals the gate looked at when it last judged p: the newest WINDOW_SIZE
\* up to and with the last one that names p.
Judged(p) ==
    LET last == SelectLastInSeq(recorded, LAMBDA s : s.proposal = p)
    IN  {i \in 1..last : i > last - WINDOW_SIZE}

\* A proposal's verdict is what the signals around its last mention say: a
\* proposal nobody mentioned is pending, one is approved when at least half of
\* the signals judged with it were accepted.
VerdictMatchesHistory ==
    Serving =>
        \A p \in Proposals :
            LET accepted == {i \in Judged(p) : recorded[i].accepted}
            IN  verdicts[p] =
                    IF Judged(p) = {} THEN "PENDING"
                    ELSE IF 2 * Cardinality(accepted) >= Cardinality(Judged(p))
                    THEN "APPROVED" ELSE "REJECTED"

\* What gate.py says: M2 is written for a proposal only once the gate approved
\* its mutation.
M2WritesApproved == [][\A p \in m2' \ m2 : verdicts[p] = "APPROVED"]_vars
=============================================================================
