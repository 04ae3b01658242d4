---------------------------- MODULE BridgeProofs ----------------------------
(***************************************************************************)
(* Proofs about the two models of bridge.py's requests: MutationGate, what *)
(* the gate signals do, for any window size, any set of proposals and any  *)
(* bound on the signals, and BridgeServer, how connections are served, for *)
(* any set of clients.  GuardsAgree speaks of the server between two       *)
(* requests; IInv adds what holds while a handler is between its effects,  *)
(* and that the gate is sealed only when the server has stopped.  A stream *)
(* saves once because nothing else is handled while it runs; for that      *)
(* ServerIInv says which connections there are: the one being handled and  *)
(* those in the backlog are different clients, each with a request.        *)
(***************************************************************************)
EXTENDS MutationGate, BridgeServer, FiniteSetTheorems, SequenceTheorems, TLAPS

\* The flags of a history, and the part of them the window must hold.
First(n)  == IF n < WINDOW_SIZE THEN 0 ELSE n - WINDOW_SIZE
Newest(q) == [i \in 1..(Len(q) - First(Len(q))) |-> q[First(Len(q)) + i]]
Flags(h)  == [i \in 1..Len(h) |-> h[i].accepted]

\* The recorded signals increase, and the gate remembers the last of them.
Increasing ==
    /\ \A i \in 1..(Len(recorded) - 1) : recorded[i].sequence < recorded[i + 1].sequence
    /\ last_sequence = IF recorded = << >> THEN -1 ELSE recorded[Len(recorded)].sequence

\* The guards while the handler runs: acknowledged, then recorded.
GuardSteps ==
    /\ sealed => process = "stopped"
    /\ handler # Idle => process = "up"
    /\ handler # Idle /\ handler.at = "record" =>
          last_ack_sequence = handler.signal.sequence /\ last_sequence < last_ack_sequence
    /\ process = "up" /\ (handler = Idle \/ handler.at = "m2") =>
          last_ack_sequence = last_sequence

\* The inductive invariant.
IInv == /\ TypeOK
        /\ Increasing
        /\ GuardSteps
        /\ total_signals = Len(recorded)
        /\ window = Newest(Flags(recorded))

-----------------------------------------------------------------------------
\* The bounded deque: its type and its bound.
LEMMA PushType ==
  ASSUME NEW S, NEW w \in Seq(S), Len(w) <= WINDOW_SIZE, NEW x \in S
  PROVE  Push(w, x) \in Seq(S) /\ Len(Push(w, x)) <= WINDOW_SIZE
  <1>1. WINDOW_SIZE \in Nat /\ WINDOW_SIZE >= 1
    BY GateAssumption
  <1>2. CASE Len(w) < WINDOW_SIZE
    BY <1>1, <1>2 DEF Push
  <1>3. CASE ~(Len(w) < WINDOW_SIZE)
    <2>1. Tail(w) \in Seq(S) /\ Len(Tail(w)) = Len(w) - 1
      BY <1>1, <1>3
    <2> QED BY <1>1, <1>3, <2>1 DEF Push
  <1> QED BY <1>2, <1>3

\* A function on 1..n is a sequence of length n.
LEMMA FunctionIsSeq ==
  ASSUME NEW S, NEW n \in Nat, NEW fn \in [1..n -> S]
  PROVE  fn \in Seq(S) /\ Len(fn) = n
  OBVIOUS

\* Appending to the bounded deque keeps exactly the newest WINDOW_SIZE flags.
LEMMA PushKeepsNewest ==
  ASSUME NEW S, NEW q \in Seq(S), NEW x \in S
  PROVE  Push(Newest(q), x) = Newest(Append(q, x))
  <1> DEFINE n == Len(q)
             W == WINDOW_SIZE
             g == Append(q, x)
  <1>1. n \in Nat /\ \A i \in 1..n : q[i] \in S
    OBVIOUS
  <1>2. /\ g \in Seq(S) /\ Len(g) = n + 1 /\ g[n + 1] = x
        /\ \A i \in 1..n : g[i] = q[i]
    BY AppendProperties
  <1>3. W \in Nat /\ W >= 1
    BY GateAssumption
  <1>4. CASE n < W
    <2>1. First(n) = 0 /\ First(n + 1) = 0
      BY <1>1, <1>3, <1>4 DEF First
    <2>2. Newest(q) = q
      BY <2>1 DEF Newest
    <2>3. \A r \in Seq(S) : Len(r) = n + 1 => Newest(r) = r
      BY <1>1, <2>1 DEF Newest
    <2>4. Newest(g) = g
      BY <1>2, <2>3
    <2> QED
      BY <1>4, <2>2, <2>4 DEF Push
  <1>5. CASE n >= W
    <2> DEFINE f == n - W
    <2>1. First(n) = f /\ First(n + 1) = f + 1 /\ f \in Nat
      BY <1>1, <1>3, <1>5 DEF First
    <2>2. n - First(n) = W /\ (n + 1) - First(n + 1) = W
      BY <1>1, <1>3, <2>1
    <2>3. Newest(q) = [i \in 1..W |-> q[f + i]]
      BY <2>1, <2>2 DEF Newest
    <2>4. \A i \in 1..W : q[f + i] \in S
      <3>1. \A i \in 1..W : f + i \in 1..n
        BY <1>1, <1>3, <2>1
      <3> QED BY <1>1, <3>1
    <2> DEFINE w == Newest(q)
               a == Append(Tail(w), x)
               b == Newest(g)
    <2>5. w \in [1..W -> S] /\ \A i \in 1..W : w[i] = q[f + i]
      BY <2>3, <2>4
    <2>6. w \in Seq(S) /\ Len(w) = W
      BY <1>3, <2>5, FunctionIsSeq
    <2>7. w # << >>
      BY <1>3, <2>6
    <2>8. /\ Tail(w) \in Seq(S) /\ Len(Tail(w)) = W - 1
          /\ \A i \in 1..(W - 1) : Tail(w)[i] = w[i + 1]
      BY <2>6, <2>7, HeadTailProperties
    <2>9. /\ a \in Seq(S) /\ Len(a) = (W - 1) + 1
          /\ \A i \in 1..(W - 1) : a[i] = Tail(w)[i]
          /\ a[(W - 1) + 1] = x
      BY <2>8, AppendProperties
    <2>10. b = [i \in 1..W |-> g[f + 1 + i]]
      <3>1. First(Len(g)) = f + 1 /\ Len(g) - First(Len(g)) = W
        BY <1>2, <2>1, <2>2
      <3> HIDE DEF g
      <3> QED BY <3>1 DEF Newest
    <2>11. \A i \in 1..W : g[f + 1 + i] \in S
      <3>1. \A i \in 1..W : f + 1 + i \in 1..(n + 1)
        BY <1>1, <1>3, <2>1
      <3>2. \A j \in 1..(n + 1) : g[j] \in S
        BY <1>1, <1>2
      <3> QED BY <3>1, <3>2
    <2>12. b \in [1..W -> S] /\ \A i \in 1..W : b[i] = g[f + 1 + i]
      BY <2>10, <2>11
    <2>13. b \in Seq(S) /\ Len(b) = W
      BY <1>3, <2>12, FunctionIsSeq
    <2>14. Len(a) = W /\ a[W] = x
      BY <1>3, <2>9
    <2>15. ASSUME NEW i \in 1..W PROVE a[i] = b[i]
      <3>1. CASE i = W
        <4>1. f + 1 + i = n + 1
          BY <3>1, <1>1, <1>3
        <4> QED BY <3>1, <4>1, <1>2, <2>12, <2>14
      <3>2. CASE i # W
        <4>1. i \in 1..(W - 1) /\ i + 1 \in 1..W
          BY <3>2, <1>3
        <4>2. a[i] = q[f + (i + 1)]
          BY <4>1, <2>5, <2>8, <2>9
        <4>3. f + (i + 1) = f + 1 + i /\ f + 1 + i \in 1..n
          BY <4>1, <1>1, <1>3, <2>1
        <4> QED BY <4>2, <4>3, <1>2, <2>12
      <3> QED BY <3>1, <3>2
    <2>16. a = b
      <3> HIDE DEF a, b
      <3> QED BY <2>9, <2>13, <2>14, <2>15, SeqEqual
    <2>17. Push(w, x) = a
      <3> HIDE DEF w
      <3> QED BY <1>3, <2>6 DEF Push
    <2> QED
      BY <2>16, <2>17
  <1> QED
    BY <1>1, <1>3, <1>4, <1>5

\* The flags of a longer history.
LEMMA FlagsAppend ==
  ASSUME NEW S, \A r \in Signals : r.accepted \in S,
         NEW h \in Seq(Signals), NEW s \in Signals
  PROVE  /\ Flags(h) \in Seq(S)
         /\ Flags(Append(h, s)) = Append(Flags(h), s.accepted)
  <1> DEFINE n == Len(h)
             g == Append(h, s)
             x == s.accepted
             k == Flags(h)
             a == Append(k, x)
             b == Flags(g)
  <1>1. n \in Nat /\ \A i \in 1..n : h[i] \in Signals
    OBVIOUS
  <1>2. /\ g \in Seq(Signals) /\ Len(g) = n + 1 /\ g[n + 1] = s
        /\ \A i \in 1..n : g[i] = h[i]
    BY AppendProperties
  <1>3. k \in [1..n -> S] /\ \A i \in 1..n : k[i] = h[i].accepted
    BY <1>1 DEF Flags
  <1>4. k \in Seq(S) /\ Len(k) = n
    BY <1>1, <1>3, FunctionIsSeq
  <1>5. x \in S
    OBVIOUS
  <1>6. /\ a \in Seq(S) /\ Len(a) = n + 1 /\ a[n + 1] = x
        /\ \A i \in 1..n : a[i] = k[i]
    <2> HIDE DEF k, x
    <2> QED BY <1>4, <1>5, AppendProperties
  <1>7. \A i \in 1..(n + 1) : g[i] \in Signals
    BY <1>1, <1>2
  <1>8. b = [i \in 1..(n + 1) |-> g[i].accepted]
    <2> HIDE DEF g
    <2> QED BY <1>2 DEF Flags
  <1>9. b \in [1..(n + 1) -> S] /\ \A i \in 1..(n + 1) : b[i] = g[i].accepted
    BY <1>7, <1>8
  <1>10. b \in Seq(S) /\ Len(b) = n + 1
    <2> HIDE DEF b
    <2> QED BY <1>1, <1>9, FunctionIsSeq
  <1>11. \A i \in 1..(n + 1) : a[i] = b[i]
    BY <1>1, <1>2, <1>3, <1>6, <1>9
  <1>12. a = b
    <2> HIDE DEF a, b
    <2> QED BY <1>6, <1>10, <1>11, SeqEqual
  <1> QED
    BY <1>4, <1>12

\* The empty window.
LEMMA EmptyWindow ==
  ASSUME NEW S
  PROVE  << >> \in Seq(S) /\ Len(<< >>) = 0
  OBVIOUS

\* An empty history has an empty window.
LEMMA EmptyHistory == << >> = Newest(Flags(<< >>))
  <1>1. Flags(<< >>) = << >>
    BY DEF Flags
  <1>2. First(0) = 0
    BY GateAssumption DEF First
  <1> QED
    BY <1>1, <1>2 DEF Newest

\* The initial gate satisfies the invariant.
LEMMA InitIInv == Init => IInv
  <1> SUFFICES ASSUME Init PROVE IInv
    OBVIOUS
  <1>1. TypeOK
    <2>1. window \in Seq(BOOLEAN) /\ Len(window) <= WINDOW_SIZE
      BY EmptyWindow, GateAssumption DEF Init
    <2>2. recorded \in Seq(Signals)
      BY DEF Init
    <2>3. verdicts \in [Proposals -> Verdicts] /\ sealed \in BOOLEAN
      BY DEF Init, Verdicts
    <2>4. last_ack_sequence \in (-1)..MaxSequence /\ last_sequence \in (-1)..MaxSequence
      BY GateAssumption DEF Init
    <2>5. total_signals \in Nat /\ requests \in Nat /\ m2 \subseteq Proposals
      BY DEF Init
    <2>6. process \in {"up", "stopped"} /\ handler = Idle
      BY DEF Init
    <2> QED
      BY <2>1, <2>2, <2>3, <2>4, <2>5, <2>6 DEF TypeOK
  <1>2. Increasing /\ GuardSteps /\ total_signals = Len(recorded)
    BY DEF Init, Increasing, GuardSteps, Idle
  <1>3. window = Newest(Flags(recorded))
    BY EmptyHistory DEF Init
  <1> QED
    BY <1>1, <1>2, <1>3 DEF IInv

\* The acknowledgement guard keeps the invariant.
LEMMA AcknowledgeIInv ==
  ASSUME IInv, NEW s \in Signals, Acknowledge(s)
  PROVE  IInv'
  <1>1. UNCHANGED <<process, last_sequence, window, verdicts, sealed, total_signals, recorded, m2>>
    BY DEF Acknowledge, gate
  <1>2. /\ s.sequence \in (-1)..MaxSequence /\ last_sequence \in (-1)..MaxSequence
        /\ last_ack_sequence \in (-1)..MaxSequence /\ requests \in Nat
    BY DEF IInv, TypeOK, Signals
  <1>3. last_ack_sequence = last_sequence /\ process = "up" /\ handler = Idle
    BY DEF IInv, GuardSteps, Acknowledge
  <1>4. CASE s.sequence <= last_ack_sequence
    <2>1. UNCHANGED <<handler, last_ack_sequence>> /\ requests' \in Nat
      BY <1>2, <1>4 DEF Acknowledge
    <2>2. TypeOK' /\ GuardSteps' /\ Increasing'
      BY <1>1, <2>1 DEF IInv, TypeOK, GuardSteps, Increasing
    <2> QED BY <1>1, <2>2 DEF IInv
  <1>5. CASE ~(s.sequence <= last_ack_sequence)
    <2>1. /\ last_ack_sequence' = s.sequence /\ requests' \in Nat
          /\ handler' = [at |-> "record", signal |-> s]
      BY <1>2, <1>5 DEF Acknowledge
    <2>2. TypeOK'
      BY <1>1, <1>2, <2>1 DEF IInv, TypeOK
    <2>3. last_sequence < s.sequence
      BY <1>2, <1>3, <1>5, GateAssumption
    <2>4. GuardSteps' /\ Increasing'
      BY <1>1, <1>3, <2>1, <2>3 DEF IInv, GuardSteps, Increasing, Idle
    <2> QED BY <1>1, <2>2, <2>4 DEF IInv
  <1> QED BY <1>4, <1>5

\* record_signal keeps the invariant: what the bridge let through is newer than
\* anything the gate has seen, so it is recorded.
LEMMA RecordIInv ==
  ASSUME IInv, Record
  PROVE  IInv'
  <1> DEFINE s == handler.signal
  <1>1. handler # Idle /\ handler \in [at : {"record", "m2"}, signal : Signals]
    BY DEF IInv, TypeOK, Record, Idle
  <1>2. /\ process = "up" /\ ~sealed
        /\ last_ack_sequence = s.sequence /\ last_sequence < last_ack_sequence
    BY <1>1 DEF IInv, GuardSteps, Record
  <1>3. s \in Signals /\ s.sequence \in (-1)..MaxSequence /\ s.accepted \in BOOLEAN
    BY <1>1 DEF Signals
  <1>4. last_sequence \in (-1)..MaxSequence /\ ~(s.sequence <= last_sequence)
    BY <1>2, <1>3, GateAssumption DEF IInv, TypeOK
  <1>5. /\ total_signals' = total_signals + 1
        /\ last_sequence' = s.sequence
        /\ window' = Push(window, s.accepted)
        /\ verdicts' = [p \in Proposals |->
              IF p = s.proposal THEN VerdictOf(window') ELSE verdicts[p]]
        /\ UNCHANGED <<sealed, process, last_ack_sequence, requests, m2>>
        /\ handler' = [handler EXCEPT !.at = "m2"]
    BY <1>2, <1>4 DEF Record, record_signal
  <1>6. recorded \in Seq(Signals) /\ recorded' = Append(recorded, s)
    BY <1>4, <1>5, <1>3, <1>2, GateAssumption DEF Record, IInv, TypeOK
  <1>7. window' = Newest(Flags(recorded'))
    <2>1. \A r \in Signals : r.accepted \in BOOLEAN
      BY DEF Signals
    <2>2. /\ Flags(recorded) \in Seq(BOOLEAN)
          /\ Flags(Append(recorded, s)) = Append(Flags(recorded), s.accepted)
      BY <1>3, <1>6, <2>1, FlagsAppend
    <2>3. Push(Newest(Flags(recorded)), s.accepted) = Newest(Append(Flags(recorded), s.accepted))
      BY <1>3, <2>2, PushKeepsNewest
    <2> QED
      BY <1>5, <1>6, <2>2, <2>3 DEF IInv
  <1>8. recorded' \in Seq(Signals) /\ Len(recorded') = Len(recorded) + 1
        /\ total_signals' = Len(recorded') /\ total_signals' \in Nat
    BY <1>3, <1>5, <1>6 DEF IInv, TypeOK
  <1>9. window' \in Seq(BOOLEAN) /\ Len(window') <= WINDOW_SIZE
    <2>1. window \in Seq(BOOLEAN) /\ Len(window) <= WINDOW_SIZE
      BY DEF IInv, TypeOK
    <2>2. Push(window, s.accepted) \in Seq(BOOLEAN) /\ Len(Push(window, s.accepted)) <= WINDOW_SIZE
      BY <1>3, <2>1, PushType
    <2> QED BY <1>5, <2>2
  <1>10. verdicts' \in [Proposals -> Verdicts]
    BY <1>5 DEF IInv, TypeOK, VerdictOf, Verdicts
  <1>11. handler' \in [at : {"record", "m2"}, signal : Signals] /\ handler'.at = "m2"
    BY <1>1, <1>5
  <1>12. TypeOK'
    BY <1>3, <1>5, <1>8, <1>9, <1>10, <1>11 DEF IInv, TypeOK
  <1>13. Increasing'
    <2>1. recorded' # << >> /\ recorded'[Len(recorded')] = s
      BY <1>3, <1>6, <1>8
    <2>2. ASSUME NEW i \in 1..(Len(recorded') - 1)
          PROVE  recorded'[i].sequence < recorded'[i + 1].sequence
      <3>1. CASE i < Len(recorded)
        BY <3>1, <1>3, <1>6, <1>8 DEF IInv, Increasing
      <3>2. CASE i = Len(recorded)
        BY <3>2, <1>2, <1>3, <1>6, <1>8 DEF IInv, Increasing
      <3> QED BY <1>6, <1>8, <3>1, <3>2
    <2> QED BY <1>5, <2>1, <2>2 DEF Increasing
  <1>14. GuardSteps'
    BY <1>2, <1>5, <1>11 DEF IInv, GuardSteps
  <1> QED
    BY <1>7, <1>8, <1>12, <1>13, <1>14 DEF IInv

\* The M2 write, the shutdown and the restart keep the invariant.
LEMMA OtherIInv ==
  ASSUME IInv, receive_gate_signal \/ Interrupt \/ Restart \/ UNCHANGED vars
  PROVE  IInv'
  <1>1. CASE receive_gate_signal
    <2>1. /\ UNCHANGED <<process, last_ack_sequence, last_sequence, window, verdicts,
                         sealed, total_signals, requests, recorded>>
          /\ handler' = Idle /\ handler # Idle /\ handler.at = "m2"
      BY <1>1 DEF receive_gate_signal, gate, Idle
    <2>2. handler \in [at : {"record", "m2"}, signal : Signals]
      BY <2>1 DEF IInv, TypeOK
    <2>3. m2' \subseteq Proposals
      BY <1>1, <2>2 DEF receive_gate_signal, Signals, IInv, TypeOK
    <2>4. TypeOK'
      BY <2>1, <2>3 DEF IInv, TypeOK
    <2>5. GuardSteps' /\ Increasing'
      BY <2>1 DEF IInv, GuardSteps, Increasing
    <2> QED BY <2>1, <2>4, <2>5 DEF IInv
  <1>2. CASE Interrupt
    <2>1. TypeOK'
      BY <1>2 DEF Interrupt, IInv, TypeOK
    <2>2. GuardSteps' /\ Increasing'
      BY <1>2 DEF Interrupt, IInv, GuardSteps, Increasing
    <2> QED BY <1>2, <2>1, <2>2 DEF IInv, Interrupt
  <1>3. CASE Restart
    <2>1. handler = Idle
      BY <1>3 DEF Restart, IInv, GuardSteps
    <2>2. TypeOK'
      <3>1. window' \in Seq(BOOLEAN) /\ Len(window') <= WINDOW_SIZE
        BY <1>3, EmptyWindow, GateAssumption DEF Restart
      <3>2. recorded' \in Seq(Signals) /\ m2' \subseteq Proposals
        BY <1>3 DEF Restart
      <3>3. verdicts' \in [Proposals -> Verdicts] /\ sealed' \in BOOLEAN
        BY <1>3 DEF Restart, Verdicts
      <3>4. last_ack_sequence' \in (-1)..MaxSequence /\ last_sequence' \in (-1)..MaxSequence
        BY <1>3, GateAssumption DEF Restart
      <3>5. /\ total_signals' \in Nat /\ requests' \in Nat
            /\ process' \in {"up", "stopped"} /\ handler' = Idle
        BY <1>3, <2>1 DEF Restart
      <3> QED
        BY <3>1, <3>2, <3>3, <3>4, <3>5 DEF TypeOK
    <2>3. GuardSteps' /\ Increasing'
      BY <1>3, <2>1 DEF Restart, GuardSteps, Increasing
    <2>4. window' = Newest(Flags(recorded')) /\ total_signals' = Len(recorded')
      BY <1>3, EmptyHistory DEF Restart
    <2> QED BY <2>2, <2>3, <2>4 DEF IInv
  <1>4. CASE UNCHANGED vars
    <2>1. TypeOK'
      BY <1>4 DEF IInv, TypeOK, vars
    <2>2. GuardSteps' /\ Increasing'
      BY <1>4 DEF IInv, GuardSteps, Increasing, vars
    <2> QED BY <1>4, <2>1, <2>2 DEF IInv, vars
  <1> QED BY <1>1, <1>2, <1>3, <1>4

\* The inductive invariant holds in every reachable state.
THEOREM InvariantHolds == Spec => []IInv
  <1>1. IInv /\ [Next]_vars => IInv'
    BY AcknowledgeIInv, RecordIInv, OtherIInv DEF Next
  <1> QED
    BY <1>1, InitIInv, PTL DEF Spec

\* Type correctness of the handler and the gate.
THEOREM TypeCorrect == Spec => []TypeOK
  <1>1. IInv => TypeOK
    BY DEF IInv
  <1> QED
    BY <1>1, InvariantHolds, PTL

\* The acknowledgement guard of the bridge and the duplicate guard of the gate
\* agree between requests: every acknowledged signal was recorded.
THEOREM GuardsCorrect == Spec => []GuardsAgree
  <1>1. IInv => GuardsAgree
    BY DEF IInv, GuardsAgree, Serving, GuardSteps
  <1> QED
    BY <1>1, InvariantHolds, PTL

\* The window is the newest WINDOW_SIZE recorded signals, in increasing order,
\* whatever was delivered late or twice.
THEOREM WindowCorrect == Spec => []WindowIsRecent
  <1>1. ASSUME IInv PROVE WindowIsRecent
    <2>1. PICK n \in Nat : n = Len(recorded)
      BY <1>1 DEF IInv, TypeOK
    <2>2. First(n) \in Nat /\ First(n) <= n
      BY <2>1, GateAssumption DEF First
    <2>3. Len(Flags(recorded)) = n /\ \A i \in 1..n : Flags(recorded)[i] = recorded[i].accepted
      BY <2>1 DEF Flags
    <2>4. window = [i \in 1..(n - First(n)) |-> Flags(recorded)[First(n) + i]]
      BY <1>1, <2>3 DEF IInv, Newest
    <2>5. window = [i \in 1..(n - First(n)) |-> recorded[First(n) + i].accepted]
      BY <2>1, <2>2, <2>3, <2>4
    <2> QED
      BY <1>1, <2>1, <2>5 DEF IInv, Increasing, WindowIsRecent, First
  <1> QED
    BY <1>1, InvariantHolds, PTL
-----------------------------------------------------------------------------
(* Verdicts.  A verdict is not a function of the window: it was taken when *)
(* the proposal was last mentioned, from a window that has moved on.       *)

\* The last signal of a history that names p, 0 without one.
LastMention(h, p) == SelectLastInSeq(h, LAMBDA r : r.proposal = p)

\* The signals of a history of which the gate judged when `last' arrived.
JudgedAt(last) == {i \in 1..last : i > last - WINDOW_SIZE}

\* What the signals judged at `last' make of a proposal.
Ruling(h, last) ==
    IF JudgedAt(last) = {} THEN "PENDING"
    ELSE IF 2 * Cardinality({i \in JudgedAt(last) : h[i].accepted})
              >= Cardinality(JudgedAt(last))
    THEN "APPROVED" ELSE "REJECTED"

\* Each verdict is the ruling at the proposal's last mention, also while a
\* handler runs and after the server stopped.
VerdictsKept ==
    \A p \in Proposals :
        /\ LastMention(recorded, p) \in 0..Len(recorded)
        /\ verdicts[p] = Ruling(recorded, LastMention(recorded, p))

\* A new signal is the last mention of the proposal it names and of no other.
LEMMA LastMentionAppend ==
  ASSUME NEW h \in Seq(Signals), NEW s \in Signals, NEW p
  PROVE  LastMention(Append(h, s), p) =
            IF s.proposal = p THEN Len(h) + 1 ELSE LastMention(h, p)
  <1> DEFINE n == Len(h)
             g == Append(h, s)
             Old == {i \in 1..n : h[i].proposal = p}
             New == {i \in 1..(n + 1) : g[i].proposal = p}
  <1>1. n \in Nat /\ Len(g) = n + 1 /\ g[n + 1] = s /\ \A i \in 1..n : g[i] = h[i]
    BY AppendProperties
  <1>2. LastMention(h, p) = IF Old # {} THEN Max(Old) ELSE 0
    BY DEF LastMention, SelectLastInSeq
  <1>3. LastMention(g, p) = IF New # {} THEN Max(New) ELSE 0
    <2> HIDE DEF g
    <2>1. LastMention(g, p) = LET I == {i \in 1..Len(g) : g[i].proposal = p}
                              IN  IF I # {} THEN Max(I) ELSE 0
      BY DEF LastMention, SelectLastInSeq
    <2> QED BY <1>1, <2>1
  <1> HIDE DEF g
  <1>4. CASE s.proposal = p
    <2>1. n + 1 \in New /\ \A i \in New : i \in Int /\ n + 1 >= i
      BY <1>1, <1>4
    <2> HIDE DEF New
    <2>2. PICK m : m = Max(New)
      OBVIOUS
    <2>3. m \in New /\ \A i \in New : m >= i
      BY <2>1, <2>2 DEF Max
    <2>4. m = n + 1
      BY <1>1, <2>1, <2>3
    <2> QED BY <1>3, <1>4, <2>1, <2>2, <2>4 DEF g
  <1>5. CASE s.proposal # p
    <2>1. New = Old
      BY <1>1, <1>5
    <2> HIDE DEF New, Old
    <2> QED BY <1>2, <1>3, <1>5, <2>1 DEF g
  <1> QED BY <1>4, <1>5

\* Signals that come later do not change what was judged before them.
LEMMA RulingAppend ==
  ASSUME NEW h \in Seq(Signals), NEW s \in Signals, NEW last \in 0..Len(h)
  PROVE  Ruling(Append(h, s), last) = Ruling(h, last)
  <1> DEFINE g == Append(h, s)
  <1>1. \A i \in 1..Len(h) : g[i] = h[i]
    BY AppendProperties
  <1>2. \A i \in JudgedAt(last) : i \in 1..Len(h)
    BY DEF JudgedAt
  <1> HIDE DEF g
  <1>3. {i \in JudgedAt(last) : g[i].accepted} = {i \in JudgedAt(last) : h[i].accepted}
    BY <1>1, <1>2
  <1>4. Ruling(g, last) = Ruling(h, last)
    BY <1>3, Zenon DEF Ruling
  <1> QED BY <1>4 DEF g

\* The window of a history that ends at `last' holds the flags judged there,
\* so the gate's verdict on it is the ruling.
LEMMA VerdictIsRuling ==
  ASSUME NEW h \in Seq(Signals), h # << >>
  PROVE  VerdictOf(Newest(Flags(h))) = Ruling(h, Len(h))
  <1> DEFINE n == Len(h)
             f == First(n)
             k == n - f
             w == Newest(Flags(h))
             J == JudgedAt(n)
             A == {i \in 1..k : w[i]}
             B == {i \in J : h[i].accepted}
  <1>1. n \in Nat \ {0} /\ WINDOW_SIZE \in Nat \ {0}
    BY GateAssumption
  <1>2. f \in Nat /\ k \in Nat \ {0} /\ f + k = n
    BY <1>1 DEF First
  <1>3. J = (f + 1)..n
    BY <1>1, <1>2 DEF JudgedAt, First
  <1>4. \A i \in 1..k : f + i \in 1..n
    BY <1>1, <1>2
  <1>5. /\ DOMAIN w = 1..k /\ Len(w) = k
        /\ \A i \in 1..k : w[i] = h[f + i].accepted
    <2>1. Flags(h) = [i \in 1..n |-> h[i].accepted]
      BY DEF Flags
    <2>2. Len(Flags(h)) = n
      BY <1>1, <2>1
    <2>3. w = [i \in 1..k |-> Flags(h)[f + i]]
      BY <2>2 DEF Newest
    <2> HIDE DEF w, f
    <2>4. DOMAIN w = 1..k /\ Len(w) = k
      <3> HIDE DEF k
      <3> QED BY <1>2, <2>3
    <2>5. \A i \in 1..k : w[i] = h[f + i].accepted
      BY <1>4, <2>1, <2>3
    <2> QED BY <2>4, <2>5
  <1> HIDE DEF w, f, k, J
  <1>6. IsFiniteSet(J) /\ Cardinality(J) = k
    BY <1>1, <1>2, <1>3, FS_Interval
  <1>7. Cardinality(A) = Cardinality(B)
    <2> DEFINE shift == [i \in A |-> f + i]
    <2>1. \A i \in A : i \in 1..k /\ f + i \in B
      BY <1>2, <1>3, <1>5
    <2>2. shift \in [A -> B]
      BY <2>1
    <2>3. \A i, j \in A : shift[i] = shift[j] => i = j
      BY <1>2, <2>1
    <2>4. \A j \in B : \E i \in A : shift[i] = j
      <3>1. SUFFICES ASSUME NEW j \in B PROVE \E i \in A : shift[i] = j
        OBVIOUS
      <3>2. j \in Nat /\ j - f \in 1..k /\ f + (j - f) = j
        BY <1>2, <1>3
      <3>3. j - f \in A
        BY <1>5, <3>2
      <3> QED BY <3>2, <3>3
    <2>5. ExistsBijection(A, B)
      <3> HIDE DEF A, B, shift
      <3>1. shift \in Bijection(A, B)
        BY <2>2, <2>3, <2>4, Zenon DEF Bijection, Injection, Surjection, IsInjective
      <3> QED BY <3>1 DEF ExistsBijection
    <2>6. IsFiniteSet(A)
      <3>1. IsFiniteSet(1..k) /\ A \in SUBSET (1..k)
        <4>1. k \in Int /\ 1 \in Int /\ A \in SUBSET (1..k)
          BY <1>2
        <4> HIDE DEF k, A
        <4> QED BY <4>1, FS_Interval
      <3> HIDE DEF A
      <3> QED BY <3>1, FS_Subset
    <2> QED
      BY <2>5, <2>6, FS_Bijection
  <1>8. J # {}
    <2>1. n \in J
      BY <1>1, <1>2, <1>3
    <2> QED BY <2>1
  <1>9. VerdictOf(w) = IF 2 * Cardinality(A) >= k THEN "APPROVED" ELSE "REJECTED"
    BY <1>5 DEF VerdictOf, Accepted
  <1>10. Ruling(h, n) = IF 2 * Cardinality(B) >= k THEN "APPROVED" ELSE "REJECTED"
    BY <1>6, <1>8 DEF Ruling, J
  <1>11. VerdictOf(w) = Ruling(h, n)
    BY <1>7, <1>9, <1>10
  <1> QED
    BY <1>11 DEF w

\* Nobody was mentioned in an empty history.
LEMMA NobodyMentioned ==
  ASSUME NEW p
  PROVE  LastMention(<< >>, p) = 0 /\ Ruling(<< >>, 0) = "PENDING"
  BY DEF LastMention, SelectLastInSeq, Ruling, JudgedAt

\* Every step keeps the verdicts.
LEMMA VerdictsStep ==
  ASSUME IInv, IInv', VerdictsKept, [Next]_vars
  PROVE  VerdictsKept'
  <1>1. CASE Record
    <2> DEFINE s == handler.signal
    <2>1. handler # Idle /\ handler \in [at : {"record", "m2"}, signal : Signals]
      BY <1>1 DEF IInv, TypeOK, Record, Idle
    <2>2. ~sealed /\ last_sequence < s.sequence
      BY <1>1, <2>1 DEF IInv, GuardSteps, Record
    <2>3. /\ s \in Signals /\ s.sequence \in (-1)..MaxSequence
          /\ last_sequence \in (-1)..MaxSequence
          /\ recorded \in Seq(Signals) /\ verdicts \in [Proposals -> Verdicts]
      BY <2>1 DEF Signals, IInv, TypeOK
    <2>4. ~(s.sequence <= last_sequence) /\ s.sequence # last_sequence
      BY <2>2, <2>3, GateAssumption
    <2>5. /\ recorded' = Append(recorded, s)
          /\ verdicts' = [p \in Proposals |->
                IF p = s.proposal THEN VerdictOf(window') ELSE verdicts[p]]
      BY <1>1, <2>2, <2>4 DEF Record, record_signal
    <2>6. recorded' \in Seq(Signals) /\ Len(recorded') = Len(recorded) + 1
          /\ recorded' # << >> /\ Len(recorded) \in Nat
      BY <2>3, <2>5
    <2>7. SUFFICES ASSUME NEW p \in Proposals
                   PROVE  /\ LastMention(recorded', p) \in 0..Len(recorded')
                          /\ verdicts'[p] = Ruling(recorded', LastMention(recorded', p))
      BY DEF VerdictsKept
    <2>8. CASE p = s.proposal
      <3>1. LastMention(recorded', p) = Len(recorded')
        BY <2>3, <2>5, <2>6, <2>8, LastMentionAppend
      <3>2. verdicts'[p] = VerdictOf(Newest(Flags(recorded')))
        BY <2>5, <2>8 DEF IInv
      <3> QED BY <2>6, <3>1, <3>2, VerdictIsRuling
    <2>9. CASE p # s.proposal
      <3>1. LastMention(recorded', p) = LastMention(recorded, p)
        BY <2>3, <2>5, <2>9, LastMentionAppend
      <3>2. verdicts'[p] = verdicts[p]
        BY <2>5, <2>9
      <3>3. LastMention(recorded, p) \in 0..Len(recorded)
            /\ verdicts[p] = Ruling(recorded, LastMention(recorded, p))
        BY DEF VerdictsKept
      <3>4. Ruling(recorded', LastMention(recorded, p)) = Ruling(recorded, LastMention(recorded, p))
        BY <2>3, <2>5, <3>3, RulingAppend
      <3> QED BY <2>6, <3>1, <3>2, <3>3, <3>4
    <2> QED BY <2>8, <2>9
  <1>2. CASE Restart
    <2>1. recorded' = << >> /\ \A p \in Proposals : verdicts'[p] = "PENDING"
      BY <1>2 DEF Restart
    <2>2. Len(recorded') = 0
      BY <2>1
    <2> QED BY <2>1, <2>2, NobodyMentioned DEF VerdictsKept
  <1>3. CASE UNCHANGED <<recorded, verdicts>>
    BY <1>3 DEF VerdictsKept
  <1>4. ASSUME NEW s \in Signals, Acknowledge(s)
        PROVE  UNCHANGED <<recorded, verdicts>>
    BY <1>4 DEF Acknowledge, gate
  <1>5. CASE receive_gate_signal \/ Interrupt \/ UNCHANGED vars
    BY <1>3, <1>5 DEF receive_gate_signal, Interrupt, vars, gate
  <1> QED
    BY <1>1, <1>2, <1>3, <1>4, <1>5 DEF Next

\* A proposal's verdict is what the signals around its last mention say, and a
\* proposal nobody mentioned is pending, for any window size.
THEOREM VerdictsCorrect == Spec => []VerdictMatchesHistory
  <1>1. Init => VerdictsKept
    <2>1. SUFFICES ASSUME Init PROVE VerdictsKept
      OBVIOUS
    <2>2. recorded = << >> /\ Len(recorded) = 0 /\ \A p \in Proposals : verdicts[p] = "PENDING"
      BY <2>1 DEF Init
    <2> QED BY <2>2, NobodyMentioned DEF VerdictsKept
  <1>2. VerdictsKept => VerdictMatchesHistory
    BY DEF VerdictsKept, VerdictMatchesHistory, Judged, JudgedAt, Ruling, LastMention
  <1> QED
    BY <1>1, <1>2, InvariantHolds, VerdictsStep, PTL DEF Spec

-----------------------------------------------------------------------------
(* The server that runs the handlers. *)

\* Connections in the backlog are distinct, waiting and not being handled.
BacklogWaits ==
    /\ \A i, j \in 1..Len(backlog) : i # j => backlog[i] # backlog[j]
    /\ \A i \in 1..Len(backlog) :
          backlog[i] \notin serving /\ request[backlog[i]] # "none"

\* At most one connection is being handled, and it has a request.
OneServed == \A c, d \in serving : c = d /\ request[c] # "none"

Streaming == \E c \in serving : request[c] = "stream"

\* Once a stream has saved, the epoch it saved is still the current one.
SavedOnce == autosaves = 0 \/ (autosaves = 1 /\ Streaming /\ autosaved = epoch)

\* The inductive invariant.
ServerIInv == ServerTypeOK /\ BacklogWaits /\ OneServed /\ SavedOnce

-----------------------------------------------------------------------------
\* The idle server satisfies the invariant.
LEMMA ServerInitIInv == ServerInit => ServerIInv
  <1> SUFFICES ASSUME ServerInit PROVE ServerIInv
    OBVIOUS
  <1>1. ServerTypeOK
    BY MaxEpochAssumption DEF ServerInit, ServerTypeOK, AutosaveCycles
  <1>2. BacklogWaits /\ OneServed /\ SavedOnce
    BY DEF ServerInit, BacklogWaits, OneServed, SavedOnce
  <1> QED BY <1>1, <1>2 DEF ServerIInv

\* A new connection joins the backlog and leaves the one being handled alone.
LEMMA ConnectIInv ==
  ASSUME ServerIInv, NEW c \in Clients, NEW r \in Requests, Connect(c, r)
  PROVE  ServerIInv'
  <1>1. UNCHANGED <<serving, epoch, saved, autosaved, cycle, autosaves>>
    BY DEF Connect, matrix, stream
  <1>2. /\ request[c] = "none" /\ request' = [request EXCEPT ![c] = r]
        /\ backlog' = Append(backlog, c) /\ connected' = connected \cup {c}
    BY DEF Connect
  <1>3. /\ backlog \in Seq(Clients) /\ serving \subseteq Clients
        /\ request \in [Clients -> Requests \cup {"none"}]
    BY DEF ServerIInv, ServerTypeOK
  <1>4. r # "none"
    BY DEF Requests
  <1>5. c \notin serving /\ \A i \in 1..Len(backlog) : backlog[i] # c /\ backlog[i] \in Clients
    BY <1>2, <1>3 DEF ServerIInv, OneServed, BacklogWaits
  <1>6. /\ backlog' \in Seq(Clients) /\ Len(backlog') = Len(backlog) + 1
        /\ \A i \in 1..Len(backlog) : backlog'[i] = backlog[i]
        /\ backlog'[Len(backlog) + 1] = c
    BY <1>2, <1>3, AppendProperties
  <1>7. ServerTypeOK'
    BY <1>1, <1>2, <1>3, <1>6 DEF ServerIInv, ServerTypeOK
  <1>8. \A d \in Clients : request'[d] = IF d = c THEN r ELSE request[d]
    BY <1>2, <1>3
  <1>9. BacklogWaits'
    <2>1. Len(backlog) \in Nat
      BY <1>3
    <2>2. \A i \in 1..Len(backlog') : i \in 1..Len(backlog) \/ i = Len(backlog) + 1
      BY <1>6, <2>1
    <2> QED
      BY <1>1, <1>3, <1>4, <1>5, <1>6, <1>8, <2>1, <2>2 DEF ServerIInv, BacklogWaits
  <1>10. OneServed' /\ SavedOnce'
    BY <1>1, <1>3, <1>4, <1>5, <1>8 DEF ServerIInv, OneServed, SavedOnce, Streaming
  <1> QED BY <1>7, <1>9, <1>10 DEF ServerIInv

\* The server takes a connection only when it handles none.
LEMMA AcceptIInv ==
  ASSUME ServerIInv, Accept
  PROVE  ServerIInv'
  <1>1. /\ UNCHANGED <<request, connected, epoch, saved, autosaved, cycle, autosaves>>
        /\ serving = {} /\ serving' = {Head(backlog)}
        /\ backlog # << >> /\ backlog' = Tail(backlog)
    BY DEF Accept, matrix, stream
  <1>2. backlog \in Seq(Clients) /\ Len(backlog) \in Nat
    BY DEF ServerIInv, ServerTypeOK
  <1>3. Len(backlog) >= 1 /\ Head(backlog) = backlog[1] /\ Head(backlog) \in Clients
    BY <1>1, <1>2, HeadTailProperties
  <1>4. /\ backlog' \in Seq(Clients) /\ Len(backlog') = Len(backlog) - 1
        /\ \A i \in 1..(Len(backlog) - 1) : backlog'[i] = backlog[i + 1]
    BY <1>1, <1>2, HeadTailProperties
  <1>5. ServerTypeOK'
    BY <1>1, <1>3, <1>4 DEF ServerIInv, ServerTypeOK
  <1>6. BacklogWaits'
    <2>1. \A i \in 1..Len(backlog') : i + 1 \in 1..Len(backlog) /\ i + 1 # 1 /\ backlog'[i] = backlog[i + 1]
      BY <1>2, <1>4
    <2>2. \A i, j \in 1..Len(backlog') : i # j => i + 1 # j + 1
      BY <1>2, <1>4
    <2>3. 1 \in 1..Len(backlog)
      BY <1>2, <1>3
    <2> QED
      BY <1>1, <1>3, <2>1, <2>2, <2>3 DEF ServerIInv, BacklogWaits
  <1>7. request[backlog[1]] # "none"
    BY <1>2, <1>3 DEF ServerIInv, BacklogWaits
  <1>8. OneServed' /\ SavedOnce'
    BY <1>1, <1>3, <1>7 DEF ServerIInv, OneServed, SavedOnce, Streaming
  <1> QED BY <1>5, <1>6, <1>8 DEF ServerIInv

\* A handler that returns leaves the server idle and the backlog as it was.
LEMMA CloseKeeps ==
  ASSUME ServerIInv, NEW c \in Clients, c \in serving, Close(c)
  PROVE  /\ request' \in [Clients -> Requests \cup {"none"}]
         /\ connected' \subseteq Clients
         /\ serving' = {} /\ backlog' = backlog
         /\ BacklogWaits' /\ OneServed'
  <1>1. /\ serving' = {} /\ backlog' = backlog /\ connected' = connected \ {c}
        /\ request' = [request EXCEPT ![c] = "none"]
    BY DEF Close
  <1>2. /\ request \in [Clients -> Requests \cup {"none"}] /\ connected \subseteq Clients
        /\ backlog \in Seq(Clients)
    BY DEF ServerIInv, ServerTypeOK
  <1>3. \A i \in 1..Len(backlog) : backlog[i] # c /\ backlog[i] \in Clients
    BY <1>2 DEF ServerIInv, BacklogWaits
  <1>4. \A i \in 1..Len(backlog) : request'[backlog[i]] = request[backlog[i]]
    BY <1>1, <1>2, <1>3
  <1>5. BacklogWaits' /\ OneServed'
    BY <1>1, <1>4 DEF ServerIInv, BacklogWaits, OneServed
  <1> QED BY <1>1, <1>2, <1>5

\* A short request is handled and answered, or broken off; no stream was running.
LEMMA HandleIInv ==
  ASSUME ServerIInv, NEW c \in Clients,
         HandleEvent(c) \/ HandleGateSignal(c) \/ HandleCheckpoint(c) \/ ReadEnds(c)
  PROVE  ServerIInv'
  <1>1. /\ c \in serving /\ request[c] \in {"event", "gate_signal", "checkpoint", "partial"}
        /\ Close(c) /\ UNCHANGED <<autosaved, cycle, autosaves>>
    BY DEF HandleEvent, HandleGateSignal, HandleCheckpoint, ReadEnds, Handling, stream
  <1>2. /\ request' \in [Clients -> Requests \cup {"none"}]
        /\ connected' \subseteq Clients
        /\ serving' = {} /\ backlog' = backlog
        /\ BacklogWaits' /\ OneServed'
    BY <1>1, CloseKeeps
  <1>3. ~Streaming
    BY <1>1 DEF ServerIInv, OneServed, Streaming
  <1>4. autosaves = 0
    BY <1>3 DEF ServerIInv, SavedOnce
  <1>5. /\ epoch \in 0..MaxEpoch /\ saved \in (-1)..epoch /\ autosaved \in (-1)..saved
        /\ cycle \in 0..(AutosaveCycles - 1) /\ backlog \in Seq(Clients)
    BY DEF ServerIInv, ServerTypeOK
  <1>6. /\ epoch' \in 0..MaxEpoch /\ epoch <= epoch'
        /\ saved' \in {saved, epoch}
    BY <1>5 DEF HandleEvent, HandleGateSignal, HandleCheckpoint, ReadEnds, matrix
  <1>7. saved' \in (-1)..epoch' /\ autosaved' \in (-1)..saved'
    BY <1>1, <1>5, <1>6, MaxEpochAssumption
  <1>8. ServerTypeOK'
    BY <1>1, <1>2, <1>4, <1>5, <1>6, <1>7 DEF ServerTypeOK
  <1>9. SavedOnce'
    BY <1>1, <1>4 DEF SavedOnce
  <1> QED BY <1>2, <1>8, <1>9 DEF ServerIInv

\* The rest of a request arrives: no client waits less or more for it, and a
\* stream that begins has saved nothing.
LEMMA SendRestIInv ==
  ASSUME ServerIInv, NEW c \in Clients, NEW r \in Requests, SendRest(c, r)
  PROVE  ServerIInv'
  <1>1. /\ UNCHANGED <<connected, backlog, serving, epoch, saved, autosaved, cycle, autosaves>>
        /\ request[c] = "partial" /\ request' = [request EXCEPT ![c] = r]
    BY DEF SendRest, matrix, stream
  <1>2. request \in [Clients -> Requests \cup {"none"}] /\ r # "none" /\ r \in Requests
    BY DEF ServerIInv, ServerTypeOK, Requests
  <1>3. \A d \in Clients : request'[d] = IF d = c THEN r ELSE request[d]
    BY <1>1, <1>2
  <1>4. \A d \in Clients : request[d] # "none" => request'[d] # "none"
    BY <1>1, <1>2, <1>3
  <1>5. /\ serving \subseteq Clients /\ backlog \in Seq(Clients)
        /\ \A i \in 1..Len(backlog) : backlog[i] \in Clients
    BY DEF ServerIInv, ServerTypeOK
  <1>6. ServerTypeOK'
    BY <1>1, <1>2 DEF ServerIInv, ServerTypeOK
  <1>7. BacklogWaits'
    BY <1>1, <1>4, <1>5 DEF ServerIInv, BacklogWaits
  <1>8. OneServed'
    BY <1>1, <1>4, <1>5 DEF ServerIInv, OneServed
  <1>9. SavedOnce'
    <2>1. CASE autosaves = 0
      BY <1>1, <2>1 DEF SavedOnce
    <2>2. CASE autosaves # 0
      <3>1. autosaves = 1 /\ autosaved = epoch /\ Streaming
        BY <2>2 DEF ServerIInv, SavedOnce
      <3>2. PICK d \in serving : request[d] = "stream"
        BY <3>1 DEF Streaming
      <3>3. d \in Clients /\ d # c
        BY <1>1, <3>2 DEF ServerIInv, ServerTypeOK
      <3>4. Streaming'
        BY <1>1, <1>3, <3>2, <3>3 DEF Streaming
      <3> QED BY <1>1, <3>1, <3>4 DEF SavedOnce
    <2> QED BY <2>1, <2>2
  <1> QED BY <1>6, <1>7, <1>8, <1>9 DEF ServerIInv

\* A cycle of the stream saves only if it has not saved this epoch.
LEMMA StreamIInv ==
  ASSUME ServerIInv, NEW c \in Clients, NEW ok \in BOOLEAN,
         StreamCycle(c) \/ StreamAutosave(c, ok)
  PROVE  ServerIInv'
  <1>1. /\ UNCHANGED <<request, connected, backlog, serving, epoch>>
        /\ c \in serving /\ request[c] = "stream"
    BY DEF StreamCycle, StreamAutosave, Handling, matrix
  <1>2. /\ epoch \in 0..MaxEpoch /\ saved \in (-1)..epoch /\ autosaved \in (-1)..saved
        /\ cycle \in 0..4 /\ autosaves \in Nat
    BY DEF ServerIInv, ServerTypeOK, AutosaveCycles
  <1>3. BacklogWaits' /\ OneServed'
    BY <1>1 DEF ServerIInv, BacklogWaits, OneServed
  <1>4. Streaming'
    BY <1>1 DEF Streaming
  <1>5. CASE epoch > autosaved /\ StreamAutosave(c, ok) /\ ok
    <2>1. saved' = epoch /\ autosaved' = epoch /\ autosaves' = autosaves + 1 /\ cycle' = 0
      BY <1>5 DEF StreamAutosave
    <2>2. autosaves = 0
      BY <1>2, <1>5, MaxEpochAssumption DEF ServerIInv, SavedOnce
    <2>3. ServerTypeOK'
      BY <1>1, <1>2, <2>1, MaxEpochAssumption DEF ServerIInv, ServerTypeOK, AutosaveCycles
    <2>4. SavedOnce'
      BY <1>1, <1>4, <2>1, <2>2 DEF SavedOnce
    <2> QED BY <1>3, <2>3, <2>4 DEF ServerIInv
  <1>6. CASE ~(epoch > autosaved /\ StreamAutosave(c, ok) /\ ok)
    <2>1. UNCHANGED <<saved, autosaved, autosaves>> /\ cycle' \in 0..4
      BY <1>2, <1>6 DEF StreamCycle, StreamAutosave, AutosaveCycles, matrix
    <2>2. ServerTypeOK'
      BY <1>1, <2>1 DEF ServerIInv, ServerTypeOK, AutosaveCycles
    <2>3. SavedOnce'
      BY <1>1, <1>4, <2>1 DEF ServerIInv, SavedOnce
    <2> QED BY <1>3, <2>2, <2>3 DEF ServerIInv
  <1> QED BY <1>5, <1>6

\* The end of a stream, a client that leaves and stuttering keep the invariant.
LEMMA ServerOtherIInv ==
  ASSUME ServerIInv,
         \/ \E c \in Clients : StreamEnds(c) \/ Disconnect(c)
         \/ UNCHANGED server_vars
  PROVE  ServerIInv'
  <1>1. ASSUME NEW c \in Clients, StreamEnds(c) PROVE ServerIInv'
    <2>1. c \in serving /\ Close(c)
      BY <1>1 DEF StreamEnds, Handling
    <2>2. /\ request' \in [Clients -> Requests \cup {"none"}]
          /\ connected' \subseteq Clients
          /\ serving' = {} /\ backlog' = backlog
          /\ BacklogWaits' /\ OneServed'
      BY <2>1, CloseKeeps
    <2>3. UNCHANGED <<epoch, saved, autosaved>> /\ cycle' = 0 /\ autosaves' = 0
      BY <1>1 DEF StreamEnds, matrix
    <2>4. ServerTypeOK'
      BY <2>2, <2>3 DEF ServerIInv, ServerTypeOK, AutosaveCycles
    <2>5. SavedOnce'
      BY <2>3 DEF SavedOnce
    <2> QED BY <2>2, <2>4, <2>5 DEF ServerIInv
  <1>2. ASSUME NEW c \in Clients, Disconnect(c) PROVE ServerIInv'
    <2>1. /\ UNCHANGED <<request, backlog, serving, epoch, saved, autosaved, cycle, autosaves>>
          /\ connected' = connected \ {c}
      BY <1>2 DEF Disconnect, matrix, stream
    <2>2. ServerTypeOK'
      BY <2>1 DEF ServerIInv, ServerTypeOK
    <2>3. BacklogWaits' /\ OneServed' /\ SavedOnce'
      BY <2>1 DEF ServerIInv, BacklogWaits, OneServed, SavedOnce, Streaming
    <2> QED BY <2>2, <2>3 DEF ServerIInv
  <1>3. CASE UNCHANGED server_vars
    <2>1. ServerTypeOK'
      BY <1>3 DEF ServerIInv, ServerTypeOK, server_vars
    <2>2. BacklogWaits' /\ OneServed' /\ SavedOnce'
      BY <1>3 DEF ServerIInv, BacklogWaits, OneServed, SavedOnce, Streaming, server_vars
    <2> QED BY <2>1, <2>2 DEF ServerIInv
  <1> QED BY <1>1, <1>2, <1>3

\* The inductive invariant holds in every reachable state.
THEOREM ServerInvariantHolds == ServerSpec => []ServerIInv
  <1>1. ServerIInv /\ [ServerNext]_server_vars => ServerIInv'
    BY ConnectIInv, AcceptIInv, SendRestIInv, HandleIInv, StreamIInv, ServerOtherIInv
       DEF ServerNext
  <1> QED
    BY <1>1, ServerInitIInv, PTL DEF ServerSpec

\* A connection to /telemetry/stream writes at most one checkpoint, for any
\* number of clients and however long it lasts.
THEOREM AutosaveCorrect == ServerSpec => []AtMostOneAutosave
  <1>1. ServerIInv => AtMostOneAutosave
    BY DEF ServerIInv, SavedOnce, AtMostOneAutosave
  <1> QED
    BY <1>1, ServerInvariantHolds, PTL
=============================================================================
