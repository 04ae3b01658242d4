---------------------------- MODULE BridgeServer ----------------------------
(***************************************************************************)
(* How bridge.py serves its clients.  run_bridge starts an HTTPServer,     *)
(* which handles one connection after the other in one thread and without  *)
(* a timeout: it reads a request and the body its Content-Length announces *)
(* for as long as that takes.  GET /telemetry/stream is a handler that     *)
(* loops until its client is gone and saves a checkpoint every fifth cycle *)
(* if the epoch advanced.                                                  *)
(*                                                                         *)
(* What a handler does to the matrix and the gate is in CoreMatrix,        *)
(* ExecutionRouter and MutationGate; here an event is whether it completes *)
(* an epoch.  Clients and the listening socket are external.               *)
(***************************************************************************)
EXTENDS Integers, Sequences

CONSTANTS Clients,
          MaxEpoch   \* bound on the matrix's epoch

ASSUME MaxEpochAssumption == MaxEpoch \in Nat

VARIABLES request,   \* request[c]: what client c asked for and waits for, or "none"
          connected, \* clients that have not given up
          backlog,   \* connections the server has not accepted, oldest first
          serving,   \* the connections being handled: none or one
          epoch,     \* matrix._epoch
          saved,     \* epoch of the checkpoint file, -1 without one
          autosaved, \* _last_autosave_epoch
          cycle,     \* _sse_cycle % AutosaveCycles
          autosaves  \* history: autosaves of the connection being handled

matrix == <<epoch, saved>>
stream == <<autosaved, cycle, autosaves>>
server_vars == <<request, connected, backlog, serving, epoch, saved, autosaved,
                cycle, autosaves>>

\* What a client can have sent: "partial" until its request arrived in full.
Requests == {"event", "gate_signal", "checkpoint", "stream", "partial"}
AutosaveCycles == 5

ServerTypeOK ==
    /\ request \in [Clients -> Requests \cup {"none"}]
    /\ connected \subseteq Clients
    /\ backlog \in Seq(Clients)
    /\ serving \subseteq Clients
    /\ epoch \in 0..MaxEpoch
    /\ saved \in (-1)..epoch
    /\ autosaved \in (-1)..saved
    /\ cycle \in 0..(AutosaveCycles - 1)
    /\ autosaves \in Nat

ServerInit ==
    /\ request = [c \in Clients |-> "none"]
    /\ connected = {}
    /\ backlog = << >>
    /\ serving = {}
    /\ epoch = 0
    /\ saved = -1
    /\ autosaved = -1
    /\ cycle = 0
    /\ autosaves = 0

-----------------------------------------------------------------------------
\* A client connects and sends a request or the beginning of one; the
\* connection waits in the backlog.
Connect(c, r) ==
    /\ request[c] = "none"
    /\ request' = [request EXCEPT ![c] = r]
    /\ connected' = connected \cup {c}
    /\ backlog' = Append(backlog, c)
    /\ UNCHANGED <<serving, matrix, stream>>

\* The rest of the request arrives.
SendRest(c, r) ==
    /\ c \in connected
    /\ request[c] = "partial"
    /\ request' = [request EXCEPT ![c] = r]
    /\ UNCHANGED <<connected, backlog, serving, matrix, stream>>

\* The client closes its end.
Disconnect(c) ==
    /\ c \in connected
    /\ connected' = connected \ {c}
    /\ UNCHANGED <<request, backlog, serving, matrix, stream>>

\* serve_forever takes the next connection when no handler is running.
Accept ==
    /\ serving = {} /\ backlog # << >>
    /\ serving' = {Head(backlog)}
    /\ backlog' = Tail(backlog)
    /\ UNCHANGED <<request, connected, matrix, stream>>

\* The handler of c returns and the connection is closed.
Close(c) ==
    /\ serving' = {}
    /\ request' = [request EXCEPT ![c] = "none"]
    /\ connected' = connected \ {c}
    /\ UNCHANGED backlog

Handling(c, r) == c \in serving /\ request[c] = r

\* do_POST waits for the body; when the client leaves instead, the read comes
\* back short, json.loads raises and the handler ends.
ReadEnds(c) ==
    /\ Handling(c, "partial")
    /\ c \notin connected
    /\ Close(c)
    /\ UNCHANGED <<matrix, stream>>

\* POST /event: the matrix processes it; some events complete an epoch.
HandleEvent(c) ==
    /\ Handling(c, "event")
    /\ Close(c)
    /\ epoch' \in {epoch, epoch + 1} \cap (0..MaxEpoch)
    /\ UNCHANGED <<saved, stream>>

\* POST /gate_signal
HandleGateSignal(c) ==
    /\ Handling(c, "gate_signal")
    /\ Close(c)
    /\ UNCHANGED <<matrix, stream>>

\* POST /checkpoint: saved, or an error is answered.
HandleCheckpoint(c) ==
    /\ Handling(c, "checkpoint")
    /\ Close(c)
    /\ saved' \in {saved, epoch}
    /\ UNCHANGED <<epoch, stream>>

\* GET /telemetry/stream, a cycle without autosave.
StreamCycle(c) ==
    /\ Handling(c, "stream")
    /\ cycle < AutosaveCycles - 1
    /\ cycle' = cycle + 1
    /\ UNCHANGED <<request, connected, backlog, serving, matrix, autosaved, autosaves>>

\* Mutant: remembers the attempt also when the save failed.
StreamAutosaveOnce(c, ok) ==
    /\ Handling(c, "stream")
    /\ cycle = AutosaveCycles - 1
    /\ cycle' = 0
    /\ saved' = IF epoch > autosaved /\ ok THEN epoch ELSE saved
    /\ autosaved' = epoch
    /\ autosaves' = IF epoch > autosaved /\ ok THEN autosaves + 1 ELSE autosaves
    /\ UNCHANGED <<request, connected, backlog, serving, epoch>>

\* Mutant: does not remember the epoch it saved.
StreamAutosaveForgetful(c, ok) ==
    /\ Handling(c, "stream")
    /\ cycle = AutosaveCycles - 1
    /\ cycle' = 0
    /\ saved' = IF epoch > autosaved /\ ok THEN epoch ELSE saved
    /\ autosaves' = IF epoch > autosaved /\ ok THEN autosaves + 1 ELSE autosaves
    /\ UNCHANGED <<request, connected, backlog, serving, epoch, autosaved>>

\* The fifth cycle: saves if the epoch advanced; a failed save is passed over.
StreamAutosave(c, ok) ==
    /\ Handling(c, "stream")
    /\ cycle = AutosaveCycles - 1
    /\ cycle' = 0
    /\ IF epoch > autosaved /\ ok
       THEN /\ saved' = epoch
            /\ autosaved' = epoch
            /\ autosaves' = autosaves + 1
       ELSE UNCHANGED <<saved, autosaved, autosaves>>
    /\ UNCHANGED <<request, connected, backlog, serving, epoch>>

\* Mutant: the loop passes over the BrokenPipeError.
StreamGoesOn(c) ==
    /\ Handling(c, "stream")
    /\ c \notin connected
    /\ UNCHANGED server_vars

\* A write to a client that left raises BrokenPipeError and the loop ends.
StreamEnds(c) ==
    /\ Handling(c, "stream")
    /\ c \notin connected
    /\ Close(c)
    /\ cycle' = 0
    /\ autosaves' = 0
    /\ UNCHANGED <<matrix, autosaved>>

ServerNext ==
    \/ Accept
    \/ \E c \in Clients :
        \/ \E r \in Requests : Connect(c, r)
        \/ \E r \in Requests \ {"partial"} : SendRest(c, r)
        \/ Disconnect(c)
        \/ ReadEnds(c)
        \/ HandleEvent(c)
        \/ HandleGateSignal(c)
        \/ HandleCheckpoint(c)
        \/ StreamCycle(c)
        \/ \E ok \in BOOLEAN : StreamAutosave(c, ok)
        \/ StreamEnds(c)

ServerSpec == ServerInit /\ [][ServerNext]_server_vars

\* The server thread keeps running: it takes connections, works on requests that
\* have arrived, and notices that a client left.  A save that is tried again and
\* again succeeds at some time, and a client that stays at the stream reads what
\* it is sent.  Nothing makes a client send the rest of a request, or leave.
ServerFairness ==
    /\ WF_server_vars(Accept)
    /\ \A c \in Clients :
        /\ WF_server_vars(ReadEnds(c))
        /\ WF_server_vars(HandleEvent(c) \/ HandleGateSignal(c) \/ HandleCheckpoint(c))
        /\ WF_server_vars(StreamCycle(c) \/ \E ok \in BOOLEAN : StreamAutosave(c, ok))
        /\ SF_server_vars(StreamAutosave(c, TRUE))
        /\ WF_server_vars(StreamEnds(c))

FairSpec == ServerSpec /\ ServerFairness

-----------------------------------------------------------------------------
\* No event is processed while a stream is open, so the epoch stands still and
\* one connection saves at most one checkpoint, however long it lasts.
AtMostOneAutosave == autosaves <= 1

\* Whoever keeps the stream open gets the current epoch on disk, failed saves
\* notwithstanding: the state at the start of the stream becomes durable.
AutosaveCatchesUp ==
    \A c \in Clients :
        Handling(c, "stream") ~> (saved = epoch \/ ~Handling(c, "stream"))

\* The one thread waits for a client that is there: it watches the stream, or
\* it has not sent all of its request.
Held == \E c \in serving \cap connected : request[c] \in {"stream", "partial"}

\* Unless clients hold the server for ever, every connection is handled and
\* closed, in any mix of streams, requests and requests that are broken off.
EveryRequestAnswered ==
    []<>~Held => \A c \in Clients : request[c] # "none" ~> request[c] = "none"

\* What bridge.py says: the gate receives every /gate_signal.
EveryGateSignalReceived ==
    \A c \in Clients : request[c] = "gate_signal" ~> request[c] = "none"
=============================================================================
