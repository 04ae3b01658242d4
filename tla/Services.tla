------------------------------ MODULE Services ------------------------------
(***************************************************************************)
(* The services of src/aegis-cl-psi, one at a time, and what holds of all  *)
(* of them.                                                                *)
(***************************************************************************)
EXTENDS MessageServices, PeerServices, PaceServices, MeshServices,
        LedgerServices

Kinds == MessageKinds \cup PeerKinds \cup HealthKinds \cup EpochKinds \cup PaceKinds
           \cup MeshKinds \cup LedgerKinds

ASSUME KindsAssumption == Kinds \subseteq DOMAIN Scope

Init ==
    /\ kind \in Kinds /\ calls = << >> /\ logs = << >>
    /\ \/ kind \in MessageKinds /\ MessageInit
       \/ kind \in PeerKinds /\ PeerInit
       \/ kind \in HealthKinds /\ HealthInit
       \/ kind \in EpochKinds /\ EpochInit
       \/ kind \in PaceKinds /\ PaceInit
       \/ kind \in MeshKinds /\ MeshInit
       \/ kind \in LedgerKinds /\ LedgerInit

Next ==
    \/ MessageNext \/ PeerNext \/ HealthNext \/ EpochNext \/ PaceNext \/ MeshNext
    \/ LedgerNext

Spec == Init /\ [][Next]_vars

\* A message, nonce, content or sequence number is new, forwarded or broadcast
\* once, until what remembers it was dropped.
FreshOnce ==
    /\ DuplicatesCaught /\ ReplaysCaught /\ ContentOnce /\ SequenceOnce
    /\ DuplicatesRemembered /\ SentOnce

\* No service gives out, admits or holds more than its limit: byte quotas, the
\* entropy budget, fan-out, queues and tables; no ban ends
\* early and no connection is evicted in use.
LimitsHold == MessageLimits /\ PeerLimits /\ EpochLimits /\ PaceLimits

\* What is to be done once is not done again: acknowledgements, attempts,
\* fragments, queued messages, rounds, votes, decay, recovery steps.
NothingTwice == MessagesOnce /\ PeersOnce /\ StepsTakenOnce /\ MeshOnce

\* A reader of a service's chained log rebuilds its table.
LogsRebuildState ==
    /\ MessageLogsRebuild /\ PeerLogsRebuild /\ EpochLogsRebuild /\ PaceLogsRebuild
    /\ MeshLogsRebuild

\* A verdict, a score or a plan follows from what the service was told, over
\* its whole history.
VerdictsFollowHistory ==
    PeerVerdicts /\ HealthVerdicts /\ EpochVerdicts /\ PaceVerdicts /\ MeshVerdicts

\* What a service was given is kept: a reader of its log rebuilds its table, and
\* one that shortens its history loses nothing of it, for what is retained, what
\* an anchor summarises and what is still found add up to what it was given.
HistoryKept == LogsRebuildState /\ LedgersKeepHistory /\ ArchiveKeepsNewest
=============================================================================
