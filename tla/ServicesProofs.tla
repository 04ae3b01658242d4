--------------------------- MODULE ServicesProofs ---------------------------
(***************************************************************************)
(* Proofs about Services for any peers, ids and epochs the services are    *)
(* called with, any number of calls and any value of the files' constants. *)
(*                                                                         *)
(* The specification runs one service at a time, so a step is a step of    *)
(* the service that is running: the first lemmas say which.  What a        *)
(* service must keep is a statement on the whole history of calls; its     *)
(* invariant says what the service's own state remembers of that history.  *)
(***************************************************************************)
EXTENDS Services, ArithmeticProofs

\* A step of one of these services (MessageServices) leaves the running service
\* what it is, and is one of that service's own actions.
LEMMA MessageServed ==
  ASSUME MessageNext
  PROVE  /\ kind' = kind /\ kind \in MessageKinds
         /\ kind = "token_bucket" => token_consume \/ tick_refill_all
         /\ kind = "flood_guard" => observe_message \/ flood_seal_epoch
         /\ kind = "epoch_rate_limiter" => rate_consume \/ rate_seal_epoch
         /\ kind = "bandwidth_tracker" => request_bytes \/ bandwidth_seal_epoch
         /\ kind = "backpressure_controller" => pressure_update \/ tick_recovery
         /\ kind = "ttl_enforcer" => register_origin \/ forward
         /\ kind = "message_ack_tracker" => send \/ ack \/ expire_timeouts
         /\ kind = "message_retry_scheduler" => schedule \/ succeed \/ tick
         /\ kind = "message_sequence_tracker" => observe_sequence
         /\ kind = "message_deduplicator" => observe_message_id \/ dedup_seal_epoch
         /\ kind = "nonce_cache" => advance_epoch \/ check_nonce
         /\ kind = "gossip_message_cache" => advance_epoch \/ cache_insert
         /\ kind = "message_priority_queue" => enqueue \/ dequeue
         /\ kind = "session_tracker" => open_session \/ transition
  <1>1. token_consume => kind' = kind /\ kind = "token_bucket"
    BY DEF token_consume, Serve, Return
  <1>2. tick_refill_all => kind' = kind /\ kind = "token_bucket"
    BY DEF tick_refill_all, Serve, Return
  <1>3. observe_message => kind' = kind /\ kind = "flood_guard"
    BY DEF observe_message, Serve, Return
  <1>4. flood_seal_epoch => kind' = kind /\ kind = "flood_guard"
    BY DEF flood_seal_epoch, Serve, Return
  <1>5. rate_consume => kind' = kind /\ kind = "epoch_rate_limiter"
    BY DEF rate_consume, Serve, Return
  <1>6. rate_seal_epoch => kind' = kind /\ kind = "epoch_rate_limiter"
    BY DEF rate_seal_epoch, Serve, Return
  <1>7. request_bytes => kind' = kind /\ kind = "bandwidth_tracker"
    BY DEF request_bytes, Serve, Return
  <1>8. bandwidth_seal_epoch => kind' = kind /\ kind = "bandwidth_tracker"
    BY DEF bandwidth_seal_epoch, Serve, Return
  <1>9. pressure_update => kind' = kind /\ kind = "backpressure_controller"
    BY DEF pressure_update, Serve, Return
  <1>10. tick_recovery => kind' = kind /\ kind = "backpressure_controller"
    BY DEF tick_recovery, Serve, Return
  <1>11. register_origin => kind' = kind /\ kind = "ttl_enforcer"
    BY DEF register_origin, Serve, Return
  <1>12. forward => kind' = kind /\ kind = "ttl_enforcer"
    BY DEF forward, Serve, Return
  <1>13. send => kind' = kind /\ kind = "message_ack_tracker"
    BY DEF send, Serve, Return
  <1>14. ack => kind' = kind /\ kind = "message_ack_tracker"
    BY DEF ack, Serve, Return
  <1>15. expire_timeouts => kind' = kind /\ kind = "message_ack_tracker"
    BY DEF expire_timeouts, Serve, Return
  <1>16. schedule => kind' = kind /\ kind = "message_retry_scheduler"
    BY DEF schedule, Serve, Return
  <1>17. succeed => kind' = kind /\ kind = "message_retry_scheduler"
    BY DEF succeed, Serve, Return
  <1>18. tick => kind' = kind /\ kind = "message_retry_scheduler"
    BY DEF tick, Serve, Return
  <1>19. observe_sequence => kind' = kind /\ kind = "message_sequence_tracker"
    BY DEF observe_sequence, Serve, Return
  <1>20. observe_message_id => kind' = kind /\ kind = "message_deduplicator"
    BY DEF observe_message_id, Serve, Return
  <1>21. dedup_seal_epoch => kind' = kind /\ kind = "message_deduplicator"
    BY DEF dedup_seal_epoch, Serve, Return
  <1>22. advance_epoch => kind' = kind /\ kind \in {"nonce_cache", "gossip_message_cache"}
    BY DEF advance_epoch, Serve, Return
  <1>23. check_nonce => kind' = kind /\ kind = "nonce_cache"
    BY DEF check_nonce, Serve, Return
  <1>24. cache_insert => kind' = kind /\ kind = "gossip_message_cache"
    BY DEF cache_insert, Serve, Return
  <1>25. enqueue => kind' = kind /\ kind = "message_priority_queue"
    BY DEF enqueue, Serve, Return
  <1>26. dequeue => kind' = kind /\ kind = "message_priority_queue"
    BY DEF dequeue, Serve, Return
  <1>27. open_session => kind' = kind /\ kind = "session_tracker"
    BY DEF open_session, Serve, Return
  <1>28. transition => kind' = kind /\ kind = "session_tracker"
    BY DEF transition, Serve, Return
  <1> QED
    BY <1>1, <1>2, <1>3, <1>4, <1>5, <1>6, <1>7, <1>8, <1>9, <1>10, <1>11, <1>12,
       <1>13, <1>14, <1>15, <1>16, <1>17, <1>18, <1>19, <1>20, <1>21, <1>22, <1>23, <1>24,
       <1>25, <1>26, <1>27, <1>28 DEF MessageNext, MessageKinds

\* A step of one of these services (PeerServices) leaves the running service
\* what it is, and is one of that service's own actions.
LEMMA PeerServed ==
  ASSUME PeerNext
  PROVE  /\ kind' = kind /\ kind \in PeerKinds
         /\ kind = "peer_blocklist" => ban \/ unban \/ expire_bans
         /\ kind = "peer_connection_pool" => connect \/ release \/ drain \/ close \/
              evict_idle
         /\ kind = "peer_address_book" => register_address \/ remove_address
         /\ kind = "routing_table" => insert_route \/ remove_route
         /\ kind = "peer_capability_tracker" => update_capabilities \/ remove_capabilities
         /\ kind = "topic_subscription" => subscribe \/ unsubscribe
         /\ kind = "subscription_filter" => register_topics \/ evaluate \/ clear_peer
         /\ kind = "heartbeat_tracker" => beat \/ tick_miss
         /\ kind = "peer_reputation" => record_event
         /\ kind = "reputation_decay" => apply_decay
         /\ kind = "node_state_machine" => node_transition \/ fault_record
         /\ kind = "consensus_ledger" => cast_vote \/ append_certificate
         /\ kind = "epoch_synchronizer" => sync_record
         /\ kind = "partition_detector" => partition_record
  <1>1. ban => kind' = kind /\ kind = "peer_blocklist"
    BY DEF ban, Serve, Refused, Return
  <1>2. unban => kind' = kind /\ kind = "peer_blocklist"
    BY DEF unban, Serve, Refused, Return
  <1>3. expire_bans => kind' = kind /\ kind = "peer_blocklist"
    BY DEF expire_bans, Serve, Return
  <1>4. connect => kind' = kind /\ kind = "peer_connection_pool"
    BY DEF connect, Serve, Refused, Return
  <1>5. release => kind' = kind /\ kind = "peer_connection_pool"
    BY DEF release, Serve, Refused, Return
  <1>6. drain => kind' = kind /\ kind = "peer_connection_pool"
    BY DEF drain, Serve, Refused, Return
  <1>7. close => kind' = kind /\ kind = "peer_connection_pool"
    BY DEF close, Serve, Refused, Return
  <1>8. evict_idle => kind' = kind /\ kind = "peer_connection_pool"
    BY DEF evict_idle, Serve, Return
  <1>9. register_address => kind' = kind /\ kind = "peer_address_book"
    BY DEF register_address, Serve, Refused, Return
  <1>10. remove_address => kind' = kind /\ kind = "peer_address_book"
    BY DEF remove_address, Serve, Refused, Return
  <1>11. insert_route => kind' = kind /\ kind = "routing_table"
    BY DEF insert_route, Serve, Refused, Return
  <1>12. remove_route => kind' = kind /\ kind = "routing_table"
    BY DEF remove_route, Serve, Refused, Return
  <1>13. update_capabilities => kind' = kind /\ kind = "peer_capability_tracker"
    BY DEF update_capabilities, Serve, Refused, Return
  <1>14. remove_capabilities => kind' = kind /\ kind = "peer_capability_tracker"
    BY DEF remove_capabilities, Serve, Refused, Return
  <1>15. subscribe => kind' = kind /\ kind = "topic_subscription"
    BY DEF subscribe, Serve, Return
  <1>16. unsubscribe => kind' = kind /\ kind = "topic_subscription"
    BY DEF unsubscribe, Serve, Refused, Return
  <1>17. register_topics => kind' = kind /\ kind = "subscription_filter"
    BY DEF register_topics, Serve, Return
  <1>18. evaluate => kind' = kind /\ kind = "subscription_filter"
    BY DEF evaluate, Serve, Return
  <1>19. clear_peer => kind' = kind /\ kind = "subscription_filter"
    BY DEF clear_peer, Serve, Return
  <1>20. beat => kind' = kind /\ kind = "heartbeat_tracker"
    BY DEF beat, Serve, Return
  <1>21. tick_miss => kind' = kind /\ kind = "heartbeat_tracker"
    BY DEF tick_miss, Serve, Return
  <1>22. record_event => kind' = kind /\ kind = "peer_reputation"
    BY DEF record_event, Serve, Return
  <1>23. apply_decay => kind' = kind /\ kind = "reputation_decay"
    BY DEF apply_decay, Serve, Refused, Return
  <1>24. node_transition => kind' = kind /\ kind = "node_state_machine"
    BY DEF node_transition, Serve, Refused, Return
  <1>25. fault_record => kind' = kind /\ kind = "node_state_machine"
    BY DEF fault_record, Serve, Refused, Return
  <1>26. cast_vote => kind' = kind /\ kind = "consensus_ledger"
    BY DEF cast_vote, Serve, Refused, Return
  <1>27. append_certificate => kind' = kind /\ kind = "consensus_ledger"
    BY DEF append_certificate, Serve, Refused, Return
  <1>28. sync_record => kind' = kind /\ kind = "epoch_synchronizer"
    BY DEF sync_record, Serve, Refused, Return
  <1>29. partition_record => kind' = kind /\ kind = "partition_detector"
    BY DEF partition_record, Serve, Refused, Return
  <1> QED
    BY <1>1, <1>2, <1>3, <1>4, <1>5, <1>6, <1>7, <1>8, <1>9, <1>10, <1>11, <1>12,
       <1>13, <1>14, <1>15, <1>16, <1>17, <1>18, <1>19, <1>20, <1>21, <1>22, <1>23, <1>24,
       <1>25, <1>26, <1>27, <1>28, <1>29 DEF PeerNext, PeerKinds

\* A step of one of these services (HealthServices) leaves the running service
\* what it is, and is one of that service's own actions.
LEMMA HealthServed ==
  ASSUME HealthNext
  PROVE  /\ kind' = kind /\ kind \in HealthKinds
         /\ kind = "latency_tracker" => observe_latency
         /\ kind = "link_quality_monitor" => sample_link \/ sample_timeout
         /\ kind = "peer_liveness_oracle" => assess_liveness
         /\ kind = "peer_scoring_engine" => update_score
         /\ kind = "quorum_guard" => observe_quorum
         /\ kind = "resilience_watchdog" => watchdog_record
         /\ kind = "phase_transition" => phase_record
         /\ kind = "recovery_planner" => plan_recovery
         /\ kind = "intervention_recommender" => plan_intervention
         /\ kind = "verdict_ledger" => record_verdict
         /\ kind = "peer_frame_validator" => validate_frame
  <1>1. observe_latency => kind' = kind /\ kind = "latency_tracker"
    BY DEF observe_latency, Serve, Stale, Return
  <1>2. sample_link => kind' = kind /\ kind = "link_quality_monitor"
    BY DEF sample_link, Serve, apply_sample, Return
  <1>3. sample_timeout => kind' = kind /\ kind = "link_quality_monitor"
    BY DEF sample_timeout, Serve, apply_sample, Return
  <1>4. assess_liveness => kind' = kind /\ kind = "peer_liveness_oracle"
    BY DEF assess_liveness, Serve, Return
  <1>5. update_score => kind' = kind /\ kind = "peer_scoring_engine"
    BY DEF update_score, Serve, Return
  <1>6. observe_quorum => kind' = kind /\ kind = "quorum_guard"
    BY DEF observe_quorum, Serve, Stale, Return
  <1>7. watchdog_record => kind' = kind /\ kind = "resilience_watchdog"
    BY DEF watchdog_record, Serve, Stale, Return
  <1>8. phase_record => kind' = kind /\ kind = "phase_transition"
    BY DEF phase_record, Serve, Stale, Return
  <1>9. plan_recovery => kind' = kind /\ kind = "recovery_planner"
    BY DEF plan_recovery, Serve, Stale, Return
  <1>10. plan_intervention => kind' = kind /\ kind = "intervention_recommender"
    BY DEF plan_intervention, Serve, Stale, Return
  <1>11. record_verdict => kind' = kind /\ kind = "verdict_ledger"
    BY DEF record_verdict, Serve, Return
  <1>12. validate_frame => kind' = kind /\ kind = "peer_frame_validator"
    BY DEF validate_frame, Serve, Return
  <1> QED
    BY <1>1, <1>2, <1>3, <1>4, <1>5, <1>6, <1>7, <1>8, <1>9, <1>10, <1>11, <1>12
       DEF HealthNext, HealthKinds

\* A step of one of these services (EpochServices) leaves the running service
\* what it is, and is one of that service's own actions.
LEMMA EpochServed ==
  ASSUME EpochNext
  PROVE  /\ kind' = kind /\ kind \in EpochKinds
         /\ kind = "entropy_budget" => consume_adaptive \/ replenish_replay \/ apply_custom
         /\ kind = "momentum_tracker" => momentum_record
         /\ kind = "alert_engine" => alert_record
         /\ kind = "recovery_sequencer" => start_recovery \/ advance_step
         /\ kind = "epoch_watermark" => watermark_update
         /\ kind = "epoch_boundary_detector" => report_peer_epoch \/ trigger_boundary
         /\ kind = "gossip_prober" => record_probe
         /\ kind = "backpressure_monitor" => record_message_batch
         /\ kind = "peer_selector" => record_and_select
  <1>1. consume_adaptive => kind' = kind /\ kind = "entropy_budget"
    BY DEF consume_adaptive, Serve, push_entry, Return, Insufficient
  <1>2. replenish_replay => kind' = kind /\ kind = "entropy_budget"
    BY DEF replenish_replay, Serve, push_entry, Return
  <1>3. apply_custom => kind' = kind /\ kind = "entropy_budget"
    BY DEF apply_custom, Serve, push_entry, Return, Insufficient
  <1>4. momentum_record => kind' = kind /\ kind = "momentum_tracker"
    BY DEF momentum_record, Serve, Stale, Return
  <1>5. alert_record => kind' = kind /\ kind = "alert_engine"
    BY DEF alert_record, Serve, Stale, Return
  <1>6. start_recovery => kind' = kind /\ kind = "recovery_sequencer"
    BY DEF start_recovery, Serve, Return
  <1>7. advance_step => kind' = kind /\ kind = "recovery_sequencer"
    BY DEF advance_step, Serve, Return
  <1>8. watermark_update => kind' = kind /\ kind = "epoch_watermark"
    BY DEF watermark_update, Serve, Stale, Return
  <1>9. report_peer_epoch => kind' = kind /\ kind = "epoch_boundary_detector"
    BY DEF report_peer_epoch, Serve, Return
  <1>10. trigger_boundary => kind' = kind /\ kind = "epoch_boundary_detector"
    BY DEF trigger_boundary, Serve, Return
  <1>11. record_probe => kind' = kind /\ kind = "gossip_prober"
    BY DEF record_probe, Serve, Return
  <1>12. record_message_batch => kind' = kind /\ kind = "backpressure_monitor"
    BY DEF record_message_batch, Serve, Stale, Return
  <1>13. record_and_select => kind' = kind /\ kind = "peer_selector"
    BY DEF record_and_select, Serve, Stale, Return
  <1> QED
    BY <1>1, <1>2, <1>3, <1>4, <1>5, <1>6, <1>7, <1>8, <1>9, <1>10, <1>11, <1>12,
       <1>13 DEF EpochNext, EpochKinds

\* A step of one of these services (PaceServices) leaves the running service
\* what it is, and is one of that service's own actions.
LEMMA PaceServed ==
  ASSUME PaceNext
  PROVE  /\ kind' = kind /\ kind \in PaceKinds
         /\ kind = "adaptive_fanout_controller" => observe_delivery
         /\ kind = "gossip_scheduler" => tick_schedule
         /\ kind = "epoch_snapshot_archive" => archive
         /\ kind = "convergence_certifier" => push_epoch
  <1>1. observe_delivery => kind' = kind /\ kind = "adaptive_fanout_controller"
    BY DEF observe_delivery, Serve, Return
  <1>2. tick_schedule => kind' = kind /\ kind = "gossip_scheduler"
    BY DEF tick_schedule, Serve, Stale, Return
  <1>3. archive => kind' = kind /\ kind = "epoch_snapshot_archive"
    BY DEF archive, Serve, Stale, Return
  <1>4. push_epoch => kind' = kind /\ kind = "convergence_certifier"
    BY DEF push_epoch, Serve, Return
  <1> QED
    BY <1>1, <1>2, <1>3, <1>4 DEF PaceNext, PaceKinds

\* A step of one of these services (MeshServices) leaves the running service
\* what it is, and is one of that service's own actions.
LEMMA MeshServed ==
  ASSUME MeshNext
  PROVE  /\ kind' = kind /\ kind \in MeshKinds
         /\ kind = "dedup_cache" => check_and_insert \/ dedup_advance_epoch
         /\ kind = "message_fragmenter" => insert_fragment
         /\ kind = "message_authenticator" => verify_message
         /\ kind = "gossip_priority" => priority_enqueue \/ dequeue_batch \/ discard_expired
         /\ kind = "fanout_controller" => fanout_decision
         /\ kind = "epoch_auditor" => audit_record
         /\ kind = "quorum_drift" => drift_record
         /\ kind = "divergence_oracle" => health_record
  <1>1. check_and_insert => kind' = kind /\ kind = "dedup_cache"
    BY DEF check_and_insert, Serve, Return
  <1>2. dedup_advance_epoch => kind' = kind /\ kind = "dedup_cache"
    BY DEF dedup_advance_epoch, Serve, Return
  <1>3. insert_fragment => kind' = kind /\ kind = "message_fragmenter"
    BY DEF insert_fragment, Serve, Return
  <1>4. verify_message => kind' = kind /\ kind = "message_authenticator"
    BY DEF verify_message, Serve, Return
  <1>5. priority_enqueue => kind' = kind /\ kind = "gossip_priority"
    BY DEF priority_enqueue, Serve, Return
  <1>6. dequeue_batch => kind' = kind /\ kind = "gossip_priority"
    BY DEF dequeue_batch, Serve, Return
  <1>7. discard_expired => kind' = kind /\ kind = "gossip_priority"
    BY DEF discard_expired, Serve, Return
  <1>8. fanout_decision => kind' = kind /\ kind = "fanout_controller"
    BY DEF fanout_decision, Serve, Stale, Return
  <1>9. audit_record => kind' = kind /\ kind = "epoch_auditor"
    BY DEF audit_record, Serve, Stale, Return
  <1>10. drift_record => kind' = kind /\ kind = "quorum_drift"
    BY DEF drift_record, Serve, Stale, Return
  <1>11. health_record => kind' = kind /\ kind = "divergence_oracle"
    BY DEF health_record, Serve, Stale, Return
  <1> QED
    BY <1>1, <1>2, <1>3, <1>4, <1>5, <1>6, <1>7, <1>8, <1>9, <1>10, <1>11 DEF
       MeshNext, MeshKinds

\* A step of one of these services (LedgerServices) leaves the running service
\* what it is, and is one of that service's own actions.
LEMMA LedgerServed ==
  ASSUME LedgerNext
  PROVE  /\ kind' = kind /\ kind \in LedgerKinds
         /\ kind = "spsf_manager" => ingest \/ spsf_tick
         /\ kind = "gossip_health_compactor" => compact_health
         /\ kind = "resonance_compactor" => compact_resonance
         /\ kind = "unified_compaction_manager" => unified_tick
         /\ kind = "lineage_compactor" => add_segment \/ mark_checkpoint \/ compact_lineage
         /\ kind = "compaction_gossip_health" => record_gossip_health \/
              compact_gossip_health
         /\ kind = "gossip_router" => route \/ change_peers \/ prune_seen
         /\ kind = "gossip_broadcaster" => broadcast_append
  <1>1. ingest => kind' = kind /\ kind = "spsf_manager"
    BY DEF ingest, Serve, Return
  <1>2. spsf_tick => kind' = kind /\ kind = "spsf_manager"
    BY DEF spsf_tick, Serve, Return
  <1>3. compact_health => kind' = kind /\ kind = "gossip_health_compactor"
    BY DEF compact_health, Serve, Return
  <1>4. compact_resonance => kind' = kind /\ kind = "resonance_compactor"
    BY DEF compact_resonance, Serve, Return
  <1>5. unified_tick => kind' = kind /\ kind = "unified_compaction_manager"
    BY DEF unified_tick, Serve, Return
  <1>6. add_segment => kind' = kind /\ kind = "lineage_compactor"
    BY DEF add_segment, Serve, Return
  <1>7. mark_checkpoint => kind' = kind /\ kind = "lineage_compactor"
    BY DEF mark_checkpoint, Serve, Return
  <1>8. compact_lineage => kind' = kind /\ kind = "lineage_compactor"
    BY DEF compact_lineage, Serve, Return
  <1>9. record_gossip_health => kind' = kind /\ kind = "compaction_gossip_health"
    BY DEF record_gossip_health, Serve, Return
  <1>10. compact_gossip_health => kind' = kind /\ kind = "compaction_gossip_health"
    BY DEF compact_gossip_health, Serve, Return
  <1>11. route => kind' = kind /\ kind = "gossip_router"
    BY DEF route, Serve, Return
  <1>12. change_peers => kind' = kind /\ kind = "gossip_router"
    BY DEF change_peers, Serve, Return
  <1>13. prune_seen => kind' = kind /\ kind = "gossip_router"
    BY DEF prune_seen, Serve, Return
  <1>14. broadcast_append => kind' = kind /\ kind = "gossip_broadcaster"
    BY DEF broadcast_append, Serve, Return
  <1> QED
    BY <1>1, <1>2, <1>3, <1>4, <1>5, <1>6, <1>7, <1>8, <1>9, <1>10, <1>11, <1>12,
       <1>13, <1>14 DEF LedgerNext, LedgerKinds

\* The step of a running service, whichever it is: the seven kinds of
\* services have no service in common.
LEMMA Dispatch ==
  ASSUME Next
  PROVE  /\ kind' = kind
         /\ kind \in MessageKinds => MessageNext
         /\ kind \in PeerKinds => PeerNext
         /\ kind \in HealthKinds => HealthNext
         /\ kind \in EpochKinds => EpochNext
         /\ kind \in PaceKinds => PaceNext
         /\ kind \in MeshKinds => MeshNext
         /\ kind \in LedgerKinds => LedgerNext
  <1>1. CASE MessageNext
    <2>1. kind' = kind /\ kind \in MessageKinds
      BY <1>1, MessageServed, Zenon
    <2> QED
      BY <1>1, <2>1 DEF MessageKinds, PeerKinds, HealthKinds,
                          EpochKinds, PaceKinds, MeshKinds, LedgerKinds
  <1>2. CASE PeerNext
    <2>1. kind' = kind /\ kind \in PeerKinds
      BY <1>2, PeerServed, Zenon
    <2> QED
      BY <1>2, <2>1 DEF MessageKinds, PeerKinds, HealthKinds,
                          EpochKinds, PaceKinds, MeshKinds, LedgerKinds
  <1>3. CASE HealthNext
    <2>1. kind' = kind /\ kind \in HealthKinds
      BY <1>3, HealthServed, Zenon
    <2> QED
      BY <1>3, <2>1 DEF MessageKinds, PeerKinds, HealthKinds,
                          EpochKinds, PaceKinds, MeshKinds, LedgerKinds
  <1>4. CASE EpochNext
    <2>1. kind' = kind /\ kind \in EpochKinds
      BY <1>4, EpochServed, Zenon
    <2> QED
      BY <1>4, <2>1 DEF MessageKinds, PeerKinds, HealthKinds,
                          EpochKinds, PaceKinds, MeshKinds, LedgerKinds
  <1>5. CASE PaceNext
    <2>1. kind' = kind /\ kind \in PaceKinds
      BY <1>5, PaceServed, Zenon
    <2> QED
      BY <1>5, <2>1 DEF MessageKinds, PeerKinds, HealthKinds,
                          EpochKinds, PaceKinds, MeshKinds, LedgerKinds
  <1>6. CASE MeshNext
    <2>1. kind' = kind /\ kind \in MeshKinds
      BY <1>6, MeshServed, Zenon
    <2> QED
      BY <1>6, <2>1 DEF MessageKinds, PeerKinds, HealthKinds,
                          EpochKinds, PaceKinds, MeshKinds, LedgerKinds
  <1>7. CASE LedgerNext
    <2>1. kind' = kind /\ kind \in LedgerKinds
      BY <1>7, LedgerServed, Zenon
    <2> QED
      BY <1>7, <2>1 DEF MessageKinds, PeerKinds, HealthKinds,
                          EpochKinds, PaceKinds, MeshKinds, LedgerKinds
  <1> QED
    BY <1>1, <1>2, <1>3, <1>4, <1>5, <1>6, <1>7 DEF Next
-----------------------------------------------------------------------------
(* What every service starts from and appends to. *)

\* The history is empty, and the table is the family's first one.
LEMMA Starts ==
  ASSUME Init
  PROVE  /\ calls = << >> /\ logs = << >> /\ IsSeq(calls) /\ DOMAIN calls = {}
         /\ kind \in MessageKinds => MessageInit
         /\ kind \in PeerKinds => PeerInit
         /\ kind \in EpochKinds => EpochInit
         /\ kind \in PaceKinds => PaceInit
  <1>1. calls = << >> /\ logs = << >>
    BY DEF Init
  <1>2. IsSeq(calls) /\ DOMAIN calls = {}
    BY <1>1 DEF IsSeq
  <1>3. \/ kind \in MessageKinds /\ MessageInit
        \/ kind \in PeerKinds /\ PeerInit
        \/ kind \in HealthKinds
        \/ kind \in EpochKinds /\ EpochInit
        \/ kind \in PaceKinds /\ PaceInit
        \/ kind \in MeshKinds \cup LedgerKinds
    BY DEF Init
  <1> QED
    BY <1>1, <1>2, <1>3 DEF MessageKinds, PeerKinds, HealthKinds, EpochKinds, PaceKinds,
                           MeshKinds, LedgerKinds

\* What a service is called with are numbers, from finite sets.
LEMMA Inputs ==
  ASSUME kind \in Kinds
  PROVE  /\ Peers \subseteq Nat \ {0} /\ Ids \subseteq Nat \ {0} /\ Epochs \subseteq Nat
         /\ IsFiniteSet(Peers) /\ IsFiniteSet(Ids) /\ IsFiniteSet(Epochs)
  <1>1. kind \in DOMAIN Scope
    BY KindsAssumption
  <1> QED
    BY <1>1, ScopeAssumption DEF Peers, Ids, Epochs

\* A call is appended to the history, and the calls before it stay.
LEMMA OneCall ==
  ASSUME IsSeq(calls), NEW op, NEW args, NEW result, Return(op, args, result)
  PROVE  /\ Len(calls) \in Nat /\ DOMAIN calls = 1..Len(calls)
         /\ IsSeq(calls') /\ Len(calls') = Len(calls) + 1
         /\ DOMAIN calls' = 1..(Len(calls) + 1)
         /\ \A i \in 1..Len(calls) : calls'[i] = calls[i]
         /\ calls'[Len(calls) + 1] = [op |-> op, args |-> args, result |-> result]
  BY AppendSeq DEF Return

\* The calls of an operation are those there were, and the new one if it is of
\* that operation.
LEMMA MadeGrows ==
  ASSUME IsSeq(calls), NEW op, NEW args, NEW result, Return(op, args, result)
  PROVE  /\ \A o : Made(o) \subseteq 1..Len(calls)
         /\ \A o : Made(o)' = IF o = op THEN Made(o) \cup {Len(calls) + 1} ELSE Made(o)
  <1> DEFINE n == Len(calls) + 1
  <1>1. /\ Len(calls) \in Nat /\ DOMAIN calls = 1..Len(calls) /\ DOMAIN calls' = 1..n
        /\ \A i \in 1..Len(calls) : calls'[i] = calls[i]
        /\ calls'[n].op = op
    <2>1. calls' = Append(calls, [op |-> op, args |-> args, result |-> result])
      BY DEF Return
    <2>2. PICK r : r = [op |-> op, args |-> args, result |-> result]
      OBVIOUS
    <2>3. calls'[n] = r
      BY <2>1, <2>2, AppendSeq
    <2> QED BY <2>2, <2>3, OneCall
  <1>2. DOMAIN calls' = DOMAIN calls \cup {n} /\ n \notin DOMAIN calls
    BY <1>1
  <1> QED
    BY <1>1, <1>2 DEF Made

\* A finite set with one more element.
LEMMA OneMore ==
  ASSUME NEW S, IsFiniteSet(S), NEW x, x \notin S
  PROVE  /\ IsFiniteSet(S \cup {x}) /\ Cardinality(S) \in Nat
         /\ Cardinality(S \cup {x}) = Cardinality(S) + 1
  BY FS_AddElement, FS_CardinalityType
-----------------------------------------------------------------------------
(* Hop counts. *)

\* The calls that sent a message on, and those that dropped it.
HopsOf(m) == { i \in Made("forward") : Arg(i, 1) = m /\ Got(i, "Forward") }
DropsOf(m) == { i \in Made("forward") : Arg(i, 1) = m /\ ~Got(i, "Forward") }

HopRecords == [origin : Nat, current : Nat, hops : Nat, dropped : BOOLEAN]

\* What a message's record remembers of the calls that forwarded it.
HopsOK(m) ==
    /\ st[m] \in HopRecords
    /\ IsFiniteSet(HopsOf(m)) /\ st[m].hops = Cardinality(HopsOf(m))
    /\ st[m].hops + st[m].current = st[m].origin
    /\ HopsOf(m) # {} => st[m].current > 0
    /\ ~st[m].dropped => DropsOf(m) = {}
    /\ \A i \in DropsOf(m), j \in HopsOf(m) \cup DropsOf(m) : j <= i

HopsInv ==
    kind = "ttl_enforcer" =>
      /\ IsSeq(calls)
      /\ \A i \in Made("forward") : Arg(i, 1) \in DOMAIN st
      /\ \A m \in DOMAIN st : HopsOK(m)

\* A new message has no calls yet (register_origin).
LEMMA RegisterHops ==
  ASSUME HopsInv, kind = "ttl_enforcer", register_origin
  PROVE  HopsInv'
  <1>1. PICK m \in Ids \ DOMAIN st, ttl \in 0..MAX_INITIAL_TTL :
          /\ st' = Put(st, m, [origin |-> ttl, current |-> ttl, hops |-> 0, dropped |-> FALSE])
          /\ Return("register", <<m, ttl>>, "Forward")
    BY DEF register_origin
  <1>2. IsSeq(calls) /\ IsSeq(calls')
    BY <1>1, OneCall DEF HopsInv
  <1>3. /\ Made("forward")' = Made("forward")
        /\ \A i \in Made("forward") : calls'[i] = calls[i]
    <2>1. Made("forward")' = Made("forward") /\ Made("forward") \subseteq 1..Len(calls)
      BY <1>1, <1>2, MadeGrows
    <2> QED BY <1>1, <1>2, <2>1, OneCall
  <1>4. \A x : HopsOf(x)' = HopsOf(x) /\ DropsOf(x)' = DropsOf(x)
    BY <1>3 DEF HopsOf, DropsOf, Arg, Got
  <1>5. DOMAIN st' = DOMAIN st \cup {m} /\ \A x \in DOMAIN st : st'[x] = st[x]
    BY <1>1 DEF Put
  <1>6. \A i \in Made("forward")' : Arg(i, 1)' \in DOMAIN st'
    BY <1>3, <1>5 DEF HopsInv, Arg
  <1>7. ASSUME NEW x \in DOMAIN st PROVE HopsOK(x)'
    <2>1. HopsOK(x)
      BY DEF HopsInv
    <2> QED BY <1>4, <1>5, <2>1 DEF HopsOK
  <1>8. HopsOK(m)'
    <2>1. HopsOf(m) = {} /\ DropsOf(m) = {}
      BY <1>1 DEF HopsInv, HopsOf, DropsOf
    <2>2. ttl \in Nat
      BY <1>1, MessageAssumption
    <2>3. st'[m] = [origin |-> ttl, current |-> ttl, hops |-> 0, dropped |-> FALSE]
      BY <1>1 DEF Put
    <2>4. /\ st'[m] \in HopRecords
          /\ st'[m].hops = 0 /\ st'[m].hops + st'[m].current = st'[m].origin
      BY <2>2, <2>3 DEF HopRecords
    <2> QED BY <1>4, <2>1, <2>4, FS_EmptySet DEF HopsOK
  <1> QED
    BY <1>2, <1>5, <1>6, <1>7, <1>8 DEF HopsInv

\* A hop leaves one less; a drop is the last call of its message (forward).
LEMMA ForwardHops ==
  ASSUME HopsInv, kind = "ttl_enforcer", forward
  PROVE  HopsInv'
  <1> DEFINE n == Len(calls) + 1
  <1>1. PICK m \in DOMAIN st, claimed \in 0..MAX_INITIAL_TTL : \E d, e :
          /\ e = SaturatingSub(st[m].current, 1) /\ d = TtlDecision(claimed, e)
          /\ ~st[m].dropped
          /\ st' = [st EXCEPT ![m] = IF d = "Forward"
                                     THEN [st[m] EXCEPT !.current = e, !.hops = @ + 1]
                                     ELSE [st[m] EXCEPT !.dropped = TRUE]]
          /\ Return("forward", <<m, claimed>>, d)
    BY DEF forward
  <1>a. PICK d, e :
          /\ e = SaturatingSub(st[m].current, 1) /\ d = TtlDecision(claimed, e)
          /\ ~st[m].dropped
          /\ st' = [st EXCEPT ![m] = IF d = "Forward"
                                     THEN [st[m] EXCEPT !.current = e, !.hops = @ + 1]
                                     ELSE [st[m] EXCEPT !.dropped = TRUE]]
          /\ Return("forward", <<m, claimed>>, d)
    BY <1>1
  <1>2. HopsOK(m) /\ IsSeq(calls)
    BY <1>1 DEF HopsInv
  <1>3. /\ Len(calls) \in Nat /\ IsSeq(calls')
        /\ \A i \in 1..Len(calls) : calls'[i] = calls[i]
        /\ calls'[n] = [op |-> "forward", args |-> <<m, claimed>>, result |-> d]
    BY <1>a, <1>2, OneCall
  <1>4. /\ Made("forward")' = Made("forward") \cup {n}
        /\ Made("forward") \subseteq 1..Len(calls)
    BY <1>a, <1>2, MadeGrows
  <1>5. n \notin Made("forward") /\ \A i \in Made("forward") : calls'[i] = calls[i] /\ i <= n
    BY <1>3, <1>4
  <1>6. calls'[n].args[1] = m /\ calls'[n].result = d
    BY <1>3
  <1>7. \A x : /\ HopsOf(x)' = IF x = m /\ d = "Forward" THEN HopsOf(x) \cup {n} ELSE HopsOf(x)
               /\ DropsOf(x)' = IF x = m /\ d # "Forward" THEN DropsOf(x) \cup {n} ELSE DropsOf(x)
    BY <1>4, <1>5, <1>6 DEF HopsOf, DropsOf, Arg, Got
  <1>8. DOMAIN st' = DOMAIN st /\ \A x \in DOMAIN st \ {m} : st'[x] = st[x]
    BY <1>a
  <1>9. \A i \in Made("forward")' : Arg(i, 1)' \in DOMAIN st'
    BY <1>4, <1>5, <1>6, <1>8 DEF HopsInv, Arg
  <1>10. ASSUME NEW x \in DOMAIN st, x # m PROVE HopsOK(x)'
    <2>1. HopsOK(x) /\ st'[x] = st[x]
      BY <1>8, <1>10 DEF HopsInv
    <2> QED BY <1>7, <1>10, <2>1 DEF HopsOK
  <1>11. HopsOK(m)'
    <2>1. st[m] \in HopRecords /\ DropsOf(m) = {}
      BY <1>a, <1>2 DEF HopsOK
    <2>2. HopsOf(m) \subseteq Made("forward") /\ n \notin HopsOf(m)
      BY <1>5 DEF HopsOf
    <2>3. CASE d = "Forward"
      <3>1. e > 0 /\ e = st[m].current - 1
        <4>1. e # 0
          BY <1>a, <2>3 DEF TtlDecision
        <4> QED BY <1>a, <2>1, <4>1 DEF SaturatingSub, HopRecords
      <3>2. st'[m] = [st[m] EXCEPT !.current = e, !.hops = @ + 1]
        BY <1>a, <2>3
      <3>3. /\ st'[m] \in HopRecords /\ st'[m].current = e
            /\ st'[m].hops = st[m].hops + 1 /\ st'[m].origin = st[m].origin
        <4>1. PICK r \in HopRecords : r = st[m]
          BY <2>1
        <4>2. r.origin \in Nat /\ r.current \in Nat /\ r.hops \in Nat /\ r.dropped \in BOOLEAN
          BY DEF HopRecords
        <4>3. e \in Nat /\ r.hops + 1 \in Nat
          BY <3>1, <4>1, <4>2
        <4>4. st'[m] = [r EXCEPT !.current = e, !.hops = r.hops + 1]
          BY <3>2, <4>1
        <4> QED BY <4>1, <4>3, <4>4 DEF HopRecords
      <3>4. /\ IsFiniteSet(HopsOf(m)')
            /\ Cardinality(HopsOf(m)') = Cardinality(HopsOf(m)) + 1
        BY <1>2, <1>7, <2>2, <2>3, OneMore DEF HopsOK
      <3>5. DropsOf(m)' = {}
        BY <1>7, <2>1, <2>3
      <3>6. /\ st'[m].hops = Cardinality(HopsOf(m)')
            /\ st'[m].hops + st'[m].current = st'[m].origin
        BY <1>2, <2>1, <3>1, <3>3, <3>4 DEF HopsOK, HopRecords
      <3> QED BY <3>1, <3>3, <3>4, <3>5, <3>6 DEF HopsOK
    <2>4. CASE d # "Forward"
      <3>1. st'[m] = [st[m] EXCEPT !.dropped = TRUE]
        BY <1>a, <2>4
      <3>2. /\ st'[m] \in HopRecords /\ st'[m].current = st[m].current
            /\ st'[m].hops = st[m].hops /\ st'[m].origin = st[m].origin
            /\ st'[m].dropped
        BY <2>1, <3>1 DEF HopRecords
      <3>3. HopsOf(m)' = HopsOf(m) /\ DropsOf(m)' = {n}
        BY <1>7, <2>1, <2>4
      <3>4. \A i \in HopsOf(m) : i <= n
        BY <1>5, <2>2
      <3>5. n <= n
        BY <1>3
      <3> QED BY <1>2, <3>2, <3>3, <3>4, <3>5 DEF HopsOK
    <2> QED BY <2>3, <2>4
  <1> QED
    BY <1>3, <1>8, <1>9, <1>10, <1>11 DEF HopsInv

\* What a message's hop counter says is true of the history of its calls
\* (ttl_enforcer.rs).
THEOREM HopsCorrect == Spec => []HopsBounded
  <1>1. Init => HopsInv
    BY Starts DEF HopsInv, Made, MessageInit, MessageKinds
  <1>2. HopsInv /\ [Next]_vars => HopsInv'
    <2> SUFFICES ASSUME HopsInv, [Next]_vars PROVE HopsInv'
      OBVIOUS
    <2>1. CASE UNCHANGED vars
      <3>1. kind' = kind /\ calls' = calls /\ st' = st
        BY <2>1 DEF vars
      <3>2. /\ Made("forward")' = Made("forward") /\ \A i : Arg(i, 1)' = Arg(i, 1)
            /\ \A x : HopsOf(x)' = HopsOf(x) /\ DropsOf(x)' = DropsOf(x)
        BY <3>1 DEF HopsOf, DropsOf, Made, Arg, Got
      <3>3. \A x : HopsOK(x) <=> HopsOK(x)'
        BY <3>1, <3>2 DEF HopsOK
      <3> QED BY <3>1, <3>2, <3>3 DEF HopsInv
    <2>2. CASE Next
      <3>1. kind' = kind /\ (kind = "ttl_enforcer" => register_origin \/ forward)
        BY <2>2, Dispatch, MessageServed DEF MessageKinds
      <3>2. CASE kind = "ttl_enforcer"
        BY <3>1, <3>2, RegisterHops, ForwardHops
      <3>3. CASE kind # "ttl_enforcer"
        BY <3>1, <3>3 DEF HopsInv
      <3> QED BY <3>2, <3>3
    <2> QED BY <2>1, <2>2
  <1>3. HopsInv => HopsBounded
    <2> SUFFICES ASSUME HopsInv, kind = "ttl_enforcer", NEW m \in DOMAIN st
                 PROVE  LET mine == { i \in Made("forward") : Arg(i, 1) = m }
                            hops == { i \in mine : Got(i, "Forward") }
                        IN  /\ st[m].hops = Cardinality(hops)
                            /\ st[m].hops + st[m].current = st[m].origin
                            /\ hops # {} => st[m].current > 0
                            /\ \A i \in mine \ hops : \A j \in mine : j <= i
      BY DEF HopsBounded
    <2>1. HopsOK(m)
      BY DEF HopsInv
    <2>2. { i \in { x \in Made("forward") : Arg(x, 1) = m } : Got(i, "Forward") } = HopsOf(m)
      BY DEF HopsOf
    <2>3. { i \in Made("forward") : Arg(i, 1) = m } = HopsOf(m) \cup DropsOf(m)
      BY DEF HopsOf, DropsOf
    <2>4. (HopsOf(m) \cup DropsOf(m)) \ HopsOf(m) \subseteq DropsOf(m)
      OBVIOUS
    <2> QED BY <2>1, <2>2, <2>3, <2>4 DEF HopsOK
  <1> QED BY <1>1, <1>2, <1>3, PTL DEF Spec
-----------------------------------------------------------------------------
(* What the histories of the limiters and filters need. *)

\* A member that bounds a set of numbers is its maximum.
LEMMA MaxIs ==
  ASSUME NEW S \in SUBSET Int, NEW m \in S, \A x \in S : x <= m
  PROVE  Max(S) = m
  <1>1. \A x \in S : (\A y \in S : x >= y) => x = m
    OBVIOUS
  <1>2. \A y \in S : m >= y
    OBVIOUS
  <1> QED BY <1>1, <1>2 DEF Max

\* A new call: where it stands, and what the operators on calls say of it and
\* of the calls before it.
LEMMA NewCall ==
  ASSUME IsSeq(calls), NEW op, NEW args, NEW result, Return(op, args, result), NEW n,
         n = Len(calls) + 1
  PROVE  /\ n \in Nat \ {0} /\ Len(calls) \in Nat /\ n \notin 1..Len(calls)
         /\ IsSeq(calls') /\ Len(calls') = n /\ DOMAIN calls = 1..(n - 1) /\ DOMAIN calls' = 1..n
         /\ \A i \in 1..(n - 1) : calls'[i] = calls[i]
         /\ calls'[n].op = op /\ calls'[n].args = args /\ calls'[n].result = result
         /\ \A k : Arg(n, k)' = args[k]
         /\ \A r : Got(n, r)' <=> result = r
         /\ \A i \in 1..(n - 1) : \A k : Arg(i, k)' = Arg(i, k)
         /\ \A i \in 1..(n - 1) : \A r : Got(i, r)' <=> Got(i, r)
         /\ \A o : Made(o) \subseteq 1..(n - 1)
         /\ \A o : Made(o)' = IF o = op THEN Made(o) \cup {n} ELSE Made(o)
  <1>1. PICK r : r = [op |-> op, args |-> args, result |-> result]
    OBVIOUS
  <1>2. r.op = op /\ r.args = args /\ r.result = result
    BY <1>1
  <1>3. /\ Len(calls) \in Nat /\ DOMAIN calls = 1..Len(calls)
        /\ IsSeq(calls') /\ Len(calls') = Len(calls) + 1
        /\ DOMAIN calls' = 1..(Len(calls) + 1)
        /\ \A i \in 1..Len(calls) : calls'[i] = calls[i]
        /\ calls'[Len(calls) + 1] = r
    BY <1>1, OneCall
  <1>4. Len(calls) = n - 1 /\ n \in Nat \ {0} /\ n \notin 1..Len(calls)
    BY <1>3
  <1>5. /\ DOMAIN calls = 1..(n - 1) /\ DOMAIN calls' = 1..n /\ Len(calls') = n
        /\ \A i \in 1..(n - 1) : calls'[i] = calls[i]
    BY <1>3, <1>4
  <1>6. calls'[n].op = op /\ calls'[n].args = args /\ calls'[n].result = result
    BY <1>2, <1>3
  <1>7. /\ \A k : Arg(n, k)' = args[k]
        /\ \A q : Got(n, q)' <=> result = q
    BY <1>6 DEF Arg, Got
  <1>8. /\ \A i \in 1..(n - 1) : \A k : Arg(i, k)' = Arg(i, k)
        /\ \A i \in 1..(n - 1) : \A q : Got(i, q)' <=> Got(i, q)
    BY <1>5 DEF Arg, Got
  <1>9. /\ \A o : Made(o) \subseteq 1..(n - 1)
        /\ \A o : Made(o)' = IF o = op THEN Made(o) \cup {n} ELSE Made(o)
    BY <1>4, MadeGrows
  <1> QED BY <1>3, <1>4, <1>5, <1>6, <1>7, <1>8, <1>9

\* A call of one operation leaves those of another as they are.
LEMMA OtherCall ==
  ASSUME IsSeq(calls), NEW op, NEW args, NEW result, Return(op, args, result), NEW o, o # op
  PROVE  /\ IsSeq(calls') /\ Made(o)' = Made(o) /\ Made(o) \subseteq 1..Len(calls)
         /\ \A i \in Made(o) : \A k : Arg(i, k)' = Arg(i, k)
         /\ \A i \in Made(o) : \A r : Got(i, r)' <=> Got(i, r)
         /\ \A i \in Made(o) : calls'[i] = calls[i]
  <1>1. Made(o)' = Made(o) /\ Made(o) \subseteq 1..Len(calls)
    BY MadeGrows
  <1>2. IsSeq(calls') /\ \A i \in 1..Len(calls) : calls'[i] = calls[i]
    BY OneCall
  <1> QED BY <1>1, <1>2 DEF Arg, Got

\* The calls up to one are finitely many.
LEMMA FewCalls ==
  ASSUME NEW S, NEW m \in Nat, S \subseteq 1..m
  PROVE  IsFiniteSet(S) /\ Cardinality(S) \in Nat
  <1>1. IsFiniteSet(1..m)
    BY FS_Interval
  <1>2. IsFiniteSet(S)
    BY <1>1, FS_Subset
  <1> QED BY <1>2, FS_CardinalityType
-----------------------------------------------------------------------------
(* The rate limiter (epoch_rate_limiter.rs). *)

\* The calls of a source, and those its present epoch let through.
From(p) == { i \in Made("consume") : Arg(i, 1) = p }
Through(p) == { i \in From(p) : ChargedTo(i, "consume") = st[p].epoch /\ Got(i, TRUE) }

RateRecords == [epoch : Nat, used : Nat, dropped : Nat]

\* What a source's record remembers of its calls.
RateOK(p) ==
    /\ st[p] \in RateRecords /\ st[p].used <= BUCKET_CAPACITY
    /\ st[p].used = Cardinality(Through(p))
    /\ \E i \in From(p) : Arg(i, 2) = st[p].epoch
    /\ \A i \in From(p) :
         /\ Arg(i, 2) \in Nat /\ Arg(i, 2) <= st[p].epoch
         /\ ChargedTo(i, "consume") \in Nat /\ ChargedTo(i, "consume") <= st[p].epoch

RateInv ==
    kind = "epoch_rate_limiter" =>
      /\ IsSeq(calls)
      /\ \A i \in Made("consume") : Arg(i, 1) \in DOMAIN st
      /\ \A p \in DOMAIN st : RateOK(p)
      /\ EpochQuota

\* What a call was charged to does not change any more.
LEMMA ChargedStays ==
  ASSUME IsSeq(calls), NEW op, NEW args, NEW result, Return(op, args, result), NEW o,
         NEW i \in Made(o)
  PROVE  /\ i \in Made(o)' /\ ChargedTo(i, o)' = ChargedTo(i, o)
         /\ ChargedWith(i, o)' = ChargedWith(i, o)
         /\ ChargedWith(i, o) \subseteq Made(o) /\ i \in 1..Len(calls)
  <1> DEFINE n == Len(calls) + 1
  <1>1. /\ n \in Nat \ {0} /\ Len(calls) \in Nat /\ Len(calls) = n - 1
        /\ \A j \in 1..(n - 1) : \A k : Arg(j, k)' = Arg(j, k)
        /\ \A x : Made(x) \subseteq 1..(n - 1)
        /\ \A x : Made(x)' = IF x = op THEN Made(x) \cup {n} ELSE Made(x)
    BY NewCall
  <1>2. i \in 1..(n - 1) /\ i \in Made(o)'
    BY <1>1
  <1>3. ASSUME NEW j \in Made(o) PROVE ChargedTo(j, o)' = ChargedTo(j, o)
    <2>1. j \in 1..(n - 1)
      BY <1>1
    <2>2. (Made(o) \cap (1..j))' = Made(o) \cap (1..j)
      BY <1>1, <2>1
    <2>3. { d \in Made(o) \cap (1..j) : Arg(d, 1) = Arg(j, 1) }'
            = { d \in Made(o) \cap (1..j) : Arg(d, 1) = Arg(j, 1) }
      BY <1>1, <2>1, <2>2
    <2>4. { Arg(c, 2) : c \in { d \in Made(o) \cap (1..j) : Arg(d, 1) = Arg(j, 1) } }'
            = { Arg(c, 2) : c \in { d \in Made(o) \cap (1..j) : Arg(d, 1) = Arg(j, 1) } }
      BY <1>1, <2>1, <2>3
    <2> QED BY <2>4 DEF ChargedTo
  <1>4. (Made(o) \cap (1..(i - 1)))' = Made(o) \cap (1..(i - 1))
    BY <1>1, <1>2
  <1>5. ChargedWith(i, o)' = ChargedWith(i, o)
    BY <1>1, <1>2, <1>3, <1>4 DEF ChargedWith
  <1> QED BY <1>1, <1>2, <1>3, <1>5 DEF ChargedWith

\* What a new call is charged to: the latest epoch its source has named, which is
\* its own if its source has named none or it names a later one.
LEMMA ChargedNow ==
  ASSUME IsSeq(calls), NEW op, NEW args, NEW result, Return(op, args, result), NEW n,
         n = Len(calls) + 1, args[2] \in Nat,
         \A i \in Made(op) : Arg(i, 1) = args[1] => Arg(i, 2) \in Nat, NEW top \in Nat,
         \/ top = args[2]
         \/ \E i \in Made(op) : Arg(i, 1) = args[1] /\ Arg(i, 2) = top,
         args[2] <= top,
         \A i \in Made(op) : Arg(i, 1) = args[1] => Arg(i, 2) <= top
  PROVE  ChargedTo(n, op)' = top
  <1>1. /\ n \in Nat \ {0} /\ n \notin Made(op) /\ Made(op)' = Made(op) \cup {n}
        /\ \A k : Arg(n, k)' = args[k]
        /\ \A j \in Made(op) : \A k : Arg(j, k)' = Arg(j, k)
        /\ Made(op) \subseteq 1..(n - 1)
    BY NewCall
  <1>2. Made(op)' \cap (1..n) = Made(op) \cup {n}
    BY <1>1
  <1>3. { d \in (Made(op) \cap (1..n))' : Arg(d, 1)' = Arg(n, 1)' }
          = { d \in Made(op) : Arg(d, 1) = args[1] } \cup {n}
    BY <1>1, <1>2
  <1>4. { Arg(c, 2)' : c \in { d \in (Made(op) \cap (1..n))' : Arg(d, 1)' = Arg(n, 1)' } }
          = { Arg(c, 2) : c \in { d \in Made(op) : Arg(d, 1) = args[1] } } \cup {args[2]}
    BY <1>1, <1>3
  <1>5. Max({ Arg(c, 2) : c \in { d \in Made(op) : Arg(d, 1) = args[1] } } \cup {args[2]}) = top
    <2> DEFINE S == { Arg(c, 2) : c \in { d \in Made(op) : Arg(d, 1) = args[1] } } \cup {args[2]}
    <2>1. S \in SUBSET Int
      OBVIOUS
    <2>2. top \in S
      OBVIOUS
    <2>3. \A x \in S : x <= top
      OBVIOUS
    <2> HIDE DEF S
    <2>4. Max(S) = top
      BY <2>1, <2>2, <2>3, MaxIs
    <2> QED BY <2>4 DEF S
  <1> QED BY <1>4, <1>5 DEF ChargedTo

\* A source is charged, and let through while its quota lasts (rate_consume).
LEMMA RateConsumes ==
  ASSUME RateInv, kind = "epoch_rate_limiter", kind' = kind, kind \in Kinds, rate_consume
  PROVE  RateInv'
  <1>0. PICK n : n = Len(calls) + 1
    OBVIOUS
  <1>1. PICK p \in Peers, e \in Epochs : \E s, allow :
          /\ s = InEpoch(p, e, [epoch |-> 0, used |-> 0, dropped |-> 0])
          /\ allow = (s.used < BUCKET_CAPACITY)
          /\ st' = Put(st, p, IF allow THEN [s EXCEPT !.used = SaturatingAdd(@, 1)]
                                       ELSE [s EXCEPT !.dropped = SaturatingAdd(@, 1)])
          /\ Return("consume", <<p, e>>, allow)
    BY DEF rate_consume
  <1>2. PICK s, allow :
          /\ s = InEpoch(p, e, [epoch |-> 0, used |-> 0, dropped |-> 0])
          /\ allow = (s.used < BUCKET_CAPACITY)
          /\ st' = Put(st, p, IF allow THEN [s EXCEPT !.used = SaturatingAdd(@, 1)]
                                       ELSE [s EXCEPT !.dropped = SaturatingAdd(@, 1)])
          /\ Return("consume", <<p, e>>, allow)
    BY <1>1
  <1>3. e \in Nat /\ BUCKET_CAPACITY \in Nat /\ BUCKET_CAPACITY <= U32Max /\ U32Max \in Nat
    BY Inputs, MessageAssumption, U32MaxAssumption
  <1>4. IsSeq(calls) /\ n = Len(calls) + 1
    BY <1>0 DEF RateInv
  <1>5. /\ n \in Nat \ {0} /\ n \notin Made("consume") /\ IsSeq(calls')
        /\ Made("consume")' = Made("consume") \cup {n}
        /\ Made("consume") \subseteq 1..(n - 1)
        /\ Arg(n, 1)' = p /\ Arg(n, 2)' = e /\ (Got(n, TRUE)' <=> allow)
        /\ \A i \in Made("consume") : \A k : Arg(i, k)' = Arg(i, k)
        /\ \A i \in Made("consume") : \A r : Got(i, r)' <=> Got(i, r)
    <2>1. allow \in BOOLEAN
      BY <1>2
    <2>2. allow = TRUE <=> allow
      BY <2>1
    <2>3. <<p, e>>[1] = p /\ <<p, e>>[2] = e
      OBVIOUS
    <2>4. Made("consume") \subseteq 1..(n - 1)
      BY <1>2, <1>4, NewCall
    <2>5. /\ n \in Nat \ {0} /\ IsSeq(calls')
          /\ \A k : Arg(n, k)' = <<p, e>>[k]
          /\ \A r : Got(n, r)' <=> allow = r
          /\ \A i \in 1..(n - 1) : \A k : Arg(i, k)' = Arg(i, k)
          /\ \A i \in 1..(n - 1) : \A r : Got(i, r)' <=> Got(i, r)
          /\ Made("consume")' = Made("consume") \cup {n}
      BY <1>2, <1>4, NewCall
    <2>6. n \notin Made("consume")
      BY <2>4, <2>5
    <2> QED BY <2>2, <2>3, <2>4, <2>5, <2>6
  <1>6. \A i \in Made("consume") :
          /\ ChargedTo(i, "consume")' = ChargedTo(i, "consume")
          /\ ChargedWith(i, "consume")' = ChargedWith(i, "consume")
          /\ ChargedWith(i, "consume") \subseteq Made("consume")
    BY <1>2, <1>4, ChargedStays
  <1>7. \A x : From(x)' = IF x = p THEN From(x) \cup {n} ELSE From(x)
    BY <1>5 DEF From
  <1>8. DOMAIN st' = DOMAIN st \cup {p} /\ \A x \in DOMAIN st \ {p} : st'[x] = st[x]
    BY <1>2 DEF Put
  <1>9. \A i \in From(p) : i \in Made("consume") /\ p \in DOMAIN st
    BY DEF From, RateInv
  <1>10. /\ s \in RateRecords /\ s.used <= BUCKET_CAPACITY /\ e <= s.epoch
         /\ \A i \in From(p) : Arg(i, 2) \in Nat /\ Arg(i, 2) <= s.epoch
         /\ \A i \in From(p) : ChargedTo(i, "consume") \in Nat
         /\ \A i \in From(p) : ChargedTo(i, "consume") <= s.epoch
         /\ s.epoch = e \/ \E i \in From(p) : Arg(i, 2) = s.epoch
    <2>1. CASE p \notin DOMAIN st
      <3>1. s = [epoch |-> e, used |-> 0, dropped |-> 0]
        BY <1>2, <2>1 DEF InEpoch, Get
      <3>2. From(p) = {}
        BY <1>9, <2>1
      <3> QED BY <1>3, <3>1, <3>2 DEF RateRecords
    <2>2. CASE p \in DOMAIN st
      <3>1. RateOK(p)
        BY <2>2 DEF RateInv
      <3>2. s = IF e > st[p].epoch THEN [epoch |-> e, used |-> 0, dropped |-> 0] ELSE st[p]
        BY <1>2, <2>2 DEF InEpoch, Get
      <3>3. CASE e > st[p].epoch
        <4>1. s = [epoch |-> e, used |-> 0, dropped |-> 0]
          BY <3>2, <3>3
        <4>2. st[p].epoch \in Nat
          BY <3>1 DEF RateOK, RateRecords
        <4> QED BY <1>3, <3>1, <3>3, <4>1, <4>2 DEF RateOK, RateRecords
      <3>4. CASE ~(e > st[p].epoch)
        <4>1. s = st[p]
          BY <3>2, <3>4
        <4>2. st[p].epoch \in Nat
          BY <3>1 DEF RateOK, RateRecords
        <4> QED BY <1>3, <3>1, <3>4, <4>1, <4>2 DEF RateOK
      <3> QED BY <3>3, <3>4
    <2> QED BY <2>1, <2>2
  <1>11. s.epoch \in Nat /\ s.used \in Nat /\ s.dropped \in Nat
    BY <1>10 DEF RateRecords
  <1> DEFINE T == { i \in From(p) : ChargedTo(i, "consume") = s.epoch /\ Got(i, TRUE) }
  <1>12. IsFiniteSet(T) /\ n \notin T /\ s.used = Cardinality(T)
    <2>1. T \subseteq Made("consume")
      BY <1>9
    <2>2. IsFiniteSet(T)
      <3> HIDE DEF T
      <3>1. T \subseteq 1..(n - 1)
        BY <1>5, <2>1
      <3>2. n - 1 \in Nat
        BY <1>5
      <3> QED BY <3>1, <3>2, FewCalls
    <2>3. s.used = Cardinality(T)
      <3>1. CASE p \notin DOMAIN st
        <4>1. T = {}
          BY <1>9, <3>1
        <4>2. s.used = 0
          BY <1>2, <3>1 DEF InEpoch, Get
        <4> QED BY <4>1, <4>2, FS_EmptySet
      <3>2. CASE p \in DOMAIN st /\ e > st[p].epoch
        <4>1. s = [epoch |-> e, used |-> 0, dropped |-> 0]
          BY <1>2, <3>2 DEF InEpoch, Get
        <4>2. RateOK(p)
          BY <3>2 DEF RateInv
        <4>3. s.epoch = e /\ st[p].epoch \in Nat /\ s.used = 0
          BY <4>1, <4>2 DEF RateOK, RateRecords
        <4>4. \A i \in From(p) :
                ChargedTo(i, "consume") \in Nat /\ ChargedTo(i, "consume") <= st[p].epoch
          BY <4>2 DEF RateOK
        <4>5. \A i \in From(p) : ChargedTo(i, "consume") # s.epoch
          BY <1>3, <3>2, <4>3, <4>4
        <4>6. T = {}
          BY <4>5
        <4> QED BY <4>3, <4>6, FS_EmptySet
      <3>3. CASE p \in DOMAIN st /\ ~(e > st[p].epoch)
        <4>1. s = st[p]
          BY <1>2, <3>3 DEF InEpoch, Get
        <4>2. RateOK(p)
          BY <3>3 DEF RateInv
        <4>3. T = Through(p)
          BY <4>1 DEF Through
        <4> QED BY <4>1, <4>2, <4>3 DEF RateOK
      <3> QED BY <3>1, <3>2, <3>3
    <2>4. n \notin T
      BY <1>5, <2>1
    <2> QED BY <2>2, <2>3, <2>4
  <1>13. ChargedTo(n, "consume")' = s.epoch
    <2>1. \A i \in Made("consume") : Arg(i, 1) = p => i \in From(p)
      BY DEF From
    <2>2. <<p, e>>[1] = p /\ <<p, e>>[2] = e
      OBVIOUS
    <2>3. \A i \in From(p) : i \in Made("consume") /\ Arg(i, 1) = p
      BY DEF From
    <2>4. \/ s.epoch = <<p, e>>[2]
          \/ \E i \in Made("consume") : Arg(i, 1) = <<p, e>>[1] /\ Arg(i, 2) = s.epoch
      BY <1>10, <2>2, <2>3
    <2>5. \A i \in Made("consume") : Arg(i, 1) = <<p, e>>[1] =>
            Arg(i, 2) \in Nat /\ Arg(i, 2) <= s.epoch
      BY <1>10, <2>1, <2>2
    <2>6. <<p, e>>[2] \in Nat /\ <<p, e>>[2] <= s.epoch
      BY <1>3, <1>10, <2>2
    <2> QED BY <1>2, <1>4, <1>11, <2>4, <2>5, <2>6, ChargedNow
  <1>14. { c \in ChargedWith(n, "consume")' : Got(c, TRUE)' } = T
    <2>1. Made("consume")' \cap (1..(n - 1)) = Made("consume")
      BY <1>5
    <2>2. ChargedWith(n, "consume")'
            = { c \in Made("consume") : Arg(c, 1) = p /\ ChargedTo(c, "consume") = s.epoch }
      BY <1>5, <1>6, <1>13, <2>1 DEF ChargedWith
    <2> QED BY <1>5, <2>2 DEF From
  <1>15. EpochQuota'
    <2>1. ASSUME NEW i \in Made("consume")
          PROVE  { c \in ChargedWith(i, "consume")' : Got(c, TRUE)' }
                   = { c \in ChargedWith(i, "consume") : Got(c, TRUE) }
      BY <1>5, <1>6
    <2>2. ASSUME NEW i \in Made("consume")
          PROVE  (Got(i, TRUE) <=> Cardinality({ c \in ChargedWith(i, "consume") : Got(c, TRUE) })
                                     < BUCKET_CAPACITY)'
      BY <1>5, <2>1 DEF EpochQuota, RateInv
    <2>3. (Got(n, TRUE) <=> Cardinality({ c \in ChargedWith(n, "consume") : Got(c, TRUE) })
                              < BUCKET_CAPACITY)'
      BY <1>2, <1>5, <1>12, <1>14
    <2> QED BY <1>5, <2>2, <2>3 DEF EpochQuota
  <1>16. /\ st'[p] = IF allow THEN [s EXCEPT !.used = SaturatingAdd(@, 1)]
                              ELSE [s EXCEPT !.dropped = SaturatingAdd(@, 1)]
         /\ SaturatingAdd(s.dropped, 1) \in Nat
         /\ allow => SaturatingAdd(s.used, 1) = s.used + 1 /\ s.used + 1 <= BUCKET_CAPACITY
    <2>1. st'[p] = IF allow THEN [s EXCEPT !.used = SaturatingAdd(@, 1)]
                            ELSE [s EXCEPT !.dropped = SaturatingAdd(@, 1)]
      BY <1>2 DEF Put
    <2>2. SaturatingAdd(s.dropped, 1) \in Nat
      BY <1>3, <1>11 DEF SaturatingAdd, AtMost
    <2>3. allow => SaturatingAdd(s.used, 1) = s.used + 1 /\ s.used + 1 <= BUCKET_CAPACITY
      <3>1. allow => s.used < BUCKET_CAPACITY
        BY <1>2
      <3> QED BY <1>3, <1>11, <3>1 DEF SaturatingAdd, AtMost
    <2> QED BY <2>1, <2>2, <2>3
  <1>17. /\ st'[p] \in RateRecords /\ st'[p].epoch = s.epoch /\ st'[p].used <= BUCKET_CAPACITY
         /\ st'[p].used = IF allow THEN s.used + 1 ELSE s.used
    <2>1. CASE allow
      <3>1. st'[p] = [s EXCEPT !.used = s.used + 1] /\ s.used + 1 \in Nat
        BY <1>11, <1>16, <2>1
      <3> QED BY <1>10, <1>16, <2>1, <3>1 DEF RateRecords
    <2>2. CASE ~allow
      <3>1. PICK d \in Nat : st'[p] = [s EXCEPT !.dropped = d]
        BY <1>11, <1>16, <2>2
      <3> QED BY <1>10, <2>2, <3>1 DEF RateRecords
    <2> QED BY <2>1, <2>2
  <1>18. RateOK(p)'
    <2>1. Through(p)' = IF allow THEN T \cup {n} ELSE T
      BY <1>5, <1>6, <1>7, <1>9, <1>13, <1>17 DEF Through
    <2>2. Cardinality(T \cup {n}) = Cardinality(T) + 1
      BY <1>12, OneMore
    <2>3. st'[p].used = Cardinality(Through(p)')
      BY <1>12, <1>17, <2>1, <2>2
    <2>4. \E i \in From(p)' : Arg(i, 2)' = st'[p].epoch
      <3>1. n \in From(p)' /\ \A i \in From(p) : i \in From(p)'
        BY <1>7
      <3> QED BY <1>5, <1>9, <1>10, <1>17, <3>1
    <2>5. \A i \in From(p)' : Arg(i, 2)' \in Nat /\ Arg(i, 2)' <= st'[p].epoch
      BY <1>3, <1>5, <1>7, <1>9, <1>10, <1>17
    <2>6. \A i \in From(p)' :
            ChargedTo(i, "consume")' \in Nat /\ ChargedTo(i, "consume")' <= st'[p].epoch
      BY <1>6, <1>7, <1>9, <1>10, <1>11, <1>13, <1>17
    <2> QED BY <1>17, <2>3, <2>4, <2>5, <2>6 DEF RateOK
  <1>19. ASSUME NEW x \in DOMAIN st, x # p PROVE RateOK(x)'
    <2>1. RateOK(x) /\ st'[x] = st[x] /\ From(x)' = From(x)
      BY <1>7, <1>8, <1>19 DEF RateInv
    <2>2. \A i \in From(x) : i \in Made("consume")
      BY DEF From
    <2>3. Through(x)' = Through(x)
      BY <1>5, <1>6, <2>1, <2>2 DEF Through
    <2> QED BY <1>5, <1>6, <2>1, <2>2, <2>3 DEF RateOK
  <1>20. \A i \in Made("consume")' : Arg(i, 1)' \in DOMAIN st'
    BY <1>5, <1>8 DEF RateInv
  <1> QED
    BY <1>5, <1>8, <1>15, <1>18, <1>19, <1>20 DEF RateInv

\* Sealing an epoch charges nobody (rate_seal_epoch).
LEMMA RateSeals ==
  ASSUME RateInv, kind = "epoch_rate_limiter", rate_seal_epoch
  PROVE  RateInv'
  <1>1. PICK e \in Epochs : Return("seal", <<e>>, TRUE) /\ st' = st
    BY DEF rate_seal_epoch
  <1>2. IsSeq(calls)
    BY DEF RateInv
  <1>3. /\ IsSeq(calls') /\ Made("consume")' = Made("consume")
        /\ \A i \in Made("consume") : \A k : Arg(i, k)' = Arg(i, k)
        /\ \A i \in Made("consume") : \A r : Got(i, r)' <=> Got(i, r)
    <2>1. PICK r : Return("seal", <<e>>, r)
      BY <1>1, Zenon
    <2> QED BY <1>2, <2>1, OtherCall
  <1>4. \A i \in Made("consume") :
          /\ ChargedTo(i, "consume")' = ChargedTo(i, "consume")
          /\ ChargedWith(i, "consume")' = ChargedWith(i, "consume")
          /\ ChargedWith(i, "consume") \subseteq Made("consume")
    BY <1>1, <1>2, ChargedStays
  <1>5. \A x : From(x)' = From(x) /\ From(x) \subseteq Made("consume")
    BY <1>3 DEF From
  <1>6. \A x : Through(x)' = Through(x)
    BY <1>1, <1>3, <1>4, <1>5 DEF Through
  <1>7. ASSUME NEW x \in DOMAIN st PROVE RateOK(x)'
    <2>1. RateOK(x)
      BY DEF RateInv
    <2> QED BY <1>1, <1>3, <1>4, <1>5, <1>6, <2>1 DEF RateOK
  <1>8. EpochQuota'
    <2>1. ASSUME NEW i \in Made("consume")
          PROVE  { c \in ChargedWith(i, "consume")' : Got(c, TRUE)' }
                   = { c \in ChargedWith(i, "consume") : Got(c, TRUE) }
      BY <1>3, <1>4
    <2> QED BY <1>3, <2>1 DEF EpochQuota, RateInv
  <1> QED
    BY <1>1, <1>3, <1>7, <1>8 DEF RateInv
-----------------------------------------------------------------------------
(* The token bucket (token_bucket.rs). *)

\* What a peer got through from one call to another, and the ticks among them.
Passed(p, i, j) == { c \in Made("consume") \cap (i..j) : Arg(c, 1) = p /\ Got(c, TRUE) }
Ticks(i, j) == Made("tick") \cap (i..j)

\* What a peer got through since a call and what it has left come from a full
\* bucket and the ticks since then.
TokensOK(p, i) ==
    Cardinality(Passed(p, i, Len(calls))) + Get(st, p, DEFAULT_CAPACITY)
      <= DEFAULT_CAPACITY + DEFAULT_REFILL_RATE * Cardinality(Ticks(i, Len(calls)))

TokenInv ==
    kind = "token_bucket" =>
      /\ IsSeq(calls)
      /\ \A p \in DOMAIN st : st[p] \in 0..DEFAULT_CAPACITY
      /\ \A p \in Peers : \A i \in 1..(Len(calls) + 1) : TokensOK(p, i)
      /\ TokenBudget

\* The calls between two: they are finitely many and, unless they reach up to
\* it, the same after one more call.
LEMMA SpanStays ==
  ASSUME IsSeq(calls), NEW op, NEW args, NEW result, Return(op, args, result), NEW n,
         n = Len(calls) + 1, NEW i \in Nat, NEW p, NEW j \in 0..(n - 1)
  PROVE  /\ Passed(p, i, j)' = Passed(p, i, j)
         /\ Ticks(i, j)' = Ticks(i, j)
         /\ IsFiniteSet(Ticks(i, j)) /\ IsFiniteSet(Passed(p, i, j))
         /\ n \notin Ticks(i, j) /\ n \notin Passed(p, i, j)
  <1>1. /\ n \in Nat \ {0}
        /\ \A k \in 1..(n - 1) : \A f : Arg(k, f)' = Arg(k, f)
        /\ \A k \in 1..(n - 1) : \A r : Got(k, r)' <=> Got(k, r)
        /\ \A o : Made(o) \subseteq 1..(n - 1)
        /\ \A o : Made(o)' = IF o = op THEN Made(o) \cup {n} ELSE Made(o)
    BY NewCall
  <1>2. \A o : Made(o)' \cap (i..j) = Made(o) \cap (i..j)
    BY <1>1
  <1>3. \A c \in Made("consume") \cap (i..j) : Arg(c, 1)' = Arg(c, 1) /\ (Got(c, TRUE)' <=> Got(c, TRUE))
    BY <1>1
  <1>4. Passed(p, i, j)' = Passed(p, i, j) /\ Ticks(i, j)' = Ticks(i, j)
    BY <1>2, <1>3 DEF Passed, Ticks
  <1>5. Ticks(i, j) \subseteq Made("tick") /\ Passed(p, i, j) \subseteq Made("consume")
    BY DEF Ticks, Passed
  <1>6. Ticks(i, j) \subseteq 1..(n - 1) /\ Passed(p, i, j) \subseteq 1..(n - 1)
    BY <1>1, <1>5
  <1>7. n - 1 \in Nat /\ n \notin 1..(n - 1)
    BY <1>1
  <1> QED BY <1>4, <1>6, <1>7, FewCalls

\* A stretch that reaches up to the call has it as well, if it is a tick or lets
\* the peer through.
More(op, args, result, p, n) ==
    IF op = "consume" /\ args[1] = p /\ result = TRUE THEN {n} ELSE {}

\* How the ticks of a stretch that reaches up to the call grow.
LEMMA TicksGrow ==
  ASSUME IsSeq(calls), NEW op, NEW args, NEW result, Return(op, args, result), NEW n,
         n = Len(calls) + 1, NEW i, i \in 1..n
  PROVE  Ticks(i, n)' = IF op = "tick" THEN Ticks(i, n - 1) \cup {n} ELSE Ticks(i, n - 1)
  <1>1. /\ n \in Nat \ {0}
        /\ \A o : Made(o) \subseteq 1..(n - 1)
        /\ \A o : Made(o)' = IF o = op THEN Made(o) \cup {n} ELSE Made(o)
    BY NewCall
  <1>2. \A o : Made(o)' \cap (i..n) = IF o = op THEN (Made(o) \cap (i..(n - 1))) \cup {n}
                                     ELSE Made(o) \cap (i..(n - 1))
    BY <1>1
  <1> QED BY <1>2 DEF Ticks

\* How the calls let through in a stretch that reaches up to the call grow.
LEMMA PassedGrows ==
  ASSUME IsSeq(calls), NEW op, NEW args, NEW result, Return(op, args, result), NEW n,
         n = Len(calls) + 1, NEW i, i \in 1..n, NEW p
  PROVE  Passed(p, i, n)' = Passed(p, i, n - 1) \cup More(op, args, result, p, n)
  <1>1. /\ n \in Nat \ {0}
        /\ \A k \in 1..(n - 1) : \A f : Arg(k, f)' = Arg(k, f)
        /\ \A k \in 1..(n - 1) : \A r : Got(k, r)' <=> Got(k, r)
        /\ \A o : Made(o) \subseteq 1..(n - 1)
        /\ \A o : Made(o)' = IF o = op THEN Made(o) \cup {n} ELSE Made(o)
    BY NewCall
  <1>2. \A f : Arg(n, f)' = args[f]
    BY NewCall
  <1>3. \A r : Got(n, r)' <=> result = r
    BY NewCall
  <1>4. Arg(n, 1)' = args[1] /\ (Got(n, TRUE)' <=> result = TRUE)
    BY <1>2, <1>3
  <1>5. \A o : Made(o)' \cap (i..n) = IF o = op THEN (Made(o) \cap (i..(n - 1))) \cup {n}
                                     ELSE Made(o) \cap (i..(n - 1))
    BY <1>1
  <1>6. \A c \in Made("consume") \cap (i..(n - 1)) :
          Arg(c, 1)' = Arg(c, 1) /\ (Got(c, TRUE)' <=> Got(c, TRUE))
    BY <1>1
  <1> QED BY <1>4, <1>5, <1>6 DEF Passed, More

\* A stretch that has not begun has no calls.
LEMMA NoSpan ==
  ASSUME NEW n \in Nat, NEW i \in Nat, i > n, NEW p
  PROVE  /\ Ticks(i, n) = {} /\ Passed(p, i, n) = {}
         /\ Ticks(i, n)' = {} /\ Passed(p, i, n)' = {}
  <1>1. i..n = {}
    OBVIOUS
  <1> QED BY <1>1 DEF Ticks, Passed

\* The budget of every stretch follows from that of the stretches up to now.
LEMMA BudgetFollows ==
  ASSUME TokenInv, kind = "token_bucket", kind' = kind,
         NEW op, NEW args, NEW result, Return(op, args, result),
         \A q \in Peers : \A i \in 1..(Len(calls) + 2) : TokensOK(q, i)',
         \A q \in Peers : Get(st', q, DEFAULT_CAPACITY) \in 0..DEFAULT_CAPACITY
  PROVE  TokenBudget'
  <1>1. PICK n : n = Len(calls) + 1
    OBVIOUS
  <1>2. /\ IsSeq(calls) /\ n - 1 = Len(calls) /\ n \in Nat \ {0}
        /\ Len(calls') = n /\ DOMAIN calls = 1..(n - 1) /\ DOMAIN calls' = 1..n
    <2>1. /\ IsSeq(calls) /\ Len(calls) \in Nat
          /\ Len(calls') = Len(calls) + 1 /\ DOMAIN calls = 1..Len(calls)
          /\ DOMAIN calls' = 1..(Len(calls) + 1)
      BY OneCall DEF TokenInv
    <2> QED BY <1>1, <2>1
  <1>3. DEFAULT_CAPACITY \in Nat /\ DEFAULT_REFILL_RATE \in Nat
    BY MessageAssumption
  <1>4. ASSUME NEW q \in Peers, NEW i \in 1..n, NEW j \in 1..n
        PROVE  Cardinality(Passed(q, i, j)')
                 <= DEFAULT_CAPACITY + DEFAULT_REFILL_RATE * Cardinality(Ticks(i, j)')
    <2>1. i \in Nat
      OBVIOUS
    <2>2. CASE j = n
      <3>1. TokensOK(q, i)' /\ Get(st', q, DEFAULT_CAPACITY) \in 0..DEFAULT_CAPACITY
        BY <1>1, <1>2
      <3>2. PICK a, t : /\ a = Cardinality(Passed(q, i, n)') /\ a \in Nat
                        /\ t = DEFAULT_REFILL_RATE * Cardinality(Ticks(i, n)') /\ t \in Nat
        <4>1. /\ Ticks(i, n)' \subseteq 1..n /\ Passed(q, i, n)' \subseteq 1..n
          BY <1>2, <2>1, OneCall DEF Ticks, Passed, Made
        <4>2. IsFiniteSet(Passed(q, i, n)') /\ IsFiniteSet(Ticks(i, n)')
          BY <1>2, <4>1, FewCalls
        <4> QED BY <1>3, <4>2, FS_CardinalityType
      <3> QED BY <1>2, <1>3, <2>2, <3>1, <3>2 DEF TokensOK
    <2>3. CASE j # n
      <3>1. j \in 1..(n - 1)
        BY <1>2, <2>3
      <3>2. Passed(q, i, j)' = Passed(q, i, j) /\ Ticks(i, j)' = Ticks(i, j)
        BY <1>1, <1>2, <2>1, <3>1, SpanStays
      <3>3. CASE i \in 1..(n - 1)
        BY <1>2, <3>1, <3>2, <3>3 DEF TokenInv, TokenBudget, Passed, Ticks
      <3>4. CASE i \notin 1..(n - 1)
        <4>1. i..j = {}
          BY <1>2, <3>1, <3>4
        <4>2. Passed(q, i, j) = {} /\ Ticks(i, j) = {}
          BY <4>1 DEF Passed, Ticks
        <4> QED BY <1>3, <3>2, <4>2, FS_EmptySet
      <3> QED BY <3>3, <3>4
    <2> QED BY <2>2, <2>3
  <1> QED BY <1>2, <1>4 DEF TokenBudget, Passed, Ticks, Peers

\* One token less for one call let through (token_consume).
LEMMA TokenConsumes ==
  ASSUME TokenInv, kind = "token_bucket", kind' = kind, token_consume
  PROVE  TokenInv'
  <1>0. PICK n : n = Len(calls) + 1
    OBVIOUS
  <1>1. PICK p \in Peers : \E before, allow :
          /\ before = Get(st, p, DEFAULT_CAPACITY) /\ allow = (before > 0)
          /\ st' = Put(st, p, SaturatingSub(before, 1))
          /\ Return("consume", <<p>>, allow)
    BY DEF token_consume
  <1>2. PICK before, allow :
          /\ before = Get(st, p, DEFAULT_CAPACITY) /\ allow = (before > 0)
          /\ st' = Put(st, p, SaturatingSub(before, 1))
          /\ Return("consume", <<p>>, allow)
    BY <1>1
  <1>3. DEFAULT_CAPACITY \in Nat /\ DEFAULT_REFILL_RATE \in Nat
    BY MessageAssumption
  <1>4. IsSeq(calls) /\ n - 1 = Len(calls) /\ n \in Nat \ {0}
    BY <1>0, <1>2, OneCall DEF TokenInv
  <1>5. IsSeq(calls') /\ Len(calls') = n /\ DOMAIN calls = 1..(n - 1) /\ DOMAIN calls' = 1..n
    <2>1. Len(calls') = Len(calls) + 1 /\ DOMAIN calls = 1..Len(calls)
          /\ DOMAIN calls' = 1..(Len(calls) + 1) /\ IsSeq(calls')
      BY <1>2, <1>4, OneCall
    <2> QED BY <1>0, <1>4, <2>1
  <1>6. \A q : Get(st, q, DEFAULT_CAPACITY) \in 0..DEFAULT_CAPACITY
    BY <1>3 DEF TokenInv, Get
  <1>7. before \in 0..DEFAULT_CAPACITY
    BY <1>2, <1>6
  <1>8. SaturatingSub(before, 1) \in 0..DEFAULT_CAPACITY
        /\ SaturatingSub(before, 1) = IF allow THEN before - 1 ELSE before
    <2>1. allow <=> before > 0
      BY <1>2
    <2> QED BY <1>3, <1>7, <2>1 DEF SaturatingSub
  <1>9. /\ \A q : Get(st', q, DEFAULT_CAPACITY)
                    = IF q = p THEN SaturatingSub(before, 1) ELSE Get(st, q, DEFAULT_CAPACITY)
        /\ \A q \in DOMAIN st' : st'[q] \in 0..DEFAULT_CAPACITY
    BY <1>2, <1>8 DEF Get, Put, TokenInv
  <1>10. <<p>>[1] = p /\ "consume" # "tick" /\ (allow = TRUE <=> allow)
    BY <1>2
  <1>11. ASSUME NEW q \in Peers, NEW i \in 1..(n + 1)
         PROVE  /\ i <= n => Ticks(i, n)' = Ticks(i, n - 1)
                /\ i <= n => Passed(q, i, n)' = IF q = p /\ allow THEN Passed(q, i, n - 1) \cup {n}
                                                ELSE Passed(q, i, n - 1)
                /\ i > n => Ticks(i, n)' = {} /\ Passed(q, i, n)' = {}
                /\ IsFiniteSet(Ticks(i, n - 1)) /\ IsFiniteSet(Passed(q, i, n - 1))
                /\ n \notin Passed(q, i, n - 1)
    <2>1. i \in Nat /\ n - 1 \in 0..(n - 1)
      BY <1>4
    <2>2. PICK o, r, w : o = "consume" /\ r = <<p>> /\ w = allow
      OBVIOUS
    <2>3. Return(o, r, w)
      BY <1>2, <2>2
    <2>4. More(o, r, w, q, n) = IF q = p /\ allow THEN {n} ELSE {}
      BY <1>2, <2>2 DEF More
    <2>6. ASSUME i <= n
          PROVE  /\ Ticks(i, n)' = IF o = "tick" THEN Ticks(i, n - 1) \cup {n}
                                   ELSE Ticks(i, n - 1)
                 /\ Passed(q, i, n)' = Passed(q, i, n - 1) \cup More(o, r, w, q, n)
      <3>1. i \in 1..n
        BY <1>4, <2>6
      <3>2. IsSeq(calls) /\ n = Len(calls) + 1
        BY <1>0, <1>4
      <3>3. Ticks(i, n)' = IF o = "tick" THEN Ticks(i, n - 1) \cup {n} ELSE Ticks(i, n - 1)
        BY <2>3, <3>1, <3>2, TicksGrow
      <3>4. Passed(q, i, n)' = Passed(q, i, n - 1) \cup More(o, r, w, q, n)
        BY <2>3, <3>1, <3>2, PassedGrows
      <3> QED BY <3>3, <3>4
    <2>7. i > n => Ticks(i, n)' = {} /\ Passed(q, i, n)' = {}
      BY <1>4, NoSpan
    <2>8. /\ IsFiniteSet(Ticks(i, n - 1)) /\ IsFiniteSet(Passed(q, i, n - 1))
          /\ n \notin Passed(q, i, n - 1)
      BY <1>0, <1>4, <2>1, <2>3, SpanStays
    <2> QED BY <2>2, <2>4, <2>6, <2>7, <2>8
  <1>12. ASSUME NEW q \in Peers, NEW i \in 1..(n + 1) PROVE TokensOK(q, i)'
    <2>1. CASE i <= n
      <3>1. TokensOK(q, i)
        BY <1>0, <1>4, <2>1 DEF TokenInv
      <3>2. PICK a, t : /\ a = Cardinality(Passed(q, i, n - 1)) /\ a \in Nat
                        /\ t = DEFAULT_REFILL_RATE * Cardinality(Ticks(i, n - 1))
        BY <1>11, FS_CardinalityType
      <3>3. /\ t \in Nat
        BY <1>3, <1>11, <3>2, FS_CardinalityType
      <3>4. a + Get(st, q, DEFAULT_CAPACITY) <= DEFAULT_CAPACITY + t
        BY <1>4, <3>1, <3>2 DEF TokensOK
      <3>5. Cardinality(Passed(q, i, n)') = IF q = p /\ allow THEN a + 1 ELSE a
        BY <1>11, <2>1, <3>2, OneMore
      <3>6. DEFAULT_REFILL_RATE * Cardinality(Ticks(i, n)') = t
        BY <1>11, <2>1, <3>2
      <3>7. Cardinality(Passed(q, i, n)') + Get(st', q, DEFAULT_CAPACITY) <= DEFAULT_CAPACITY + t
        BY <1>2, <1>3, <1>6, <1>7, <1>8, <1>9, <3>2, <3>3, <3>4, <3>5
      <3> QED BY <1>5, <3>6, <3>7 DEF TokensOK
    <2>2. CASE i > n
      <3>1. Cardinality(Passed(q, i, n)') = 0 /\ Cardinality(Ticks(i, n)') = 0
        BY <1>11, <2>2, FS_EmptySet
      <3>2. Get(st', q, DEFAULT_CAPACITY) \in 0..DEFAULT_CAPACITY
        BY <1>6, <1>8, <1>9
      <3> QED BY <1>3, <1>5, <3>1, <3>2 DEF TokensOK
    <2> QED BY <1>4, <2>1, <2>2
  <1>13. TokenBudget'
    <2>1. PICK w : w = allow
      OBVIOUS
    <2>2. Return("consume", <<p>>, w)
      BY <1>2, <2>1
    <2>3. /\ \A q \in Peers : \A i \in 1..(Len(calls) + 2) : TokensOK(q, i)'
          /\ \A q \in Peers : Get(st', q, DEFAULT_CAPACITY) \in 0..DEFAULT_CAPACITY
      <3>1. Len(calls) + 2 = n + 1
        BY <1>0, <1>4
      <3> QED BY <1>6, <1>8, <1>9, <1>12, <3>1
    <2> QED BY <2>2, <2>3, BudgetFollows
  <1> QED
    BY <1>5, <1>9, <1>12, <1>13 DEF TokenInv, Peers

\* A tick puts back at most the refill rate of each bucket, and never more than
\* fits (tick_refill_all).
LEMMA TokenTicks ==
  ASSUME TokenInv, kind = "token_bucket", kind' = kind, tick_refill_all
  PROVE  TokenInv'
  <1>1. /\ st' = [p \in DOMAIN st |->
                    AtMost(SaturatingAdd(st[p], DEFAULT_REFILL_RATE), DEFAULT_CAPACITY)]
        /\ Return("tick", << >>, TRUE)
    BY DEF tick_refill_all
  <1>2. PICK n : n = Len(calls) + 1
    OBVIOUS
  <1>3. DEFAULT_CAPACITY \in Nat /\ DEFAULT_REFILL_RATE \in Nat /\ U32Max \in Nat
    BY MessageAssumption, U32MaxAssumption
  <1>4. IsSeq(calls) /\ IsSeq(calls') /\ n - 1 = Len(calls) /\ n \in Nat \ {0} /\ Len(calls') = n
    <2>1. IsSeq(calls)
      BY DEF TokenInv
    <2>2. Len(calls) \in Nat /\ IsSeq(calls') /\ Len(calls') = Len(calls) + 1
      BY <1>1, <2>1, OneCall
    <2> QED BY <1>2, <2>1, <2>2
  <1>5. /\ \A q \in DOMAIN st' : /\ st'[q] \in 0..DEFAULT_CAPACITY
                                /\ st'[q] <= st[q] + DEFAULT_REFILL_RATE
        /\ DOMAIN st' = DOMAIN st
    BY <1>1, <1>3 DEF TokenInv, AtMost, SaturatingAdd
  <1>6. \A q : /\ Get(st', q, DEFAULT_CAPACITY) \in 0..DEFAULT_CAPACITY
               /\ Get(st, q, DEFAULT_CAPACITY) \in 0..DEFAULT_CAPACITY
               /\ Get(st', q, DEFAULT_CAPACITY)
                    <= Get(st, q, DEFAULT_CAPACITY) + DEFAULT_REFILL_RATE
    BY <1>3, <1>5 DEF Get, TokenInv
  <1>7. ASSUME NEW q \in Peers, NEW i \in 1..(n + 1)
        PROVE  /\ i <= n => Ticks(i, n)' = Ticks(i, n - 1) \cup {n}
               /\ i <= n => Passed(q, i, n)' = Passed(q, i, n - 1)
               /\ i > n => Ticks(i, n)' = {} /\ Passed(q, i, n)' = {}
               /\ IsFiniteSet(Ticks(i, n - 1)) /\ IsFiniteSet(Passed(q, i, n - 1))
               /\ n \notin Ticks(i, n - 1)
    <2>1. i \in Nat /\ n - 1 \in 0..(n - 1)
      BY <1>4
    <2>2. PICK o, r, w : o = "tick" /\ r = << >> /\ w = TRUE
      OBVIOUS
    <2>3. Return(o, r, w) /\ o # "consume"
      BY <1>1, <2>2
    <2>4. ASSUME i <= n
          PROVE  Ticks(i, n)' = Ticks(i, n - 1) \cup {n} /\ Passed(q, i, n)' = Passed(q, i, n - 1)
      <3>1. i \in 1..n
        BY <1>4, <2>4
      <3>2. More(o, r, w, q, n) = {}
        BY <2>3 DEF More
      <3>3. IsSeq(calls) /\ n = Len(calls) + 1
        BY <1>2, <1>4
      <3>4. Ticks(i, n)' = IF o = "tick" THEN Ticks(i, n - 1) \cup {n} ELSE Ticks(i, n - 1)
        BY <2>3, <3>1, <3>3, TicksGrow
      <3>5. Passed(q, i, n)' = Passed(q, i, n - 1) \cup More(o, r, w, q, n)
        BY <2>3, <3>1, <3>3, PassedGrows
      <3> QED BY <2>2, <3>2, <3>4, <3>5
    <2>5. i > n => Ticks(i, n)' = {} /\ Passed(q, i, n)' = {}
      BY <1>4, NoSpan
    <2>6. /\ IsFiniteSet(Ticks(i, n - 1)) /\ IsFiniteSet(Passed(q, i, n - 1))
          /\ n \notin Ticks(i, n - 1)
      BY <1>2, <1>4, <2>1, <2>3, SpanStays
    <2> QED BY <2>4, <2>5, <2>6
  <1>8. ASSUME NEW q \in Peers, NEW i \in 1..(n + 1) PROVE TokensOK(q, i)'
    <2>1. CASE i <= n
      <3>1. TokensOK(q, i)
        BY <1>2, <1>4, <2>1 DEF TokenInv
      <3>2. PICK a, k : /\ a = Cardinality(Passed(q, i, n - 1)) /\ a \in Nat
                        /\ k = Cardinality(Ticks(i, n - 1)) /\ k \in Nat
        BY <1>7, FS_CardinalityType
      <3>3. a + Get(st, q, DEFAULT_CAPACITY) <= DEFAULT_CAPACITY + DEFAULT_REFILL_RATE * k
        BY <1>4, <3>1, <3>2 DEF TokensOK
      <3>4. Cardinality(Passed(q, i, n)') = a /\ Cardinality(Ticks(i, n)') = k + 1
        BY <1>7, <2>1, <3>2, OneMore
      <3>5. PICK x, y : x = DEFAULT_REFILL_RATE * k /\ x \in Nat /\ y = DEFAULT_REFILL_RATE * (k + 1)
        BY <1>3, <3>2
      <3>6. y = x + DEFAULT_REFILL_RATE
        BY <1>3, <3>2, <3>5
      <3>7. a + Get(st', q, DEFAULT_CAPACITY) <= DEFAULT_CAPACITY + y
        BY <1>3, <1>6, <3>2, <3>3, <3>5, <3>6
      <3> QED BY <1>4, <3>4, <3>5, <3>7 DEF TokensOK
    <2>2. CASE i > n
      <3>1. Cardinality(Passed(q, i, n)') = 0 /\ Cardinality(Ticks(i, n)') = 0
        BY <1>7, <2>2, FS_EmptySet
      <3> QED BY <1>3, <1>4, <1>6, <3>1 DEF TokensOK
    <2> QED BY <1>4, <2>1, <2>2
  <1>9. TokenBudget'
    <2>1. /\ \A q \in Peers : \A i \in 1..(Len(calls) + 2) : TokensOK(q, i)'
          /\ \A q \in Peers : Get(st', q, DEFAULT_CAPACITY) \in 0..DEFAULT_CAPACITY
      <3>1. Len(calls) + 2 = n + 1
        BY <1>2, <1>4
      <3> QED BY <1>6, <1>8, <3>1
    <2> QED BY <1>1, <2>1, BudgetFollows
  <1> QED
    BY <1>4, <1>5, <1>8, <1>9 DEF TokenInv, Peers

-----------------------------------------------------------------------------
(* What the limiters and the hop counts let through. *)

\* A step that changes nothing keeps what the token bucket remembers.
LEMMA TokenStutters ==
  ASSUME TokenInv, UNCHANGED vars
  PROVE  TokenInv'
  <1>1. kind' = kind /\ calls' = calls /\ st' = st
    BY DEF vars
  <1>2. /\ \A o : Made(o)' = Made(o)
        /\ \A i, k : Arg(i, k)' = Arg(i, k)
        /\ \A i : Got(i, TRUE)' <=> Got(i, TRUE)
        /\ Peers' = Peers /\ DOMAIN calls' = DOMAIN calls
    BY <1>1 DEF Made, Arg, Got, Peers
  <1>3. \A p, i, j : Passed(p, i, j)' = Passed(p, i, j) /\ Ticks(i, j)' = Ticks(i, j)
    BY <1>2 DEF Passed, Ticks
  <1>4. \A p, i : TokensOK(p, i)' <=> TokensOK(p, i)
    BY <1>1, <1>3 DEF TokensOK
  <1>5. TokenBudget' <=> TokenBudget
    BY <1>1 DEF TokenBudget, Made, Arg, Got, Peers
  <1> QED BY <1>1, <1>2, <1>4, <1>5 DEF TokenInv

\* And what the rate limiter remembers.
LEMMA RateStutters ==
  ASSUME RateInv, UNCHANGED vars
  PROVE  RateInv'
  <1>1. kind' = kind /\ calls' = calls /\ st' = st
    BY DEF vars
  <1>2. /\ \A o : Made(o)' = Made(o)
        /\ \A i, k : Arg(i, k)' = Arg(i, k)
        /\ \A i : Got(i, TRUE)' <=> Got(i, TRUE)
    BY <1>1 DEF Made, Arg, Got
  <1>3. \A i : ChargedTo(i, "consume")' = ChargedTo(i, "consume")
    BY <1>2 DEF ChargedTo
  <1>4. \A i : ChargedWith(i, "consume")' = ChargedWith(i, "consume")
    BY <1>2, <1>3 DEF ChargedWith
  <1>5. \A p : From(p)' = From(p) /\ Through(p)' = Through(p)
    BY <1>1, <1>2, <1>3 DEF From, Through
  <1>6. \A p : RateOK(p)' <=> RateOK(p)
    BY <1>1, <1>2, <1>3, <1>5 DEF RateOK
  <1>7. EpochQuota' <=> EpochQuota
    BY <1>1, <1>2, <1>4 DEF EpochQuota
  <1> QED BY <1>1, <1>2, <1>6, <1>7 DEF RateInv

\* What the quotas need: the services that hold one remember their calls right.
QuotaInv == kind \in Kinds /\ TokenInv /\ RateInv

\* A token bucket gives out no more than it held and was given back, a source
\* is let through exactly while the quota of its epoch lasts, and no message
\* makes more hops than its origin allows, whatever the peers, the epochs they
\* name and the order of the calls (token_bucket.rs, epoch_rate_limiter.rs and
\* ttl_enforcer.rs).
THEOREM QuotasCorrect == Spec => []MessageQuotas
  <1>1. Init => QuotaInv
    <2> SUFFICES ASSUME Init PROVE QuotaInv
      OBVIOUS
    <2>1. /\ kind \in Kinds /\ IsSeq(calls) /\ DOMAIN calls = {} /\ calls = << >>
          /\ \A o : Made(o) = {}
      BY Starts DEF Init, Made
    <2>2. kind \in {"token_bucket", "epoch_rate_limiter"} => st = << >>
      BY Starts DEF MessageInit, MessageKinds
    <2>3. RateInv
      BY <2>1, <2>2 DEF RateInv, EpochQuota
    <2>4. ASSUME kind = "token_bucket" PROVE TokenInv
      <3>1. Len(calls) = 0 /\ DOMAIN st = {}
        BY <2>1, <2>2, <2>4
      <3>2. DEFAULT_CAPACITY \in Nat /\ DEFAULT_REFILL_RATE \in Nat
        BY MessageAssumption
      <3>3. ASSUME NEW p \in Peers, NEW i \in 1..1 PROVE TokensOK(p, i)
        <4>1. Passed(p, i, 0) = {} /\ Ticks(i, 0) = {}
          BY <2>1 DEF Passed, Ticks
        <4>2. Get(st, p, DEFAULT_CAPACITY) = DEFAULT_CAPACITY
          BY <3>1 DEF Get
        <4>3. /\ Cardinality(Passed(p, i, Len(calls))) = 0 /\ Cardinality(Ticks(i, Len(calls))) = 0
              /\ DEFAULT_REFILL_RATE * 0 = 0
          BY <3>1, <3>2, <4>1, FS_EmptySet
        <4> QED BY <3>2, <4>2, <4>3 DEF TokensOK
      <3> QED BY <2>1, <3>1, <3>3 DEF TokenInv, TokenBudget
    <2> QED BY <2>1, <2>3, <2>4 DEF QuotaInv, TokenInv
  <1>2. QuotaInv /\ [Next]_vars => QuotaInv'
    <2> SUFFICES ASSUME QuotaInv, [Next]_vars PROVE QuotaInv'
      OBVIOUS
    <2>1. CASE UNCHANGED vars
      BY <2>1, TokenStutters, RateStutters DEF QuotaInv, vars
    <2>2. CASE Next
      <3>1. /\ kind' = kind
            /\ kind = "token_bucket" => token_consume \/ tick_refill_all
            /\ kind = "epoch_rate_limiter" => rate_consume \/ rate_seal_epoch
        BY <2>2, Dispatch, MessageServed DEF MessageKinds
      <3>2. TokenInv'
        <4>1. CASE kind = "token_bucket"
          BY <3>1, <4>1, TokenConsumes, TokenTicks DEF QuotaInv
        <4>2. CASE kind # "token_bucket"
          BY <3>1, <4>2 DEF TokenInv
        <4> QED BY <4>1, <4>2
      <3>3. RateInv'
        <4>1. CASE kind = "epoch_rate_limiter"
          BY <3>1, <4>1, RateConsumes, RateSeals DEF QuotaInv
        <4>2. CASE kind # "epoch_rate_limiter"
          BY <3>1, <4>2 DEF RateInv
        <4> QED BY <4>1, <4>2
      <3> QED BY <3>1, <3>2, <3>3 DEF QuotaInv
    <2> QED BY <2>1, <2>2
  <1>3. QuotaInv => TokenBudget /\ EpochQuota
    BY DEF QuotaInv, TokenInv, RateInv, TokenBudget, EpochQuota
  <1>4. TokenBudget /\ EpochQuota /\ HopsBounded => MessageQuotas
    BY DEF MessageQuotas
  <1> QED BY <1>1, <1>2, <1>3, <1>4, HopsCorrect, PTL DEF Spec

-----------------------------------------------------------------------------
(* The epochs that filters and caches are told of. *)

\* The epochs named up to a call, and what a filter that goes by them keeps: its
\* epoch is the latest.
ToldBy(i) == {InitialEpoch} \cup { ToldEpoch(c) : c \in { d \in 1..i : calls[d].op # "seal" } }

Latest(i) == /\ ReachedBy(i) \in Nat /\ ReachedBy(i) \in ToldBy(i)
             /\ \A x \in ToldBy(i) : x \in Nat /\ x <= ReachedBy(i)

EpochsTold ==
    /\ IsSeq(calls) /\ \A i \in 0..Len(calls) : Latest(i)
    /\ st.epoch = ReachedBy(Len(calls))

\* Before any call the initial epoch is the only one told.
LEMMA EpochsStart ==
  ASSUME calls = << >>, IsSeq(calls), st.epoch = InitialEpoch
  PROVE  EpochsTold
  <1>1. Len(calls) = 0 /\ 1..0 = {}
    BY DEF IsSeq
  <1>2. ToldBy(0) = {InitialEpoch} /\ ReachedBy(0) = Max({InitialEpoch})
    BY <1>1 DEF ToldBy, ReachedBy
  <1>3. ReachedBy(0) = InitialEpoch
    <2>1. PICK S : S = {InitialEpoch}
      OBVIOUS
    <2>2. S \in SUBSET Int /\ InitialEpoch \in S /\ \A x \in S : x <= InitialEpoch
      BY <2>1 DEF InitialEpoch
    <2>3. Max(S) = InitialEpoch
      BY <2>2, MaxIs
    <2> QED BY <1>2, <2>1, <2>3
  <1>4. \A i \in 0..Len(calls) : i = 0
    BY <1>1
  <1> QED BY <1>1, <1>2, <1>3, <1>4 DEF EpochsTold, Latest, InitialEpoch

\* No earlier call had reached a later epoch than the filter's, and a call that
\* names an epoch reaches it.
LEMMA ReachedBefore ==
  ASSUME EpochsTold, NEW i \in 0..Len(calls)
  PROVE  /\ ReachedBy(i) \in Nat /\ ReachedBy(i) <= st.epoch /\ st.epoch \in Nat
         /\ \A c \in 1..i : calls[c].op # "seal" =>
              ToldEpoch(c) \in Nat /\ ToldEpoch(c) <= ReachedBy(i)
  <1>1. Len(calls) \in Nat
    BY DEF EpochsTold, IsSeq
  <1>2. Latest(i) /\ Latest(Len(calls))
    BY <1>1 DEF EpochsTold
  <1>3. ToldBy(i) \subseteq ToldBy(Len(calls))
    BY <1>1 DEF ToldBy
  <1>4. ReachedBy(i) \in Nat /\ ReachedBy(i) <= st.epoch /\ st.epoch \in Nat
    BY <1>2, <1>3 DEF Latest, EpochsTold
  <1>5. ASSUME NEW c \in 1..i, calls[c].op # "seal"
        PROVE  ToldEpoch(c) \in Nat /\ ToldEpoch(c) <= ReachedBy(i)
    BY <1>2, <1>5 DEF Latest, ToldBy
  <1> QED BY <1>4, <1>5

\* The epoch a call names, and the latest one after it.
NamedBy(op, args) == IF op = "advance" THEN args[1] ELSE args[EpochField]

Reached(op, args) ==
    IF op # "seal" /\ NamedBy(op, args) > st.epoch THEN NamedBy(op, args) ELSE st.epoch

\* A new call tells of its epoch, and what was reached before stays.
LEMMA EpochStep ==
  ASSUME EpochsTold, kind' = kind, NEW op, NEW args, NEW result, Return(op, args, result),
         NEW n, n = Len(calls) + 1, op # "seal" => NamedBy(op, args) \in Nat
  PROVE  /\ \A i \in 0..(n - 1) : ReachedBy(i)' = ReachedBy(i)
         /\ ReachedBy(n)' = Reached(op, args)
         /\ st'.epoch = Reached(op, args) => EpochsTold'
  <1>1. PICK e, reached : e = NamedBy(op, args) /\ reached = Reached(op, args)
    OBVIOUS
  <1>2. /\ op # "seal" => e \in Nat
        /\ e = IF op = "advance" THEN args[1] ELSE args[EpochField]
        /\ reached = IF op # "seal" /\ e > st.epoch THEN e ELSE st.epoch
    BY <1>1 DEF NamedBy, Reached
  <1>3. /\ n \in Nat \ {0} /\ Len(calls) = n - 1 /\ Len(calls') = n /\ IsSeq(calls')
        /\ \A i \in 1..(n - 1) : calls'[i] = calls[i]
        /\ \A i \in 1..(n - 1) : \A k : Arg(i, k)' = Arg(i, k)
        /\ calls'[n].op = op /\ \A k : Arg(n, k)' = args[k]
    BY NewCall DEF EpochsTold
  <1>4. EpochField' = EpochField
    BY DEF EpochField
  <1>5. ASSUME NEW c \in 1..(n - 1)
        PROVE  ToldEpoch(c)' = ToldEpoch(c) /\ (calls'[c].op # "seal" <=> calls[c].op # "seal")
    BY <1>3, <1>4 DEF ToldEpoch
  <1>6. op # "seal" => ToldEpoch(n)' = e
    BY <1>2, <1>3, <1>4 DEF ToldEpoch
  <1>7. ASSUME NEW i \in 0..(n - 1)
        PROVE  ToldBy(i)' = ToldBy(i) /\ ReachedBy(i)' = ReachedBy(i)
    <2>1. \A d \in 1..i : d \in 1..(n - 1)
      BY <1>3
    <2>2. ToldBy(i)' = ToldBy(i)
      BY <1>5, <2>1 DEF ToldBy
    <2> QED BY <2>2 DEF ReachedBy, ToldBy
  <1>8. ToldBy(n)' = IF op = "seal" THEN ToldBy(n - 1) ELSE ToldBy(n - 1) \cup {e}
    <2>1. { d \in 1..n : calls'[d].op # "seal" }
            = IF op = "seal" THEN { d \in 1..(n - 1) : calls[d].op # "seal" }
              ELSE { d \in 1..(n - 1) : calls[d].op # "seal" } \cup {n}
      BY <1>3
    <2> QED BY <1>3, <1>5, <1>6, <2>1 DEF ToldBy
  <1>9. Latest(n - 1) /\ st.epoch = ReachedBy(n - 1)
    BY <1>3 DEF EpochsTold
  <1>10. /\ reached \in Nat /\ reached \in ToldBy(n)'
         /\ \A x \in ToldBy(n)' : x \in Nat /\ x <= reached
    BY <1>2, <1>8, <1>9 DEF Latest
  <1>11. ReachedBy(n)' = Max(ToldBy(n)')
    BY DEF ReachedBy, ToldBy
  <1>12. ReachedBy(n)' = reached
    <2>1. PICK T : T = ToldBy(n)'
      OBVIOUS
    <2>2. T \in SUBSET Int /\ reached \in T /\ \A x \in T : x <= reached
      <3>1. \A x \in T : x \in Int /\ x <= reached
        BY <1>10, <2>1
      <3> QED BY <1>10, <2>1, <3>1
    <2>3. Max(T) = reached
      BY <2>2, MaxIs
    <2> QED BY <1>11, <2>1, <2>3
  <1>13. ASSUME NEW i \in 0..n PROVE Latest(i)'
    <2>1. CASE i = n
      BY <1>10, <1>12, <2>1 DEF Latest
    <2>2. CASE i # n
      <3>1. i \in 0..(n - 1) /\ Latest(i)
        BY <1>3, <2>2 DEF EpochsTold
      <3> QED BY <1>7, <3>1 DEF Latest
    <2> QED BY <2>1, <2>2
  <1> QED BY <1>3, <1>7, <1>12, <1>13, <1>1 DEF EpochsTold

-----------------------------------------------------------------------------
(* The deduplicator (message_deduplicator.rs). *)

DedupRecords == [epoch : Nat, seen : SUBSET (Nat \X Nat), fresh : Nat, dups : Nat]

\* What was fresh in the present epoch is remembered.
DedupInv ==
    kind = "message_deduplicator" =>
      /\ EpochsTold /\ st \in DedupRecords
      /\ \A i \in Made("observe") :
           Got(i, TRUE) /\ ReachedBy(i) = st.epoch => <<Arg(i, 1), Arg(i, 2)>> \in st.seen
      /\ DuplicatesCaught

\* An observed message is remembered in the epoch it is charged to
\* (observe_message_id).
LEMMA DedupObserves ==
  ASSUME DedupInv, kind = "message_deduplicator", kind' = kind, kind \in Kinds,
         observe_message_id
  PROVE  DedupInv'
  <1>1. PICK p \in Peers, m \in Ids, e \in Epochs :
          LET s == IF e > st.epoch THEN [epoch |-> e, seen |-> {}, fresh |-> 0, dups |-> 0]
                   ELSE st
              fresh == <<p, m>> \notin s.seen
          IN  /\ st' = IF fresh THEN [s EXCEPT !.seen = @ \cup {<<p, m>>},
                                               !.fresh = SaturatingAdd(@, 1)]
                               ELSE [s EXCEPT !.dups = SaturatingAdd(@, 1)]
              /\ Return("observe", <<p, m, e>>, fresh)
    BY DEF observe_message_id
  <1>2. PICK n : n = Len(calls) + 1
    OBVIOUS
  <1>3. PICK s : s = IF e > st.epoch THEN [epoch |-> e, seen |-> {}, fresh |-> 0, dups |-> 0]
                     ELSE st
    OBVIOUS
  <1>4. PICK w : w = (<<p, m>> \notin s.seen)
    OBVIOUS
  <1>5. PICK a : a = <<p, m, e>>
    OBVIOUS
  <1>6. Return("observe", a, w)
    BY <1>1, <1>3, <1>4, <1>5
  <1>7. p \in Nat /\ m \in Nat /\ e \in Nat /\ a[1] = p /\ a[2] = m /\ a[3] = e
    BY <1>5, Inputs
  <1>8. EpochsTold /\ IsSeq(calls) /\ st \in DedupRecords /\ st.epoch \in Nat
    BY DEF DedupInv, EpochsTold, DedupRecords
  <1>9. /\ s \in DedupRecords /\ s.epoch = (IF e > st.epoch THEN e ELSE st.epoch)
        /\ e > st.epoch => s.seen = {}
        /\ e <= st.epoch => s = st
    BY <1>3, <1>7, <1>8 DEF DedupRecords
  <1>10. st' = IF w THEN [s EXCEPT !.seen = @ \cup {<<p, m>>}, !.fresh = SaturatingAdd(@, 1)]
                ELSE [s EXCEPT !.dups = SaturatingAdd(@, 1)]
    BY <1>1, <1>3, <1>4
  <1>11. \A x \in Nat : SaturatingAdd(x, 1) \in Nat
    BY U32MaxAssumption DEF SaturatingAdd, AtMost
  <1>12. /\ st' \in DedupRecords /\ st'.epoch = s.epoch
         /\ st'.seen = s.seen \cup {<<p, m>>}
    <2>1. PICK x, y, a1, b1 : s = [epoch |-> x, seen |-> y, fresh |-> a1, dups |-> b1]
                              /\ x \in Nat /\ y \in SUBSET (Nat \X Nat) /\ a1 \in Nat /\ b1 \in Nat
      BY <1>9 DEF DedupRecords
    <2>2. y \cup {<<p, m>>} \in SUBSET (Nat \X Nat) /\ s.epoch = x /\ s.seen = y
      BY <1>7, <2>1
    <2>3. SaturatingAdd(a1, 1) \in Nat /\ SaturatingAdd(b1, 1) \in Nat
      BY <1>11, <2>1
    <2>4. CASE w
      <3>1. st' = [epoch |-> x, seen |-> y \cup {<<p, m>>}, fresh |-> SaturatingAdd(a1, 1),
                   dups |-> b1]
        BY <1>10, <2>1, <2>4
      <3> QED BY <2>1, <2>2, <2>3, <3>1 DEF DedupRecords
    <2>5. CASE ~w
      <3>1. st' = [epoch |-> x, seen |-> y, fresh |-> a1, dups |-> SaturatingAdd(b1, 1)]
        BY <1>10, <2>1, <2>5
      <3>2. y \cup {<<p, m>>} = y
        BY <1>4, <2>2, <2>5
      <3> QED BY <2>1, <2>2, <2>3, <3>1, <3>2 DEF DedupRecords
    <2> QED BY <2>4, <2>5
  <1>13. /\ n \in Nat \ {0} /\ Len(calls) = n - 1 /\ DOMAIN calls = 1..(n - 1)
         /\ \A i \in 1..(n - 1) : \A k : Arg(i, k)' = Arg(i, k)
         /\ \A i \in 1..(n - 1) : \A r : Got(i, r)' <=> Got(i, r)
         /\ \A k : Arg(n, k)' = a[k]
         /\ \A x : Got(n, x)' <=> w = x
         /\ Made("observe") \subseteq 1..(n - 1) /\ Made("observe")' = Made("observe") \cup {n}
    BY <1>2, <1>6, <1>8, NewCall
  <1>14. /\ \A i \in 0..(n - 1) : ReachedBy(i)' = ReachedBy(i)
         /\ ReachedBy(n)' = s.epoch /\ EpochsTold'
    <2>1. /\ NamedBy("observe", a) = e /\ Reached("observe", a) = s.epoch /\ e \in Nat
          /\ EpochsTold /\ n = Len(calls) + 1 /\ st'.epoch = s.epoch
      BY <1>2, <1>7, <1>8, <1>9, <1>12 DEF NamedBy, Reached, EpochField
    <2> QED BY <1>6, <2>1, EpochStep
  <1>15. ASSUME NEW i \in Made("observe")
         PROVE  /\ i \in 1..(n - 1) /\ Arg(i, 1)' = Arg(i, 1) /\ Arg(i, 2)' = Arg(i, 2)
                /\ Got(i, TRUE)' <=> Got(i, TRUE)
                /\ ReachedBy(i)' = ReachedBy(i) /\ ReachedBy(i) \in Nat
                /\ ReachedBy(i) <= st.epoch
    <2>1. i \in 1..(n - 1) /\ i \in 0..(n - 1)
      BY <1>13
    <2> QED BY <1>8, <1>13, <1>14, <2>1, ReachedBefore
  <1>16. ASSUME NEW i \in Made("observe")', Got(i, TRUE)', ReachedBy(i)' = st'.epoch
         PROVE  <<Arg(i, 1)', Arg(i, 2)'>> \in st'.seen
    <2>1. CASE i = n
      BY <1>7, <1>12, <1>13, <2>1
    <2>2. CASE i # n
      <3>1. i \in Made("observe")
        BY <1>13, <2>2
      <3>2. e <= st.epoch
        <4>1. PICK x : x = ReachedBy(i) /\ x \in Nat /\ x <= st.epoch
          BY <1>15, <3>1
        <4>2. x = s.epoch
          BY <1>12, <1>15, <1>16, <3>1, <4>1
        <4> QED BY <1>7, <1>8, <1>9, <4>1, <4>2
      <3>3. s = st
        BY <1>9, <3>2
      <3> QED BY <1>12, <1>15, <1>16, <3>1, <3>3 DEF DedupInv
    <2> QED BY <2>1, <2>2
  <1>17. ASSUME NEW i \in Made("observe")', NEW j \in Made("observe")', i < j, Got(i, TRUE)',
                Got(j, TRUE)', Arg(i, 1)' = Arg(j, 1)', Arg(i, 2)' = Arg(j, 2)'
         PROVE  ReachedBy(i)' < ReachedBy(j)'
    <2>1. i \in Made("observe") /\ i # n
      BY <1>13, <1>17
    <2>2. CASE j = n
      <3>1. w
        BY <1>4, <1>13, <1>17, <2>2
      <3>2. <<Arg(i, 1), Arg(i, 2)>> = <<p, m>>
        BY <1>7, <1>13, <1>15, <1>17, <2>1, <2>2
      <3>3. <<p, m>> \notin s.seen
        BY <1>4, <3>1
      <3>4. CASE e > st.epoch
        <4>1. PICK x : x = ReachedBy(i) /\ x \in Nat /\ x <= st.epoch
          BY <1>15, <2>1
        <4>2. ReachedBy(i)' = x /\ ReachedBy(j)' = e
          BY <1>9, <1>14, <1>15, <2>1, <2>2, <3>4, <4>1
        <4>3. x < e
          BY <1>7, <1>8, <3>4, <4>1
        <4> QED BY <4>2, <4>3
      <3>5. CASE e <= st.epoch
        <4>1. ReachedBy(i) # st.epoch
          BY <1>9, <1>15, <1>17, <2>1, <3>2, <3>3, <3>5 DEF DedupInv
        <4>2. PICK x : x = ReachedBy(i) /\ x \in Nat /\ x <= st.epoch
          BY <1>15, <2>1
        <4>3. ReachedBy(i)' = x /\ ReachedBy(j)' = st.epoch
          BY <1>9, <1>14, <1>15, <2>1, <2>2, <3>5, <4>2
        <4>4. x < st.epoch
          BY <1>8, <4>1, <4>2
        <4> QED BY <4>3, <4>4
      <3> QED BY <1>7, <1>8, <3>4, <3>5 DEF DedupRecords
    <2>3. CASE j # n
      <3>1. j \in Made("observe")
        BY <1>13, <2>3
      <3> QED BY <1>15, <1>17, <2>1, <3>1 DEF DedupInv, DuplicatesCaught
    <2> QED BY <2>2, <2>3
  <1>18. DuplicatesCaught'
    BY <1>17 DEF DuplicatesCaught
  <1> QED BY <1>12, <1>14, <1>16, <1>18 DEF DedupInv

\* Sealing changes nothing of what is remembered (dedup_seal_epoch).
LEMMA DedupSeals ==
  ASSUME DedupInv, kind = "message_deduplicator", kind' = kind, kind \in Kinds,
         dedup_seal_epoch
  PROVE  DedupInv'
  <1>1. PICK e \in Epochs : st' = st /\ Return("seal", <<e>>, TRUE)
    BY DEF dedup_seal_epoch
  <1>2. PICK n : n = Len(calls) + 1
    OBVIOUS
  <1>3. EpochsTold /\ IsSeq(calls) /\ st \in DedupRecords /\ st.epoch \in Nat
    BY DEF DedupInv, EpochsTold, DedupRecords
  <1>4. Made("observe") \subseteq 1..(n - 1) /\ n \in Nat
    BY <1>1, <1>2, <1>3, NewCall
  <1>5. /\ Made("observe")' = Made("observe")
        /\ \A i \in Made("observe") : Arg(i, 1)' = Arg(i, 1) /\ Arg(i, 2)' = Arg(i, 2)
        /\ \A i \in Made("observe") : Got(i, TRUE)' <=> Got(i, TRUE)
    <2>1. "observe" # "seal"
      OBVIOUS
    <2>2. Made("observe")' = Made("observe")
      BY <1>1, <1>3, <2>1, OtherCall
    <2>3. \A i \in Made("observe") : \A k : Arg(i, k)' = Arg(i, k)
      BY <1>1, <1>3, <2>1, OtherCall
    <2>4. \A i \in Made("observe") : \A r : Got(i, r)' <=> Got(i, r)
      BY <1>1, <1>3, <2>1, OtherCall
    <2>5. \A i \in Made("observe") : Got(i, TRUE)' <=> Got(i, TRUE)
      BY <2>4
    <2> QED BY <2>2, <2>3, <2>5
  <1>6. \A i \in 0..(n - 1) : ReachedBy(i)' = ReachedBy(i)
    BY <1>1, <1>2, <1>3, EpochStep
  <1>7. EpochsTold'
    <2>1. Reached("seal", <<e>>) = st.epoch
      BY DEF Reached
    <2> QED BY <1>1, <1>2, <1>3, <2>1, EpochStep
  <1>8. \A i \in Made("observe") : ReachedBy(i)' = ReachedBy(i)
    BY <1>4, <1>6
  <1>9. DuplicatesCaught'
    BY <1>5, <1>8 DEF DedupInv, DuplicatesCaught
  <1> QED BY <1>1, <1>3, <1>5, <1>7, <1>8, <1>9 DEF DedupInv

-----------------------------------------------------------------------------
(* Caches with a window of epochs (nonce_cache.rs, gossip_message_cache.rs). *)

CacheOK == /\ EpochsTold /\ st = [epoch |-> st.epoch, window |-> st.window]
           /\ DOMAIN st.window \subseteq Nat

\* Advancing keeps the slots of the window as they are; one that goes has left
\* the window or is that of epoch 0.
LEMMA WindowMoves ==
  ASSUME CacheOK, NEW e \in Nat, NEW width \in Nat, NEW w, w = Windowed(st, e, width)
  PROVE  /\ w = [epoch |-> w.epoch, window |-> w.window] /\ st.epoch \in Nat
         /\ w.epoch = IF e > st.epoch THEN e ELSE st.epoch
         /\ DOMAIN w.window \subseteq DOMAIN st.window
         /\ \A x \in DOMAIN w.window : w.window[x] = st.window[x]
         /\ e <= st.epoch => w = st
         /\ \A x \in DOMAIN st.window :
              x \notin DOMAIN w.window => e > st.epoch /\ (e >= x + width \/ x = 0)
  <1>1. st.epoch \in Nat /\ st = [epoch |-> st.epoch, window |-> st.window]
    <2>1. 0 \in 0..Len(calls)
      BY DEF CacheOK, EpochsTold, IsSeq
    <2> QED BY <2>1, ReachedBefore DEF CacheOK
  <1>2. CASE e <= st.epoch
    BY <1>1, <1>2 DEF Windowed
  <1>3. CASE e > st.epoch
    <2>1. PICK f : f = [x \in { y \in DOMAIN st.window : y > SaturatingSub(e, width) } |->
                          st.window[x]]
      OBVIOUS
    <2>2. w = [epoch |-> e, window |-> f]
      BY <1>1, <1>3, <2>1 DEF Windowed
    <2>3. w.epoch = e /\ w.window = f
      BY <2>2
    <2>4. /\ DOMAIN f = { y \in DOMAIN st.window : y > SaturatingSub(e, width) }
          /\ \A x \in DOMAIN f : f[x] = st.window[x]
      BY <2>1
    <2>5. \A x \in DOMAIN st.window : x \notin DOMAIN f => e >= x + width \/ x = 0
      BY <2>4 DEF SaturatingSub, CacheOK
    <2> QED BY <1>1, <1>3, <2>2, <2>3, <2>4, <2>5
  <1> QED BY <1>1, <1>2, <1>3

\* What was in a slot is still there after a call, or its slot was dropped by a
\* call since it was put in.
LEMMA SlotStays ==
  ASSUME CacheOK, NEW e \in Nat, NEW width \in Nat, NEW w, w = Windowed(st, e, width),
         NEW n, n = Len(calls) + 1,
         \A i \in 0..(n - 1) : ReachedBy(i)' = ReachedBy(i), ReachedBy(n)' = w.epoch,
         NEW i \in 1..(n - 1), NEW x, NEW m,
         \/ \E c \in (i + 1)..(n - 1) : Dropped(x, i, c, width)
         \/ x \in DOMAIN st.window /\ m \in st.window[x]
  PROVE  \/ \E c \in (i + 1)..n : Dropped(x, i, c, width)'
         \/ x \in DOMAIN w.window /\ m \in w.window[x]
  <1>1. n \in Nat \ {0} /\ i \in 0..(n - 1) /\ i \in 0..Len(calls)
    BY DEF CacheOK, EpochsTold, IsSeq
  <1>2. CASE \E c \in (i + 1)..(n - 1) : Dropped(x, i, c, width)
    <2>1. PICK c \in (i + 1)..(n - 1) : Dropped(x, i, c, width)
      BY <1>2
    <2>2. c \in 0..(n - 1) /\ c \in (i + 1)..n
      BY <1>1
    <2>3. Dropped(x, i, c, width)'
      BY <1>1, <2>1, <2>2 DEF Dropped
    <2> QED BY <2>2, <2>3
  <1>3. CASE x \in DOMAIN st.window /\ m \in st.window[x]
    <2>1. CASE x \in DOMAIN w.window
      BY <1>3, <2>1, WindowMoves
    <2>2. CASE x \notin DOMAIN w.window
      <3>1. /\ e > st.epoch /\ (e >= x + width \/ x = 0) /\ w.epoch = e
            /\ st.epoch \in Nat
        BY <1>3, <2>2, WindowMoves
      <3>2. ReachedBy(i) \in Nat /\ ReachedBy(i) <= st.epoch
        BY <1>1, ReachedBefore DEF CacheOK
      <3>3. ReachedBy(n)' = e /\ ReachedBy(i)' = ReachedBy(i)
        BY <1>1, <3>1
      <3>4. ReachedBy(n)' >= x + width \/ (x = 0 /\ ReachedBy(n)' > ReachedBy(i)')
        BY <3>1, <3>2, <3>3
      <3>5. Dropped(x, i, n, width)'
        BY <3>4 DEF Dropped
      <3> QED BY <1>1, <3>5
    <2> QED BY <2>1, <2>2
  <1> QED BY <1>2, <1>3

-----------------------------------------------------------------------------
(* The nonce cache (nonce_cache.rs). *)

\* The calls up to one that found a nonce of an epoch fresh.
FreshIn(x, k) == { c \in Made("check") \cap (1..k) : Arg(c, 2) = x /\ Got(c, TRUE) }

\* What became of a fresh nonce: its epoch was full, its slot dropped, or it is
\* remembered.
NonceKept(i) ==
    \/ Cardinality(FreshIn(Arg(i, 2), i - 1)) >= MAX_NONCES_PER_EPOCH
    \/ \E c \in (i + 1)..Len(calls) : Dropped(Arg(i, 2), i, c, WINDOW_EPOCHS)
    \/ /\ Arg(i, 2) \in DOMAIN st.window
       /\ <<Arg(i, 1), Arg(i, 3)>> \in st.window[Arg(i, 2)]

\* A slot holds no more nonces than were fresh in its epoch.
SlotOK(x) == /\ IsFiniteSet(st.window[x])
             /\ Cardinality(st.window[x]) <= Cardinality(FreshIn(x, Len(calls)))

NonceInv ==
    kind = "nonce_cache" =>
      /\ CacheOK /\ \A x \in DOMAIN st.window : SlotOK(x)
      /\ \A i \in Made("check") : Got(i, TRUE) => NonceKept(i)
      /\ ReplaysCaught

\* The fresh nonces of an epoch up to an earlier call stay, and are finitely many.
LEMMA FreshStays ==
  ASSUME IsSeq(calls), NEW op, NEW args, NEW result, Return(op, args, result), NEW n,
         n = Len(calls) + 1, NEW x, NEW k \in 0..(n - 1)
  PROVE  /\ FreshIn(x, k)' = FreshIn(x, k) /\ n \notin FreshIn(x, k)
         /\ IsFiniteSet(FreshIn(x, k)) /\ Cardinality(FreshIn(x, k)) \in Nat
  <1>1. /\ n \in Nat \ {0}
        /\ \A j \in 1..(n - 1) : \A f : Arg(j, f)' = Arg(j, f)
        /\ \A j \in 1..(n - 1) : \A r : Got(j, r)' <=> Got(j, r)
        /\ \A o : Made(o) \subseteq 1..(n - 1)
        /\ \A o : Made(o)' = IF o = op THEN Made(o) \cup {n} ELSE Made(o)
    BY NewCall
  <1>2. FreshIn(x, k)' = FreshIn(x, k)
    <2>1. Made("check")' \cap (1..k) = Made("check") \cap (1..k)
      BY <1>1
    <2>2. \A c \in Made("check") \cap (1..k) : c \in 1..(n - 1)
      BY <1>1
    <2> QED BY <1>1, <2>1, <2>2 DEF FreshIn
  <1>3. FreshIn(x, k) \subseteq 1..k
    BY DEF FreshIn
  <1>4. k \in Nat /\ n \notin 1..k
    BY <1>1
  <1> QED BY <1>2, <1>3, <1>4, FewCalls

\* The call itself, if it found a nonce of the epoch fresh.
OneFresh(op, args, result, x, n) ==
    IF op = "check" /\ args[2] = x /\ result = TRUE THEN {n} ELSE {}

\* The fresh nonces of an epoch up to the call are those before it, and the
\* call's own if it found one of that epoch.
LEMMA FreshGrows ==
  ASSUME IsSeq(calls), NEW op, NEW args, NEW result, Return(op, args, result), NEW n,
         n = Len(calls) + 1, NEW x
  PROVE  FreshIn(x, n)' = FreshIn(x, n - 1) \cup OneFresh(op, args, result, x, n)
  <1>1. /\ n \in Nat \ {0}
        /\ \A k : Arg(n, k)' = args[k]
        /\ \A r : Got(n, r)' <=> result = r
        /\ \A j \in 1..(n - 1) : \A k : Arg(j, k)' = Arg(j, k)
        /\ \A j \in 1..(n - 1) : \A r : Got(j, r)' <=> Got(j, r)
        /\ \A o : Made(o) \subseteq 1..(n - 1)
        /\ \A o : Made(o)' = IF o = op THEN Made(o) \cup {n} ELSE Made(o)
    BY NewCall
  <1>2. Made("check")' \cap (1..n) =
          IF op = "check" THEN (Made("check") \cap (1..(n - 1))) \cup {n}
          ELSE Made("check") \cap (1..(n - 1))
    BY <1>1
  <1>3. \A c \in Made("check") \cap (1..(n - 1)) :
          Arg(c, 2)' = Arg(c, 2) /\ (Got(c, TRUE)' <=> Got(c, TRUE))
    BY <1>1
  <1>4. Arg(n, 2)' = args[2] /\ (Got(n, TRUE)' <=> result = TRUE)
    BY <1>1
  <1> QED BY <1>2, <1>3, <1>4 DEF FreshIn, OneFresh

\* What became of the nonces that were fresh holds after a call, whatever it
\* adds to the slots of the window.
LEMMA NoncesStay ==
  ASSUME NonceInv, kind = "nonce_cache", NEW op, NEW args, NEW result, Return(op, args, result),
         NEW n, n = Len(calls) + 1, NEW e \in Nat, NEW w, w = Windowed(st, e, WINDOW_EPOCHS),
         \A i \in 0..(n - 1) : ReachedBy(i)' = ReachedBy(i), ReachedBy(n)' = w.epoch,
         \A x \in DOMAIN w.window : x \in DOMAIN st'.window /\ w.window[x] \subseteq st'.window[x]
  PROVE  /\ \A i \in Made("check") : Got(i, TRUE) => NonceKept(i)'
         /\ \A i, j \in Made("check") :
              (i < j /\ Got(i, TRUE) /\ Got(j, TRUE) /\ calls[i].args = calls[j].args) =>
                 \/ Cardinality(FreshIn(Arg(i, 2), i - 1)') >= MAX_NONCES_PER_EPOCH
                 \/ \E c \in Between(i, j) : Dropped(Arg(i, 2), i, c, WINDOW_EPOCHS)'
  <1>1. CacheOK /\ EpochsTold /\ IsSeq(calls) /\ WINDOW_EPOCHS \in Nat
    BY MessageAssumption DEF NonceInv, CacheOK, EpochsTold
  <1>2. /\ n \in Nat \ {0} /\ Len(calls) = n - 1 /\ Len(calls') = n
        /\ Made("check") \subseteq 1..(n - 1)
        /\ \A i \in 1..(n - 1) : \A k : Arg(i, k)' = Arg(i, k)
    BY <1>1, NewCall
  <1>3. ASSUME NEW x, NEW k \in 0..(n - 1) PROVE FreshIn(x, k)' = FreshIn(x, k)
    BY <1>1, FreshStays
  <1>4. ASSUME NEW i \in Made("check")
        PROVE  /\ i \in 1..(n - 1) /\ i \in 0..(n - 1) /\ i - 1 \in 0..(n - 1)
               /\ Arg(i, 1)' = Arg(i, 1) /\ Arg(i, 2)' = Arg(i, 2) /\ Arg(i, 3)' = Arg(i, 3)
    BY <1>2
  <1>5. ASSUME NEW i \in Made("check"), Got(i, TRUE) PROVE NonceKept(i)'
    <2>1. NonceKept(i)
      BY <1>5 DEF NonceInv
    <2>2. CASE Cardinality(FreshIn(Arg(i, 2), i - 1)) >= MAX_NONCES_PER_EPOCH
      BY <1>3, <1>4, <2>2 DEF NonceKept
    <2>3. CASE ~(Cardinality(FreshIn(Arg(i, 2), i - 1)) >= MAX_NONCES_PER_EPOCH)
      <3>1. PICK x, m : x = Arg(i, 2) /\ m = <<Arg(i, 1), Arg(i, 3)>>
        OBVIOUS
      <3>2. \/ \E c \in (i + 1)..(n - 1) : Dropped(x, i, c, WINDOW_EPOCHS)
            \/ x \in DOMAIN st.window /\ m \in st.window[x]
        BY <1>2, <2>1, <2>3, <3>1 DEF NonceKept
      <3>3. \/ \E c \in (i + 1)..n : Dropped(x, i, c, WINDOW_EPOCHS)'
            \/ x \in DOMAIN w.window /\ m \in w.window[x]
        BY <1>1, <1>4, <3>2, SlotStays
      <3>4. \/ \E c \in (i + 1)..n : Dropped(x, i, c, WINDOW_EPOCHS)'
            \/ x \in DOMAIN st'.window /\ m \in st'.window[x]
        BY <3>3
      <3> QED BY <1>2, <1>4, <3>1, <3>4 DEF NonceKept, Dropped
    <2> QED BY <2>2, <2>3
  <1>6. ASSUME NEW i \in Made("check"), NEW j \in Made("check"), i < j, Got(i, TRUE),
               Got(j, TRUE), calls[i].args = calls[j].args
        PROVE  \/ Cardinality(FreshIn(Arg(i, 2), i - 1)') >= MAX_NONCES_PER_EPOCH
               \/ \E c \in Between(i, j) : Dropped(Arg(i, 2), i, c, WINDOW_EPOCHS)'
    <2>1. \/ Cardinality(FreshIn(Arg(i, 2), i - 1)) >= MAX_NONCES_PER_EPOCH
          \/ \E c \in Between(i, j) : Dropped(Arg(i, 2), i, c, WINDOW_EPOCHS)
      BY <1>6 DEF NonceInv, ReplaysCaught, FreshIn
    <2>2. ASSUME NEW c \in Between(i, j), Dropped(Arg(i, 2), i, c, WINDOW_EPOCHS)
          PROVE  Dropped(Arg(i, 2), i, c, WINDOW_EPOCHS)'
      <3>1. c \in 0..(n - 1)
        BY <1>4, <2>2 DEF Between
      <3> QED BY <1>4, <2>2, <3>1 DEF Dropped
    <2> QED BY <1>3, <1>4, <2>1, <2>2
  <1> QED BY <1>5, <1>6

\* Advancing drops slots and nothing else (advance_epoch).
LEMMA NonceAdvances ==
  ASSUME NonceInv, kind = "nonce_cache", kind' = kind, kind \in Kinds, advance_epoch
  PROVE  NonceInv'
  <1>1. PICK e \in Epochs : st' = Windowed(st, e, WINDOW_EPOCHS) /\ Return("advance", <<e>>, TRUE)
    BY DEF advance_epoch, Width
  <1>2. PICK n : n = Len(calls) + 1
    OBVIOUS
  <1>3. CacheOK /\ EpochsTold /\ IsSeq(calls) /\ e \in Nat /\ WINDOW_EPOCHS \in Nat
    BY Inputs, MessageAssumption DEF NonceInv, CacheOK, EpochsTold
  <1>4. /\ n \in Nat \ {0} /\ Len(calls) = n - 1 /\ Len(calls') = n
        /\ Made("check") \subseteq 1..(n - 1) /\ Made("check")' = Made("check")
        /\ \A i \in Made("check") : \A k : Arg(i, k)' = Arg(i, k)
        /\ \A i \in Made("check") : Got(i, TRUE)' <=> Got(i, TRUE)
        /\ \A i \in Made("check") : calls'[i] = calls[i]
    <2>1. /\ n \in Nat \ {0} /\ Len(calls) = n - 1 /\ Len(calls') = n
          /\ Made("check") \subseteq 1..(n - 1)
      <3>1. /\ Len(calls) \in Nat /\ Len(calls') = Len(calls) + 1
            /\ Made("check") \subseteq 1..Len(calls)
        BY <1>1, <1>3, OneCall, MadeGrows
      <3> QED BY <1>2, <3>1
    <2>2. "check" # "advance"
      OBVIOUS
    <2>3. /\ Made("check")' = Made("check")
          /\ \A i \in Made("check") : \A k : Arg(i, k)' = Arg(i, k)
          /\ \A i \in Made("check") : calls'[i] = calls[i]
      BY <1>1, <1>3, <2>2, OtherCall
    <2>4. \A i \in Made("check") : \A r : Got(i, r)' <=> Got(i, r)
      BY <1>1, <1>3, <2>2, OtherCall
    <2>5. \A i \in Made("check") : Got(i, TRUE)' <=> Got(i, TRUE)
      BY <2>4
    <2> QED BY <2>1, <2>3, <2>5
  <1>5. PICK w : w = st'
    OBVIOUS
  <1>6. /\ w = [epoch |-> w.epoch, window |-> w.window]
        /\ w.epoch = (IF e > st.epoch THEN e ELSE st.epoch)
        /\ DOMAIN w.window \subseteq DOMAIN st.window
        /\ \A x \in DOMAIN w.window : w.window[x] = st.window[x]
    BY <1>1, <1>3, <1>5, WindowMoves
  <1>7. /\ \A i \in 0..(n - 1) : ReachedBy(i)' = ReachedBy(i)
        /\ ReachedBy(n)' = w.epoch /\ EpochsTold'
    <2>1. PICK a : a = <<e>>
      OBVIOUS
    <2>2. /\ Return("advance", a, TRUE) /\ EpochsTold /\ n = Len(calls) + 1
          /\ NamedBy("advance", a) \in Nat
          /\ Reached("advance", a) = w.epoch /\ st'.epoch = w.epoch
      BY <1>1, <1>2, <1>3, <1>5, <1>6, <2>1 DEF NamedBy, Reached
    <2> QED BY <2>2, EpochStep
  <1>8. CacheOK'
    BY <1>3, <1>5, <1>6, <1>7 DEF CacheOK
  <1>9. ASSUME NEW x PROVE FreshIn(x, n)' = FreshIn(x, n - 1)
    <2>1. PICK o, a : o = "advance" /\ a = <<e>>
      OBVIOUS
    <2>2. Return(o, a, TRUE) /\ IsSeq(calls) /\ n = Len(calls) + 1
      BY <1>1, <1>2, <1>3, <2>1
    <2>3. FreshIn(x, n)' = FreshIn(x, n - 1) \cup OneFresh(o, a, TRUE, x, n)
      BY <2>2, FreshGrows
    <2> QED BY <2>1, <2>3 DEF OneFresh
  <1>10. ASSUME NEW x \in DOMAIN st'.window PROVE SlotOK(x)'
    BY <1>4, <1>5, <1>6, <1>9 DEF NonceInv, SlotOK
  <1>11. /\ \A i \in Made("check") : Got(i, TRUE) => NonceKept(i)'
         /\ \A i, j \in Made("check") :
              (i < j /\ Got(i, TRUE) /\ Got(j, TRUE) /\ calls[i].args = calls[j].args) =>
                 \/ Cardinality(FreshIn(Arg(i, 2), i - 1)') >= MAX_NONCES_PER_EPOCH
                 \/ \E c \in Between(i, j) : Dropped(Arg(i, 2), i, c, WINDOW_EPOCHS)'
    BY <1>1, <1>2, <1>3, <1>5, <1>7, NoncesStay
  <1>12. ReplaysCaught'
    BY <1>4, <1>11 DEF ReplaysCaught, FreshIn, Between, Dropped
  <1> QED BY <1>4, <1>8, <1>10, <1>11, <1>12 DEF NonceInv

\* A nonce that is fresh is put into its slot, or the slot is full
\* (check_nonce).
LEMMA NonceChecks ==
  ASSUME NonceInv, kind = "nonce_cache", kind' = kind, kind \in Kinds, check_nonce
  PROVE  NonceInv'
  <1>1. PICK p \in Peers, e \in Epochs, nonce \in Ids :
          LET s == Windowed(st, e, WINDOW_EPOCHS)
              slot == Get(s.window, e, {})
              fresh == <<p, nonce>> \notin slot
              kept == IF fresh /\ Cardinality(slot) < MAX_NONCES_PER_EPOCH
                      THEN slot \cup {<<p, nonce>>} ELSE slot
          IN  /\ st' = [s EXCEPT !.window = Put(@, e, kept)]
              /\ Return("check", <<p, e, nonce>>, fresh)
    BY DEF check_nonce
  <1>2. PICK n : n = Len(calls) + 1
    OBVIOUS
  <1>3. PICK w : w = Windowed(st, e, WINDOW_EPOCHS)
    OBVIOUS
  <1>4. PICK slot : slot = Get(w.window, e, {})
    OBVIOUS
  <1>5. PICK fresh, key, a : /\ fresh = (<<p, nonce>> \notin slot)
                             /\ key = <<p, nonce>> /\ a = <<p, e, nonce>>
    OBVIOUS
  <1>6. PICK kept : kept = IF fresh /\ Cardinality(slot) < MAX_NONCES_PER_EPOCH
                           THEN slot \cup {key} ELSE slot
    OBVIOUS
  <1>7. st' = [w EXCEPT !.window = Put(w.window, e, kept)] /\ Return("check", a, fresh)
    BY <1>1, <1>3, <1>4, <1>5, <1>6
  <1>8. a[1] = p /\ a[2] = e /\ a[3] = nonce /\ e \in Nat /\ (fresh <=> key \notin slot)
    BY <1>5, Inputs
  <1>9. /\ CacheOK /\ EpochsTold /\ IsSeq(calls) /\ WINDOW_EPOCHS \in Nat
        /\ MAX_NONCES_PER_EPOCH \in Nat
    BY MessageAssumption DEF NonceInv, CacheOK, EpochsTold
  <1>10. /\ w = [epoch |-> w.epoch, window |-> w.window] /\ st.epoch \in Nat
         /\ w.epoch = (IF e > st.epoch THEN e ELSE st.epoch)
         /\ DOMAIN w.window \subseteq DOMAIN st.window
         /\ \A x \in DOMAIN w.window : w.window[x] = st.window[x]
         /\ e <= st.epoch => w = st
    BY <1>3, <1>8, <1>9, WindowMoves
  <1>11. /\ st' = [epoch |-> w.epoch, window |-> Put(w.window, e, kept)]
         /\ st'.epoch = w.epoch /\ st'.window = Put(w.window, e, kept)
    BY <1>7, <1>10
  <1>12. /\ DOMAIN st'.window = DOMAIN w.window \cup {e} /\ st'.window[e] = kept
         /\ \A x \in DOMAIN w.window : x # e => st'.window[x] = w.window[x]
    BY <1>11 DEF Put
  <1>13. slot = IF e \in DOMAIN w.window THEN w.window[e] ELSE {}
    BY <1>4 DEF Get
  <1>14. /\ n \in Nat \ {0} /\ Len(calls) = n - 1 /\ Len(calls') = n
         /\ Made("check") \subseteq 1..(n - 1) /\ Made("check")' = Made("check") \cup {n}
         /\ \A i \in 1..(n - 1) : \A k : Arg(i, k)' = Arg(i, k)
         /\ \A i \in 1..(n - 1) : \A r : Got(i, r)' <=> Got(i, r)
         /\ \A i \in 1..(n - 1) : calls'[i] = calls[i]
         /\ \A k : Arg(n, k)' = a[k]
         /\ \A x : Got(n, x)' <=> fresh = x
         /\ calls'[n].args = a
    BY <1>2, <1>7, <1>9, NewCall
  <1>15. Got(n, TRUE)' <=> fresh
    BY <1>5, <1>14
  <1>16. /\ \A i \in 0..(n - 1) : ReachedBy(i)' = ReachedBy(i)
         /\ ReachedBy(n)' = w.epoch /\ EpochsTold'
    <2>1. /\ NamedBy("check", a) = e /\ Reached("check", a) = w.epoch /\ e \in Nat
          /\ EpochsTold /\ n = Len(calls) + 1 /\ st'.epoch = w.epoch
      BY <1>2, <1>8, <1>9, <1>10, <1>11 DEF NamedBy, Reached, EpochField
    <2> QED BY <1>7, <2>1, EpochStep
  <1>17. CacheOK'
    BY <1>8, <1>9, <1>10, <1>11, <1>12, <1>16 DEF CacheOK
  <1>18. ASSUME NEW x
         PROVE  /\ FreshIn(x, n)' = IF a[2] = x /\ fresh = TRUE
                                    THEN FreshIn(x, n - 1) \cup {n} ELSE FreshIn(x, n - 1)
                /\ n \notin FreshIn(x, n - 1)
                /\ IsFiniteSet(FreshIn(x, n - 1)) /\ Cardinality(FreshIn(x, n - 1)) \in Nat
                /\ FreshIn(x, n - 1)' = FreshIn(x, n - 1)
    <2>1. n - 1 \in 0..(n - 1)
      BY <1>14
    <2>2. PICK o : o = "check"
      OBVIOUS
    <2>3. Return(o, a, fresh)
      BY <1>7, <2>2
    <2>4. FreshIn(x, n)' = IF o = "check" /\ a[2] = x /\ fresh = TRUE
                           THEN FreshIn(x, n - 1) \cup {n} ELSE FreshIn(x, n - 1)
      <3>1. IsSeq(calls) /\ n = Len(calls) + 1
        BY <1>2, <1>9
      <3>2. FreshIn(x, n)' = FreshIn(x, n - 1) \cup OneFresh(o, a, fresh, x, n)
        BY <2>3, <3>1, FreshGrows
      <3>3. OneFresh(o, a, fresh, x, n) = IF o = "check" /\ a[2] = x /\ fresh = TRUE THEN {n} ELSE {}
        BY DEF OneFresh
      <3> QED BY <3>2, <3>3
    <2>5. /\ n \notin FreshIn(x, n - 1)
          /\ IsFiniteSet(FreshIn(x, n - 1)) /\ Cardinality(FreshIn(x, n - 1)) \in Nat
          /\ FreshIn(x, n - 1)' = FreshIn(x, n - 1)
      BY <1>2, <1>9, <2>1, <2>3, FreshStays
    <2> QED BY <2>2, <2>4, <2>5
  <1>19. PICK few : few = Cardinality(FreshIn(e, n - 1)) /\ few \in Nat
    BY <1>18
  <1>20. /\ IsFiniteSet(slot) /\ Cardinality(slot) \in Nat
         /\ Cardinality(slot) <= few
    <2>1. CASE e \in DOMAIN w.window
      <3>1. SlotOK(e) /\ slot = st.window[e]
        BY <1>10, <1>13, <2>1 DEF NonceInv
      <3> QED BY <1>14, <1>19, <3>1, FS_CardinalityType DEF SlotOK
    <2>2. CASE e \notin DOMAIN w.window
      <3>1. slot = {}
        BY <1>13, <2>2
      <3> QED BY <1>19, <3>1, FS_EmptySet
    <2> QED BY <2>1, <2>2
  <1>21. ASSUME NEW x \in DOMAIN st'.window PROVE SlotOK(x)'
    <2>1. CASE x # e
      <3>1. x \in DOMAIN w.window /\ st'.window[x] = st.window[x] /\ SlotOK(x)
        BY <1>10, <1>12, <2>1 DEF NonceInv
      <3>2. FreshIn(x, n)' = FreshIn(x, n - 1)
        BY <1>8, <1>18, <2>1
      <3> QED BY <1>14, <3>1, <3>2 DEF SlotOK
    <2>2. CASE x = e /\ kept = slot
      <3>1. PICK now : now = Cardinality(FreshIn(e, n)') /\ now \in Nat /\ now >= few
        <4>1. CASE fresh = TRUE
          <5>1. Cardinality(FreshIn(e, n)') = few + 1
            BY <1>8, <1>18, <1>19, <4>1, OneMore
          <5> QED BY <1>19, <5>1
        <4>2. CASE fresh # TRUE
          <5>1. Cardinality(FreshIn(e, n)') = few
            BY <1>8, <1>18, <1>19, <4>2
          <5> QED BY <1>19, <5>1
        <4> QED BY <4>1, <4>2
      <3>2. Cardinality(slot) <= now
        BY <1>20, <1>19, <3>1
      <3>3. st'.window[x] = slot /\ Len(calls') = n
        BY <1>12, <1>14, <2>2
      <3> QED BY <1>20, <2>2, <3>1, <3>2, <3>3 DEF SlotOK
    <2>3. CASE x = e /\ kept # slot
      <3>1. fresh /\ key \notin slot /\ kept = slot \cup {key} /\ fresh = TRUE
        BY <1>5, <1>6, <1>8, <2>3
      <3>2. Cardinality(kept) = Cardinality(slot) + 1 /\ IsFiniteSet(kept)
        BY <1>20, <3>1, OneMore
      <3>3. Cardinality(FreshIn(e, n)') = few + 1
        BY <1>8, <1>18, <1>19, <3>1, OneMore
      <3>4. Cardinality(kept) <= few + 1
        BY <1>20, <1>19, <3>2
      <3>5. st'.window[x] = kept /\ Len(calls') = n
        BY <1>12, <1>14, <2>3
      <3> QED BY <2>3, <3>2, <3>3, <3>4, <3>5 DEF SlotOK
    <2> QED BY <2>1, <2>2, <2>3
  <1>22. \A x \in DOMAIN w.window : x \in DOMAIN st'.window /\ w.window[x] \subseteq st'.window[x]
    BY <1>6, <1>12, <1>13
  <1>23. /\ \A i \in Made("check") : Got(i, TRUE) => NonceKept(i)'
         /\ \A i, j \in Made("check") :
              (i < j /\ Got(i, TRUE) /\ Got(j, TRUE) /\ calls[i].args = calls[j].args) =>
                 \/ Cardinality(FreshIn(Arg(i, 2), i - 1)') >= MAX_NONCES_PER_EPOCH
                 \/ \E c \in Between(i, j) : Dropped(Arg(i, 2), i, c, WINDOW_EPOCHS)'
    BY <1>2, <1>3, <1>7, <1>8, <1>16, <1>22, NoncesStay
  <1>24. fresh => NonceKept(n)'
    <2>1. Arg(n, 1)' = p /\ Arg(n, 2)' = e /\ Arg(n, 3)' = nonce
      BY <1>8, <1>14
    <2>2. CASE fresh /\ Cardinality(slot) < MAX_NONCES_PER_EPOCH
      BY <1>5, <1>6, <1>12, <2>1, <2>2 DEF NonceKept
    <2>3. CASE Cardinality(slot) >= MAX_NONCES_PER_EPOCH
      <3>1. Cardinality(FreshIn(e, n - 1)') >= MAX_NONCES_PER_EPOCH
        <4>1. Cardinality(FreshIn(e, n - 1)') = few
          BY <1>18, <1>19
        <4> QED BY <1>9, <1>20, <1>19, <2>3, <4>1
      <3> QED BY <2>1, <3>1 DEF NonceKept
    <2> QED BY <1>9, <1>20, <2>2, <2>3
  <1>25. ASSUME NEW i \in Made("check"), Got(i, TRUE), fresh, calls[i].args = a
         PROVE  \/ Cardinality(FreshIn(Arg(i, 2), i - 1)) >= MAX_NONCES_PER_EPOCH
                \/ \E c \in (i + 1)..(n - 1) : Dropped(Arg(i, 2), i, c, WINDOW_EPOCHS)
    <2>1. Arg(i, 1) = p /\ Arg(i, 2) = e /\ Arg(i, 3) = nonce
      BY <1>8, <1>25 DEF Arg
    <2>2. i \in 1..(n - 1) /\ i \in 0..Len(calls) /\ i \in 1..i
      BY <1>14
    <2>3. calls[i].op = "check"
      BY DEF Made
    <2>4. ToldEpoch(i) = e
      BY <2>1, <2>3 DEF ToldEpoch, EpochField
    <2>5. e <= st.epoch
      <3>1. ReachedBy(i) \in Nat /\ ReachedBy(i) <= st.epoch /\ e <= ReachedBy(i)
        BY <1>9, <2>2, <2>3, <2>4, ReachedBefore
      <3> QED BY <1>8, <1>10, <3>1
    <2>6. w = st
      BY <1>10, <2>5
    <2>7. ~(e \in DOMAIN st.window /\ <<p, nonce>> \in st.window[e])
      BY <1>5, <1>8, <1>13, <1>25, <2>6
    <2> QED BY <1>14, <1>25, <2>1, <2>7 DEF NonceInv, NonceKept
  <1>26. ReplaysCaught'
    <2>1. ASSUME NEW i \in Made("check"), Got(i, TRUE), fresh, calls[i].args = a
          PROVE  \/ Cardinality(FreshIn(Arg(i, 2), i - 1)') >= MAX_NONCES_PER_EPOCH
                 \/ \E c \in Between(i, n) : Dropped(Arg(i, 2), i, c, WINDOW_EPOCHS)'
      <3>1. i \in 1..(n - 1) /\ i - 1 \in 0..(n - 1) /\ i \in 0..(n - 1)
        BY <1>14
      <3>2. FreshIn(Arg(i, 2), i - 1)' = FreshIn(Arg(i, 2), i - 1)
        <4>1. ASSUME NEW x PROVE FreshIn(x, i - 1)' = FreshIn(x, i - 1)
          BY <1>2, <1>7, <1>9, <3>1, FreshStays
        <4> QED BY <1>14, <3>1, <4>1
      <3>3. ASSUME NEW c \in (i + 1)..(n - 1), Dropped(Arg(i, 2), i, c, WINDOW_EPOCHS)
            PROVE  Dropped(Arg(i, 2), i, c, WINDOW_EPOCHS)'
        <4>1. c \in 0..(n - 1)
          BY <3>1
        <4> QED BY <1>14, <1>16, <3>1, <3>3, <4>1 DEF Dropped
      <3> QED BY <1>25, <2>1, <3>2, <3>3 DEF Between
    <2>2. ASSUME NEW i \in Made("check")', NEW j \in Made("check")', i < j, Got(i, TRUE)',
                 Got(j, TRUE)', calls'[i].args = calls'[j].args
          PROVE  \/ Cardinality(FreshIn(Arg(i, 2), i - 1)') >= MAX_NONCES_PER_EPOCH
                 \/ \E c \in Between(i, j) : Dropped(Arg(i, 2), i, c, WINDOW_EPOCHS)'
      <3>1. i \in Made("check") /\ i \in 1..(n - 1) /\ Got(i, TRUE) /\ calls'[i] = calls[i]
        <4>1. j \in 1..n /\ i # n
          BY <1>14, <2>2
        <4>2. i \in Made("check") /\ i \in 1..(n - 1) /\ calls'[i] = calls[i]
          BY <1>14, <2>2, <4>1
        <4>3. Got(i, TRUE)' <=> Got(i, TRUE)
          BY <1>14, <4>2
        <4> QED BY <2>2, <4>2, <4>3
      <3>2. CASE j = n
        BY <1>14, <1>15, <2>1, <2>2, <3>1, <3>2
      <3>3. CASE j # n
        <4>1. j \in Made("check") /\ Got(j, TRUE) /\ calls'[j] = calls[j]
          BY <1>14, <2>2, <3>3
        <4> QED BY <1>23, <2>2, <3>1, <4>1
      <3> QED BY <3>2, <3>3
    <2> QED BY <2>2 DEF ReplaysCaught, FreshIn, Between, Dropped
  <1>27. \A i \in Made("check")' : Got(i, TRUE)' => NonceKept(i)'
    BY <1>14, <1>15, <1>23, <1>24
  <1> QED BY <1>17, <1>21, <1>26, <1>27 DEF NonceInv

-----------------------------------------------------------------------------
(* The content cache (gossip_message_cache.rs). *)

\* What became of content that was inserted: its slot was dropped, or it is
\* there.
ContentKept(i) ==
    \/ \E c \in (i + 1)..Len(calls) : Dropped(Arg(i, 2), i, c, CACHE_WINDOW_EPOCHS)
    \/ /\ Arg(i, 2) \in DOMAIN st.window
       /\ Arg(i, 1) \in st.window[Arg(i, 2)]

ContentInv ==
    kind = "gossip_message_cache" =>
      /\ CacheOK
      /\ \A i \in Made("insert") : Got(i, "Inserted") => ContentKept(i)
      /\ ContentOnce

\* What became of the content that was inserted holds after a call, whatever it
\* adds to the slots of the window; what the window has lost was dropped.
LEMMA ContentStays ==
  ASSUME ContentInv, kind = "gossip_message_cache", NEW op, NEW args, NEW result,
         Return(op, args, result), NEW n, n = Len(calls) + 1, NEW e \in Nat,
         NEW w, w = Windowed(st, e, CACHE_WINDOW_EPOCHS),
         \A i \in 0..(n - 1) : ReachedBy(i)' = ReachedBy(i), ReachedBy(n)' = w.epoch,
         \A x \in DOMAIN w.window : x \in DOMAIN st'.window /\ w.window[x] \subseteq st'.window[x]
  PROVE  /\ \A i \in Made("insert") : Got(i, "Inserted") =>
              /\ ContentKept(i)'
              /\ \/ \E c \in (i + 1)..n : Dropped(Arg(i, 2), i, c, CACHE_WINDOW_EPOCHS)'
                 \/ Arg(i, 2) \in DOMAIN w.window /\ Arg(i, 1) \in w.window[Arg(i, 2)]
         /\ \A i, j \in Made("insert") :
              (i < j /\ Got(i, "Inserted") /\ Got(j, "Inserted") /\ Arg(i, 1) = Arg(j, 1)) =>
                 \E c \in (i + 1)..j : Dropped(Arg(i, 2), i, c, CACHE_WINDOW_EPOCHS)'
  <1>1. CacheOK /\ EpochsTold /\ IsSeq(calls) /\ CACHE_WINDOW_EPOCHS \in Nat
    BY MessageAssumption DEF ContentInv, CacheOK, EpochsTold
  <1>2. /\ n \in Nat \ {0} /\ Len(calls) = n - 1 /\ Len(calls') = n
        /\ Made("insert") \subseteq 1..(n - 1)
        /\ \A i \in 1..(n - 1) : \A k : Arg(i, k)' = Arg(i, k)
    BY <1>1, NewCall
  <1>3. ASSUME NEW i \in Made("insert")
        PROVE  /\ i \in 1..(n - 1) /\ i \in 0..(n - 1)
               /\ Arg(i, 1)' = Arg(i, 1) /\ Arg(i, 2)' = Arg(i, 2)
    BY <1>2
  <1>4. ASSUME NEW i \in Made("insert"), Got(i, "Inserted")
        PROVE  /\ ContentKept(i)'
               /\ \/ \E c \in (i + 1)..n : Dropped(Arg(i, 2), i, c, CACHE_WINDOW_EPOCHS)'
                  \/ Arg(i, 2) \in DOMAIN w.window /\ Arg(i, 1) \in w.window[Arg(i, 2)]
    <2>1. ContentKept(i)
      BY <1>4 DEF ContentInv
    <2>2. PICK x, m : x = Arg(i, 2) /\ m = Arg(i, 1)
      OBVIOUS
    <2>3. \/ \E c \in (i + 1)..(n - 1) : Dropped(x, i, c, CACHE_WINDOW_EPOCHS)
          \/ x \in DOMAIN st.window /\ m \in st.window[x]
      BY <1>2, <2>1, <2>2 DEF ContentKept
    <2>4. \/ \E c \in (i + 1)..n : Dropped(x, i, c, CACHE_WINDOW_EPOCHS)'
          \/ x \in DOMAIN w.window /\ m \in w.window[x]
      BY <1>1, <1>3, <2>3, SlotStays
    <2>5. \/ \E c \in (i + 1)..n : Dropped(x, i, c, CACHE_WINDOW_EPOCHS)'
          \/ x \in DOMAIN st'.window /\ m \in st'.window[x]
      BY <2>4
    <2>6. ContentKept(i)'
      BY <1>2, <1>3, <2>2, <2>5 DEF ContentKept, Dropped
    <2>7. \/ \E c \in (i + 1)..n : Dropped(Arg(i, 2), i, c, CACHE_WINDOW_EPOCHS)'
          \/ Arg(i, 2) \in DOMAIN w.window /\ Arg(i, 1) \in w.window[Arg(i, 2)]
      BY <1>3, <2>2, <2>4 DEF Dropped
    <2> QED BY <2>6, <2>7
  <1>5. ASSUME NEW i \in Made("insert"), NEW j \in Made("insert"), i < j, Got(i, "Inserted"),
               Got(j, "Inserted"), Arg(i, 1) = Arg(j, 1)
        PROVE  \E c \in (i + 1)..j : Dropped(Arg(i, 2), i, c, CACHE_WINDOW_EPOCHS)'
    <2>1. PICK c \in (i + 1)..j : Dropped(Arg(i, 2), i, c, CACHE_WINDOW_EPOCHS)
      BY <1>5 DEF ContentInv, ContentOnce
    <2>2. c \in 0..(n - 1)
      BY <1>3, <2>1
    <2>3. Dropped(Arg(i, 2), i, c, CACHE_WINDOW_EPOCHS)'
      BY <1>3, <2>1, <2>2 DEF Dropped
    <2> QED BY <2>3
  <1> QED BY <1>4, <1>5

\* Advancing drops slots and nothing else (advance_epoch).
LEMMA ContentAdvances ==
  ASSUME ContentInv, kind = "gossip_message_cache", kind' = kind, kind \in Kinds, advance_epoch
  PROVE  ContentInv'
  <1>1. PICK e \in Epochs : /\ st' = Windowed(st, e, CACHE_WINDOW_EPOCHS)
                            /\ Return("advance", <<e>>, TRUE)
    BY DEF advance_epoch, Width
  <1>2. PICK n : n = Len(calls) + 1
    OBVIOUS
  <1>3. CacheOK /\ EpochsTold /\ IsSeq(calls) /\ e \in Nat /\ CACHE_WINDOW_EPOCHS \in Nat
    BY Inputs, MessageAssumption DEF ContentInv, CacheOK, EpochsTold
  <1>4. /\ Made("insert")' = Made("insert")
        /\ \A i \in Made("insert") : Arg(i, 1)' = Arg(i, 1) /\ Arg(i, 2)' = Arg(i, 2)
        /\ \A i \in Made("insert") : Got(i, "Inserted")' <=> Got(i, "Inserted")
    <2>1. "insert" # "advance"
      OBVIOUS
    <2>2. /\ Made("insert")' = Made("insert")
          /\ \A i \in Made("insert") : \A k : Arg(i, k)' = Arg(i, k)
      BY <1>1, <1>3, <2>1, OtherCall
    <2>3. \A i \in Made("insert") : \A r : Got(i, r)' <=> Got(i, r)
      BY <1>1, <1>3, <2>1, OtherCall
    <2> QED BY <2>2, <2>3
  <1>5. PICK w : w = st'
    OBVIOUS
  <1>6. /\ w = [epoch |-> w.epoch, window |-> w.window]
        /\ w.epoch = (IF e > st.epoch THEN e ELSE st.epoch)
        /\ DOMAIN w.window \subseteq DOMAIN st.window
        /\ \A x \in DOMAIN w.window : w.window[x] = st.window[x]
    BY <1>1, <1>3, <1>5, WindowMoves
  <1>7. /\ \A i \in 0..(n - 1) : ReachedBy(i)' = ReachedBy(i)
        /\ ReachedBy(n)' = w.epoch /\ EpochsTold'
    <2>1. PICK a : a = <<e>>
      OBVIOUS
    <2>2. /\ Return("advance", a, TRUE) /\ EpochsTold /\ n = Len(calls) + 1
          /\ NamedBy("advance", a) \in Nat
          /\ Reached("advance", a) = w.epoch /\ st'.epoch = w.epoch
      BY <1>1, <1>2, <1>3, <1>5, <1>6, <2>1 DEF NamedBy, Reached
    <2> QED BY <2>2, EpochStep
  <1>8. CacheOK'
    BY <1>3, <1>5, <1>6, <1>7 DEF CacheOK
  <1>9. /\ \A i \in Made("insert") : Got(i, "Inserted") => ContentKept(i)'
        /\ \A i, j \in Made("insert") :
             (i < j /\ Got(i, "Inserted") /\ Got(j, "Inserted") /\ Arg(i, 1) = Arg(j, 1)) =>
                \E c \in (i + 1)..j : Dropped(Arg(i, 2), i, c, CACHE_WINDOW_EPOCHS)'
    BY <1>1, <1>2, <1>3, <1>5, <1>7, ContentStays
  <1>10. ContentOnce'
    BY <1>4, <1>9 DEF ContentOnce, Dropped
  <1> QED BY <1>4, <1>8, <1>9, <1>10 DEF ContentInv

\* Content is put into its slot only if no slot of the window has it
\* (cache_insert).
LEMMA ContentInserts ==
  ASSUME ContentInv, kind = "gossip_message_cache", kind' = kind, kind \in Kinds, cache_insert
  PROVE  ContentInv'
  <1>1. PICK m \in Ids, e \in Epochs :
          LET s == Windowed(st, e, CACHE_WINDOW_EPOCHS)
              decision == CacheDecision(s.window, m, e)
              slot == Get(s.window, e, {})
          IN  /\ st' = CASE decision = "Inserted" -> [s EXCEPT !.window = Put(@, e, slot \cup {m})]
                         [] decision = "EpochFull" -> [s EXCEPT !.window = Put(@, e, slot)]
                         [] OTHER -> s
              /\ Return("insert", <<m, e>>, decision)
    BY DEF cache_insert
  <1>2. PICK n : n = Len(calls) + 1
    OBVIOUS
  <1>3. PICK w : w = Windowed(st, e, CACHE_WINDOW_EPOCHS)
    OBVIOUS
  <1>4. PICK slot, decision, a : /\ slot = Get(w.window, e, {})
                                 /\ decision = CacheDecision(w.window, m, e) /\ a = <<m, e>>
    OBVIOUS
  <1>5. /\ st' = CASE decision = "Inserted" -> [w EXCEPT !.window = Put(w.window, e, slot \cup {m})]
                   [] decision = "EpochFull" -> [w EXCEPT !.window = Put(w.window, e, slot)]
                   [] OTHER -> w
        /\ Return("insert", a, decision)
    BY <1>1, <1>3, <1>4
  <1>6. a[1] = m /\ a[2] = e /\ e \in Nat
    BY <1>4, Inputs
  <1>7. CacheOK /\ EpochsTold /\ IsSeq(calls) /\ CACHE_WINDOW_EPOCHS \in Nat
    BY MessageAssumption DEF ContentInv, CacheOK, EpochsTold
  <1>8. /\ w = [epoch |-> w.epoch, window |-> w.window] /\ st.epoch \in Nat
        /\ w.epoch = (IF e > st.epoch THEN e ELSE st.epoch)
        /\ DOMAIN w.window \subseteq DOMAIN st.window
        /\ \A x \in DOMAIN w.window : w.window[x] = st.window[x]
    BY <1>3, <1>6, <1>7, WindowMoves
  <1>9. decision = "Inserted" => ~\E x \in DOMAIN w.window : m \in w.window[x]
    BY <1>4 DEF CacheDecision
  <1>10. PICK kept : kept = IF decision = "Inserted" THEN slot \cup {m} ELSE slot
    OBVIOUS
  <1>11. \/ st' = w /\ decision # "Inserted"
         \/ st' = [epoch |-> w.epoch, window |-> Put(w.window, e, kept)]
    BY <1>5, <1>8, <1>10
  <1>12. /\ st' = [epoch |-> w.epoch, window |-> st'.window] /\ st'.epoch = w.epoch
         /\ DOMAIN st'.window \subseteq DOMAIN w.window \cup {e}
         /\ \A x \in DOMAIN w.window : x \in DOMAIN st'.window /\ w.window[x] \subseteq st'.window[x]
         /\ decision = "Inserted" => e \in DOMAIN st'.window /\ m \in st'.window[e]
    <2>1. CASE st' = w /\ decision # "Inserted"
      BY <1>8, <2>1
    <2>2. CASE st' = [epoch |-> w.epoch, window |-> Put(w.window, e, kept)]
      <3>1. st'.epoch = w.epoch /\ st'.window = Put(w.window, e, kept)
        BY <2>2
      <3>2. /\ DOMAIN st'.window = DOMAIN w.window \cup {e} /\ st'.window[e] = kept
            /\ \A x \in DOMAIN w.window : x # e => st'.window[x] = w.window[x]
        BY <3>1 DEF Put
      <3>3. slot = IF e \in DOMAIN w.window THEN w.window[e] ELSE {}
        BY <1>4 DEF Get
      <3>4. slot \subseteq kept /\ (decision = "Inserted" => m \in kept)
        BY <1>10
      <3> QED BY <2>2, <3>1, <3>2, <3>3, <3>4
    <2> QED BY <1>11, <2>1, <2>2
  <1>13. /\ n \in Nat \ {0} /\ Len(calls) = n - 1 /\ Len(calls') = n
         /\ Made("insert") \subseteq 1..(n - 1) /\ Made("insert")' = Made("insert") \cup {n}
         /\ \A i \in 1..(n - 1) : \A k : Arg(i, k)' = Arg(i, k)
         /\ \A i \in 1..(n - 1) : \A r : Got(i, r)' <=> Got(i, r)
         /\ \A k : Arg(n, k)' = a[k]
         /\ \A x : Got(n, x)' <=> decision = x
    BY <1>2, <1>5, <1>7, NewCall
  <1>14. /\ \A i \in 0..(n - 1) : ReachedBy(i)' = ReachedBy(i)
         /\ ReachedBy(n)' = w.epoch /\ EpochsTold'
    <2>1. /\ NamedBy("insert", a) = e /\ Reached("insert", a) = w.epoch /\ e \in Nat
          /\ EpochsTold /\ n = Len(calls) + 1 /\ st'.epoch = w.epoch
          /\ Return("insert", a, decision)
      BY <1>2, <1>5, <1>6, <1>7, <1>8, <1>12 DEF NamedBy, Reached, EpochField
    <2> QED BY <2>1, EpochStep
  <1>15. CacheOK'
    <2>1. DOMAIN st'.window \subseteq Nat
      BY <1>6, <1>7, <1>8, <1>12 DEF CacheOK
    <2> QED BY <1>12, <1>14, <2>1 DEF CacheOK
  <1>16. /\ \A i \in Made("insert") : Got(i, "Inserted") =>
              /\ ContentKept(i)'
              /\ \/ \E c \in (i + 1)..n : Dropped(Arg(i, 2), i, c, CACHE_WINDOW_EPOCHS)'
                 \/ Arg(i, 2) \in DOMAIN w.window /\ Arg(i, 1) \in w.window[Arg(i, 2)]
         /\ \A i, j \in Made("insert") :
              (i < j /\ Got(i, "Inserted") /\ Got(j, "Inserted") /\ Arg(i, 1) = Arg(j, 1)) =>
                 \E c \in (i + 1)..j : Dropped(Arg(i, 2), i, c, CACHE_WINDOW_EPOCHS)'
    <2>1. ASSUME NEW x \in DOMAIN w.window
          PROVE  x \in DOMAIN st'.window /\ w.window[x] \subseteq st'.window[x]
      BY <1>12
    <2>2. Return("insert", a, decision)
      BY <1>5
    <2> QED BY <1>2, <1>3, <1>6, <1>14, <2>1, <2>2, ContentStays
  <1>17. Arg(n, 1)' = m /\ Arg(n, 2)' = e /\ (Got(n, "Inserted")' <=> decision = "Inserted")
    BY <1>6, <1>13
  <1>18. ASSUME NEW i \in Made("insert")', Got(i, "Inserted")' PROVE ContentKept(i)'
    <2>1. CASE i = n
      BY <1>12, <1>17, <1>18, <2>1 DEF ContentKept
    <2>2. CASE i # n
      <3>1. i \in Made("insert") /\ i \in 1..(n - 1)
        BY <1>13, <2>2
      <3>2. Got(i, "Inserted")
        BY <1>13, <1>18, <3>1
      <3> QED BY <1>16, <3>1, <3>2
    <2> QED BY <2>1, <2>2
  <1>19. ASSUME NEW i \in Made("insert")', NEW j \in Made("insert")', i < j,
                Got(i, "Inserted")', Got(j, "Inserted")', Arg(i, 1)' = Arg(j, 1)'
         PROVE  \E c \in (i + 1)..j : Dropped(Arg(i, 2), i, c, CACHE_WINDOW_EPOCHS)'
    <2>1. i \in 1..n /\ j \in 1..n
      BY <1>13
    <2>2. i \in Made("insert") /\ i \in 1..(n - 1)
      BY <1>13, <1>19, <2>1
    <2>3. Got(i, "Inserted") /\ Arg(i, 1)' = Arg(i, 1)
      BY <1>13, <1>19, <2>2
    <2>4. CASE j = n
      <3>1. decision = "Inserted" /\ Arg(i, 1) = m
        BY <1>17, <1>19, <2>3, <2>4
      <3>2. ~(Arg(i, 2) \in DOMAIN w.window /\ Arg(i, 1) \in w.window[Arg(i, 2)])
        BY <1>9, <3>1
      <3> QED BY <1>16, <2>2, <2>3, <2>4, <3>2
    <2>5. CASE j # n
      <3>1. j \in Made("insert") /\ j \in 1..(n - 1)
        BY <1>13, <2>5
      <3>2. Got(j, "Inserted") /\ Arg(j, 1)' = Arg(j, 1)
        BY <1>13, <1>19, <3>1
      <3> QED BY <1>16, <1>19, <2>2, <2>3, <3>1, <3>2
    <2> QED BY <2>4, <2>5
  <1>20. ContentOnce'
    BY <1>19 DEF ContentOnce, Dropped
  <1> QED BY <1>15, <1>18, <1>20 DEF ContentInv

-----------------------------------------------------------------------------
(* The sequence tracker (message_sequence_tracker.rs). *)

\* What became of a number that was in order: its peer was reset since, or a
\* later one is expected of it.
NumberPassed(i) ==
    \/ \E c \in (i + 1)..Len(calls) : Got(c, "Reset") /\ Arg(c, 1) = Arg(i, 1)
    \/ Arg(i, 1) \in DOMAIN st /\ st[Arg(i, 1)] > Arg(i, 2)

SequenceInv ==
    kind = "message_sequence_tracker" =>
      /\ IsSeq(calls) /\ \A p \in DOMAIN st : st[p] \in Nat
      /\ \A i \in Made("observe") : Got(i, "InOrder") => Arg(i, 2) \in Nat /\ NumberPassed(i)
      /\ SequenceOnce

\* Only a reset takes back the number expected of a peer (observe_sequence).
LEMMA SequenceObserves ==
  ASSUME SequenceInv, kind = "message_sequence_tracker", kind' = kind, kind \in Kinds,
         observe_sequence
  PROVE  SequenceInv'
  <1>1. PICK p \in Peers, sequence \in {0} \cup Ids :
          LET expected == Get(st, p, 0)
              event == SequenceEvent(sequence, expected)
          IN  \/ Return("observe", <<p, sequence>>, "TooManyPeers") /\ UNCHANGED st
              \/ /\ st' = IF event = "Duplicate" THEN st ELSE Put(st, p, sequence + 1)
                 /\ Return("observe", <<p, sequence>>, event)
    BY DEF observe_sequence
  <1>2. PICK n : n = Len(calls) + 1
    OBVIOUS
  <1>3. PICK expected, a : expected = Get(st, p, 0) /\ a = <<p, sequence>>
    OBVIOUS
  <1>4. a[1] = p /\ a[2] = sequence /\ sequence \in Nat
    BY <1>3, Inputs
  <1>5. expected \in Nat /\ expected = (IF p \in DOMAIN st THEN st[p] ELSE 0)
    BY <1>3 DEF SequenceInv, Get
  <1>6. PICK event : /\ Return("observe", a, event)
                     /\ \/ event = "TooManyPeers" /\ st' = st
                        \/ /\ event = SequenceEvent(sequence, expected)
                           /\ st' = IF event = "Duplicate" THEN st ELSE Put(st, p, sequence + 1)
    BY <1>1, <1>3
  <1>7. /\ event = "InOrder" => sequence = expected
        /\ st' # st => \/ event = "Reset"
                       \/ event \in {"InOrder", "Gap"} /\ sequence >= expected
    BY <1>4, <1>5, <1>6 DEF SequenceEvent
  <1>8. /\ st' = st \/ st' = Put(st, p, sequence + 1)
        /\ event = "InOrder" => st' = Put(st, p, sequence + 1)
    BY <1>6
  <1>9. /\ n \in Nat \ {0} /\ Len(calls) = n - 1 /\ Len(calls') = n /\ IsSeq(calls')
        /\ Made("observe") \subseteq 1..(n - 1) /\ Made("observe")' = Made("observe") \cup {n}
        /\ \A i \in 1..(n - 1) : \A k : Arg(i, k)' = Arg(i, k)
        /\ \A i \in 1..(n - 1) : \A r : Got(i, r)' <=> Got(i, r)
        /\ \A i \in 1..(n - 1) : calls'[i] = calls[i]
        /\ \A k : Arg(n, k)' = a[k]
        /\ \A x : Got(n, x)' <=> event = x
        /\ calls'[n].args = a
    <2>1. IsSeq(calls)
      BY DEF SequenceInv
    <2> QED BY <1>2, <1>6, <2>1, NewCall
  <1>10. /\ Arg(n, 1)' = p /\ Arg(n, 2)' = sequence
         /\ (Got(n, "InOrder")' <=> event = "InOrder") /\ (Got(n, "Reset")' <=> event = "Reset")
    BY <1>4, <1>9
  <1>11. \A q \in DOMAIN st' : st'[q] \in Nat
    BY <1>4, <1>8 DEF SequenceInv, Put
  <1>12. ASSUME NEW i \in Made("observe"), Got(i, "InOrder")
         PROVE  /\ i \in 1..(n - 1) /\ Arg(i, 2)' \in Nat /\ NumberPassed(i)'
                /\ event = "InOrder" /\ calls[i].args = a =>
                     \E c \in (i + 1)..(n - 1) : Got(c, "Reset") /\ Arg(c, 1) = Arg(i, 1)
    <2>1. i \in 1..(n - 1) /\ Arg(i, 1)' = Arg(i, 1) /\ Arg(i, 2)' = Arg(i, 2)
      BY <1>9
    <2>2. Arg(i, 2) \in Nat /\ NumberPassed(i)
      BY <1>12 DEF SequenceInv
    <2>3. CASE \E c \in (i + 1)..(n - 1) : Got(c, "Reset") /\ Arg(c, 1) = Arg(i, 1)
      <3>1. PICK c \in (i + 1)..(n - 1) : Got(c, "Reset") /\ Arg(c, 1) = Arg(i, 1)
        BY <2>3
      <3>2. c \in (i + 1)..n /\ c \in 1..(n - 1)
        BY <1>9, <2>1
      <3>3. Got(c, "Reset")' /\ Arg(c, 1)' = Arg(i, 1)'
        BY <1>9, <2>1, <3>1, <3>2
      <3>4. NumberPassed(i)'
        BY <1>9, <3>2, <3>3 DEF NumberPassed
      <3> QED BY <2>1, <2>2, <2>3, <3>4
    <2>4. CASE Arg(i, 1) \in DOMAIN st /\ st[Arg(i, 1)] > Arg(i, 2)
      <3>1. ~(event = "InOrder" /\ calls[i].args = a)
        <4>1. ASSUME event = "InOrder", calls[i].args = a PROVE FALSE
          <5>1. Arg(i, 1) = p /\ Arg(i, 2) = sequence
            BY <1>4, <4>1 DEF Arg
          <5> QED BY <1>4, <1>5, <1>7, <2>4, <4>1, <5>1
        <4> QED BY <4>1
      <3>2. NumberPassed(i)'
        <4>1. CASE event = "Reset" /\ Arg(i, 1) = p
          <5>1. n \in (i + 1)..n /\ Got(n, "Reset")' /\ Arg(n, 1)' = Arg(i, 1)'
            BY <1>9, <1>10, <2>1, <4>1
          <5> QED BY <1>9, <5>1 DEF NumberPassed
        <4>2. CASE ~(event = "Reset" /\ Arg(i, 1) = p)
          <5>1. Arg(i, 1) \in DOMAIN st' /\ st'[Arg(i, 1)] > Arg(i, 2)
            BY <1>4, <1>5, <1>7, <1>8, <2>2, <2>4, <4>2 DEF Put
          <5> QED BY <2>1, <5>1 DEF NumberPassed
        <4> QED BY <4>1, <4>2
      <3> QED BY <2>1, <2>2, <3>1, <3>2
    <2> QED BY <1>9, <2>2, <2>3, <2>4 DEF NumberPassed
  <1>13. ASSUME NEW i \in Made("observe")', Got(i, "InOrder")'
         PROVE  Arg(i, 2)' \in Nat /\ NumberPassed(i)'
    <2>1. CASE i = n
      <3>1. p \in DOMAIN st' /\ st'[p] > sequence
        BY <1>4, <1>8, <1>10, <1>13, <2>1 DEF Put
      <3> QED BY <1>4, <1>10, <2>1, <3>1 DEF NumberPassed
    <2>2. CASE i # n
      <3>1. i \in Made("observe") /\ i \in 1..(n - 1)
        BY <1>9, <2>2
      <3>2. Got(i, "InOrder")
        BY <1>9, <1>13, <3>1
      <3> QED BY <1>12, <3>1, <3>2
    <2> QED BY <2>1, <2>2
  <1>14. ASSUME NEW i \in Made("observe")', NEW j \in Made("observe")', i < j,
                Got(i, "InOrder")', Got(j, "InOrder")', calls'[i].args = calls'[j].args
         PROVE  \E c \in Between(i, j) : Got(c, "Reset")' /\ Arg(c, 1)' = Arg(i, 1)'
    <2>1. i \in 1..n /\ j \in 1..n
      BY <1>9
    <2>2. i \in Made("observe") /\ i \in 1..(n - 1)
      BY <1>9, <1>14, <2>1
    <2>3. Got(i, "InOrder") /\ calls'[i] = calls[i]
      BY <1>9, <1>14, <2>2
    <2>4. \E c \in Between(i, j) : Got(c, "Reset") /\ Arg(c, 1) = Arg(i, 1)
      <3>1. CASE j = n
        <4>1. calls[i].args = a /\ event = "InOrder"
          BY <1>9, <1>10, <1>14, <2>3, <3>1
        <4> QED BY <1>12, <2>2, <2>3, <3>1, <4>1 DEF Between
      <3>2. CASE j # n
        <4>1. j \in Made("observe") /\ j \in 1..(n - 1)
          BY <1>9, <3>2
        <4>2. Got(j, "InOrder") /\ calls'[j] = calls[j]
          BY <1>9, <1>14, <4>1
        <4> QED BY <1>14, <2>2, <2>3, <4>1, <4>2 DEF SequenceInv, SequenceOnce
      <3> QED BY <3>1, <3>2
    <2>5. PICK c \in Between(i, j) : Got(c, "Reset") /\ Arg(c, 1) = Arg(i, 1)
      BY <2>4
    <2>6. c \in 1..(n - 1)
      BY <1>9, <2>1, <2>5 DEF Between
    <2> QED BY <1>9, <2>2, <2>5, <2>6
  <1>15. SequenceOnce'
    BY <1>14 DEF SequenceOnce, Between
  <1> QED BY <1>9, <1>11, <1>13, <1>15 DEF SequenceInv

-----------------------------------------------------------------------------
(* The duplicate cache (dedup_cache.rs). *)

\* The calls that found a message new.
NewOnes == { i \in Made("insert") : Got(i, "New") }

\* A call that took the cache past the epochs that remember a message.
PassedBy(i, c) == /\ c \in Made("advance") /\ c > i /\ Arg(c, 1) \in Nat
                  /\ Arg(c, 1) > Arg(i, 3) + DEFAULT_MAX_EPOCH_LAG

\* What became of a message that was new: it is remembered with its epoch, or
\* the cache was taken past it and has not gone back.
MessageKept(i) ==
    \/ /\ <<Arg(i, 1), Arg(i, 2)>> \in DOMAIN st.entries
       /\ st.entries[<<Arg(i, 1), Arg(i, 2)>>] = Arg(i, 3)
    \/ \E c \in 1..Len(calls) : PassedBy(i, c) /\ Arg(c, 1) <= st.current

RememberInv ==
    kind = "dedup_cache" =>
      /\ IsSeq(calls) /\ st = [current |-> st.current, entries |-> st.entries]
      /\ st.current \in Nat
      /\ \A k \in DOMAIN st.entries : \E i \in NewOnes : k = <<Arg(i, 1), Arg(i, 2)>>
      /\ \A i \in NewOnes : Arg(i, 3) \in Nat /\ MessageKept(i)
      /\ DuplicatesRemembered

\* A message is new only if it is not remembered, and its epoch is one the
\* cache still takes (check_and_insert).
LEMMA RememberInserts ==
  ASSUME RememberInv, kind = "dedup_cache", kind' = kind, kind \in Kinds, check_and_insert
  PROVE  RememberInv'
  <1>1. PICK p \in Peers, m \in Ids, e \in Epochs :
          LET result ==
                CASE e + DEFAULT_MAX_EPOCH_LAG < st.current -> "EpochTooOld"
                  [] e > st.current + 1 -> "EpochTooFuture"
                  [] OTHER -> IF <<p, m>> \in DOMAIN st.entries THEN "Duplicate" ELSE "New"
          IN  /\ st' = IF result = "New" THEN [st EXCEPT !.entries = Put(@, <<p, m>>, e)] ELSE st
              /\ Return("insert", <<p, m, e>>, result)
    BY DEF check_and_insert
  <1>2. PICK n : n = Len(calls) + 1
    OBVIOUS
  <1>3. PICK a, key : a = <<p, m, e>> /\ key = <<p, m>>
    OBVIOUS
  <1>4. a[1] = p /\ a[2] = m /\ a[3] = e /\ e \in Nat
    BY <1>3, Inputs
  <1>5. PICK result : /\ Return("insert", a, result)
                      /\ result = "New" => /\ ~(e + DEFAULT_MAX_EPOCH_LAG < st.current)
                                           /\ key \notin DOMAIN st.entries
                      /\ result = "Duplicate" => key \in DOMAIN st.entries
                      /\ st' = IF result = "New" THEN [st EXCEPT !.entries = Put(@, key, e)] ELSE st
    <2>1. PICK result : result =
            CASE e + DEFAULT_MAX_EPOCH_LAG < st.current -> "EpochTooOld"
              [] e > st.current + 1 -> "EpochTooFuture"
              [] OTHER -> IF key \in DOMAIN st.entries THEN "Duplicate" ELSE "New"
      OBVIOUS
    <2>2. /\ Return("insert", a, result)
          /\ st' = IF result = "New" THEN [st EXCEPT !.entries = Put(@, key, e)] ELSE st
      BY <1>1, <1>3, <2>1
    <2>3. /\ result = "New" => /\ ~(e + DEFAULT_MAX_EPOCH_LAG < st.current)
                               /\ key \notin DOMAIN st.entries
          /\ result = "Duplicate" => key \in DOMAIN st.entries
      BY <2>1
    <2> QED BY <2>2, <2>3
  <1>6. /\ IsSeq(calls) /\ st = [current |-> st.current, entries |-> st.entries]
        /\ st.current \in Nat /\ DEFAULT_MAX_EPOCH_LAG \in Nat
    BY MeshAssumption DEF RememberInv
  <1>7. /\ st' = [current |-> st.current, entries |-> st'.entries] /\ st'.current = st.current
        /\ st'.entries = IF result = "New" THEN Put(st.entries, key, e) ELSE st.entries
    BY <1>5, <1>6
  <1>8. /\ result = "New" => /\ DOMAIN st'.entries = DOMAIN st.entries \cup {key}
                             /\ st'.entries[key] = e
        /\ \A k \in DOMAIN st.entries : k \in DOMAIN st'.entries /\ st'.entries[k] = st.entries[k]
        /\ result # "New" => st'.entries = st.entries
    BY <1>5, <1>7 DEF Put
  <1>9. /\ n \in Nat \ {0} /\ Len(calls) = n - 1 /\ Len(calls') = n /\ IsSeq(calls')
        /\ Made("insert") \subseteq 1..(n - 1) /\ Made("insert")' = Made("insert") \cup {n}
        /\ Made("advance") \subseteq 1..(n - 1) /\ Made("advance")' = Made("advance")
        /\ \A i \in 1..(n - 1) : \A k : Arg(i, k)' = Arg(i, k)
        /\ \A i \in 1..(n - 1) : \A r : Got(i, r)' <=> Got(i, r)
        /\ \A k : Arg(n, k)' = a[k]
        /\ \A x : Got(n, x)' <=> result = x
    BY <1>2, <1>5, <1>6, NewCall
  <1>10. /\ Arg(n, 1)' = p /\ Arg(n, 2)' = m /\ Arg(n, 3)' = e
         /\ (Got(n, "New")' <=> result = "New") /\ (Got(n, "Duplicate")' <=> result = "Duplicate")
    BY <1>4, <1>9
  <1>11. ASSUME NEW i \in NewOnes
         PROVE  /\ i \in Made("insert") /\ i \in 1..(n - 1) /\ i \in NewOnes'
                /\ Arg(i, 1)' = Arg(i, 1) /\ Arg(i, 2)' = Arg(i, 2) /\ Arg(i, 3)' = Arg(i, 3)
                /\ Arg(i, 3) \in Nat /\ MessageKept(i)
    <2>1. i \in Made("insert") /\ Got(i, "New") /\ i \in 1..(n - 1)
      BY <1>9 DEF NewOnes
    <2>2. Got(i, "New")' <=> Got(i, "New")
      BY <1>9, <2>1
    <2>3. Arg(i, 3) \in Nat /\ MessageKept(i)
      BY DEF RememberInv
    <2> QED BY <1>9, <2>1, <2>2, <2>3 DEF NewOnes
  <1>12. ASSUME NEW i \in NewOnes' PROVE (i = n /\ result = "New") \/ i \in NewOnes
    <2>1. CASE i = n
      BY <1>10, <2>1 DEF NewOnes
    <2>2. CASE i # n
      <3>1. i \in Made("insert") /\ i \in 1..(n - 1) /\ Got(i, "New")'
        BY <1>9, <2>2 DEF NewOnes
      <3>2. Got(i, "New")
        BY <1>9, <3>1
      <3> QED BY <3>1, <3>2 DEF NewOnes
    <2> QED BY <2>1, <2>2
  <1>13. ASSUME NEW i, NEW c, i \in NewOnes, PassedBy(i, c)
         PROVE  PassedBy(i, c)' /\ c \in 1..(n - 1) /\ Arg(c, 1)' = Arg(c, 1) /\ c > i
    <2>1. c \in Made("advance") /\ c \in 1..(n - 1) /\ c > i
      BY <1>9, <1>13 DEF PassedBy
    <2>2. Arg(c, 1)' = Arg(c, 1) /\ Arg(i, 3)' = Arg(i, 3)
      BY <1>9, <1>11, <1>13, <2>1
    <2> QED BY <1>9, <1>13, <2>1, <2>2 DEF PassedBy
  <1>14. ASSUME NEW i \in NewOnes
         PROVE  /\ MessageKept(i)'
                /\ result = "New" /\ <<Arg(i, 1), Arg(i, 2)>> = key =>
                     /\ e > Arg(i, 3)
                     /\ \E c \in Between(i, n) : c \in Made("advance") /\ PassedBy(i, c)'
    <2>1. PICK k : k = <<Arg(i, 1), Arg(i, 2)>>
      OBVIOUS
    <2>2. k = <<Arg(i, 1)', Arg(i, 2)'>> /\ MessageKept(i)
      BY <1>11, <2>1
    <2>3. CASE k \in DOMAIN st.entries /\ st.entries[k] = Arg(i, 3)
      <3>1. k \in DOMAIN st'.entries /\ st'.entries[k] = Arg(i, 3)'
        BY <1>8, <1>11, <2>3
      <3>2. MessageKept(i)'
        BY <2>2, <3>1 DEF MessageKept
      <3>3. ~(result = "New" /\ k = key)
        BY <1>5, <2>3
      <3> QED BY <2>1, <3>2, <3>3
    <2>4. CASE \E c \in 1..(n - 1) : PassedBy(i, c) /\ Arg(c, 1) <= st.current
      <3>1. PICK c \in 1..(n - 1) : PassedBy(i, c) /\ Arg(c, 1) <= st.current
        BY <2>4
      <3>2. PassedBy(i, c)' /\ Arg(c, 1)' = Arg(c, 1) /\ c > i
        BY <1>13, <3>1
      <3>3. c \in 1..n /\ c \in Between(i, n)
        BY <1>9, <1>11, <3>2 DEF Between
      <3>4. MessageKept(i)'
        BY <1>7, <1>9, <3>1, <3>2, <3>3 DEF MessageKept
      <3>5. ASSUME result = "New" PROVE e > Arg(i, 3)
        <4>1. ~(e + DEFAULT_MAX_EPOCH_LAG < st.current)
          BY <1>5, <3>5
        <4>2. PICK x, y : x = Arg(c, 1) /\ y = Arg(i, 3) /\ x \in Nat /\ y \in Nat
                          /\ x > y + DEFAULT_MAX_EPOCH_LAG /\ x <= st.current
          BY <1>11, <3>1 DEF PassedBy
        <4>3. e > y
          BY <1>4, <1>6, <4>1, <4>2
        <4> QED BY <4>2, <4>3
      <3>6. c \in Made("advance")
        BY <3>1 DEF PassedBy
      <3> QED BY <3>2, <3>3, <3>4, <3>5, <3>6
    <2> QED BY <1>9, <2>1, <2>2, <2>3, <2>4 DEF MessageKept
  <1>15. ASSUME NEW i \in NewOnes' PROVE Arg(i, 3)' \in Nat /\ MessageKept(i)'
    <2>1. CASE i = n /\ result = "New"
      <3>1. key = <<Arg(i, 1)', Arg(i, 2)'>> /\ key \in DOMAIN st'.entries /\ st'.entries[key] = e
        BY <1>3, <1>8, <1>10, <2>1
      <3> QED BY <1>4, <1>10, <2>1, <3>1 DEF MessageKept
    <2>2. CASE i \in NewOnes
      BY <1>11, <1>14, <2>2
    <2> QED BY <1>12, <2>1, <2>2
  <1>16. ASSUME NEW k \in DOMAIN st'.entries PROVE \E i \in NewOnes' : k = <<Arg(i, 1)', Arg(i, 2)'>>
    <2>1. CASE k \in DOMAIN st.entries
      <3>1. PICK i \in NewOnes : k = <<Arg(i, 1), Arg(i, 2)>>
        BY <2>1 DEF RememberInv
      <3>2. i \in NewOnes' /\ k = <<Arg(i, 1)', Arg(i, 2)'>>
        BY <1>11, <3>1
      <3> QED BY <3>2
    <2>2. CASE k \notin DOMAIN st.entries
      <3>1. result = "New" /\ k = key
        BY <1>8, <2>2
      <3>2. n \in NewOnes' /\ k = <<Arg(n, 1)', Arg(n, 2)'>>
        BY <1>3, <1>9, <1>10, <3>1 DEF NewOnes
      <3> QED BY <3>2
    <2> QED BY <2>1, <2>2
  <1>17. ASSUME NEW i \in NewOnes', NEW j \in NewOnes', i < j, Arg(i, 1)' = Arg(j, 1)',
                Arg(i, 2)' = Arg(j, 2)'
         PROVE  /\ Arg(j, 3)' > Arg(i, 3)'
                /\ \E c \in Between(i, j) \cap Made("advance")' :
                     Arg(c, 1)' > Arg(i, 3)' + DEFAULT_MAX_EPOCH_LAG
    <2>1. i \in NewOnes
      <3>1. j \in 1..n /\ i \in 1..n
        BY <1>9 DEF NewOnes
      <3> QED BY <1>9, <1>12, <1>17, <3>1
    <2>2. CASE j = n /\ result = "New"
      <3>1. <<Arg(i, 1), Arg(i, 2)>> = key
        BY <1>3, <1>10, <1>11, <1>17, <2>1, <2>2
      <3>2. e > Arg(i, 3) /\ \E c \in Between(i, n) : c \in Made("advance") /\ PassedBy(i, c)'
        BY <1>14, <2>1, <2>2, <3>1
      <3>3. PICK c \in Between(i, n) : c \in Made("advance") /\ PassedBy(i, c)'
        BY <3>2
      <3>4. Arg(c, 1)' > Arg(i, 3)' + DEFAULT_MAX_EPOCH_LAG
        BY <3>3 DEF PassedBy
      <3>5. Arg(j, 3)' > Arg(i, 3)'
        BY <1>10, <1>11, <2>1, <2>2, <3>2
      <3> QED BY <1>9, <2>2, <3>3, <3>4, <3>5
    <2>3. CASE j \in NewOnes
      <3>1. Arg(i, 1) = Arg(j, 1) /\ Arg(i, 2) = Arg(j, 2)
        BY <1>11, <1>17, <2>1, <2>3
      <3>2. /\ Arg(j, 3) > Arg(i, 3)
            /\ \E c \in Between(i, j) \cap Made("advance") :
                 Arg(c, 1) > Arg(i, 3) + DEFAULT_MAX_EPOCH_LAG
        BY <1>17, <2>1, <2>3, <3>1 DEF RememberInv, DuplicatesRemembered, NewOnes
      <3>3. PICK c \in Between(i, j) \cap Made("advance") :
              Arg(c, 1) > Arg(i, 3) + DEFAULT_MAX_EPOCH_LAG
        BY <3>2
      <3>4. Arg(c, 1)' = Arg(c, 1) /\ c \in Made("advance")'
        BY <1>9, <3>3
      <3>5. Arg(j, 3)' = Arg(j, 3) /\ Arg(i, 3)' = Arg(i, 3)
        BY <1>11, <2>1, <2>3
      <3> QED BY <3>2, <3>3, <3>4, <3>5
    <2> QED BY <1>12, <2>2, <2>3
  <1>18. ASSUME NEW j \in Made("insert")', Got(j, "Duplicate")'
         PROVE  \E i \in NewOnes' : i < j /\ Arg(i, 1)' = Arg(j, 1)' /\ Arg(i, 2)' = Arg(j, 2)'
    <2>1. CASE j = n
      <3>1. key \in DOMAIN st.entries
        BY <1>5, <1>10, <1>18, <2>1
      <3>2. PICK i \in NewOnes : key = <<Arg(i, 1), Arg(i, 2)>>
        BY <3>1 DEF RememberInv
      <3>3. i \in NewOnes' /\ i \in 1..(n - 1) /\ Arg(i, 1)' = p /\ Arg(i, 2)' = m
        BY <1>3, <1>11, <3>2
      <3>4. i < n
        BY <1>9, <3>3
      <3> QED BY <1>10, <2>1, <3>3, <3>4
    <2>2. CASE j # n
      <3>1. j \in Made("insert") /\ j \in 1..(n - 1)
        BY <1>9, <2>2
      <3>2. Got(j, "Duplicate") /\ Arg(j, 1)' = Arg(j, 1) /\ Arg(j, 2)' = Arg(j, 2)
        BY <1>9, <1>18, <3>1
      <3>3. PICK i \in NewOnes : i < j /\ Arg(i, 1) = Arg(j, 1) /\ Arg(i, 2) = Arg(j, 2)
        BY <3>1, <3>2 DEF RememberInv, DuplicatesRemembered, NewOnes
      <3> QED BY <1>11, <3>2, <3>3
    <2> QED BY <2>1, <2>2
  <1>19. DuplicatesRemembered'
    BY <1>17, <1>18 DEF DuplicatesRemembered, NewOnes, Between
  <1> QED BY <1>6, <1>7, <1>9, <1>15, <1>16, <1>19 DEF RememberInv

\* Advancing forgets what the epochs have left behind, and nothing else
\* (dedup_advance_epoch).
LEMMA RememberAdvances ==
  ASSUME RememberInv, kind = "dedup_cache", kind' = kind, kind \in Kinds, dedup_advance_epoch
  PROVE  RememberInv'
  <1>1. PICK e \in Epochs :
          /\ st' = IF e <= st.current THEN st
                   ELSE [current |-> e, entries |-> evict_stale(st.entries, e)]
          /\ Return("advance", <<e>>, st'.current)
    BY DEF dedup_advance_epoch
  <1>2. PICK n : n = Len(calls) + 1
    OBVIOUS
  <1>3. PICK a, r : a = <<e>> /\ r = st'.current
    OBVIOUS
  <1>4. Return("advance", a, r) /\ a[1] = e /\ e \in Nat
    BY <1>1, <1>3, Inputs
  <1>5. /\ IsSeq(calls) /\ st = [current |-> st.current, entries |-> st.entries]
        /\ st.current \in Nat /\ DEFAULT_MAX_EPOCH_LAG \in Nat
    BY MeshAssumption DEF RememberInv
  <1>6. /\ st' = [current |-> st'.current, entries |-> st'.entries] /\ st'.current \in Nat
        /\ st'.current >= st.current
        /\ DOMAIN st'.entries \subseteq DOMAIN st.entries
        /\ \A k \in DOMAIN st'.entries : st'.entries[k] = st.entries[k]
        /\ \A k \in DOMAIN st.entries : k \notin DOMAIN st'.entries =>
             st.entries[k] + DEFAULT_MAX_EPOCH_LAG < e /\ st'.current = e
    <2>1. CASE e <= st.current
      <3>1. st' = st
        BY <1>1, <2>1
      <3> QED BY <1>5, <3>1
    <2>2. CASE ~(e <= st.current)
      <3>1. st' = [current |-> e, entries |-> evict_stale(st.entries, e)]
        BY <1>1, <2>2
      <3>2. st'.current = e /\ st'.entries = evict_stale(st.entries, e)
        BY <3>1
      <3>3. e >= st.current
        BY <1>4, <1>5, <2>2
      <3>4. /\ DOMAIN st'.entries = DOMAIN st.entries \
                 { k \in DOMAIN st.entries : st.entries[k] + DEFAULT_MAX_EPOCH_LAG < e }
            /\ \A k \in DOMAIN st'.entries : st'.entries[k] = st.entries[k]
        BY <3>2 DEF evict_stale, Dropping
      <3> QED BY <1>4, <3>1, <3>2, <3>3, <3>4
    <2> QED BY <2>1, <2>2
  <1>7. /\ n \in Nat \ {0} /\ Len(calls) = n - 1 /\ Len(calls') = n /\ IsSeq(calls')
        /\ Made("insert") \subseteq 1..(n - 1) /\ Made("insert")' = Made("insert")
        /\ Made("advance") \subseteq 1..(n - 1) /\ Made("advance")' = Made("advance") \cup {n}
        /\ \A i \in 1..(n - 1) : \A k : Arg(i, k)' = Arg(i, k)
        /\ \A i \in 1..(n - 1) : \A x : Got(i, x)' <=> Got(i, x)
        /\ \A k : Arg(n, k)' = a[k]
    BY <1>2, <1>4, <1>5, NewCall
  <1>8. \A i \in Made("insert") : (Got(i, "New")' <=> Got(i, "New"))
                                 /\ (Got(i, "Duplicate")' <=> Got(i, "Duplicate"))
    BY <1>7
  <1>9. NewOnes' = NewOnes
    BY <1>7, <1>8 DEF NewOnes
  <1>10. ASSUME NEW i \in Made("insert")
         PROVE  /\ i \in 1..(n - 1)
                /\ Arg(i, 1)' = Arg(i, 1) /\ Arg(i, 2)' = Arg(i, 2) /\ Arg(i, 3)' = Arg(i, 3)
    BY <1>7
  <1>11. NewOnes \subseteq Made("insert")
    BY DEF NewOnes
  <1>12. ASSUME NEW i \in NewOnes PROVE Arg(i, 3)' \in Nat /\ MessageKept(i)'
    <2>1. Arg(i, 3) \in Nat /\ MessageKept(i) /\ i \in Made("insert")
      BY <1>11 DEF RememberInv
    <2>2. PICK k, y : k = <<Arg(i, 1), Arg(i, 2)>> /\ y = Arg(i, 3) /\ y \in Nat
      BY <2>1
    <2>3. k = <<Arg(i, 1)', Arg(i, 2)'>> /\ y = Arg(i, 3)' /\ i \in 1..(n - 1)
      BY <1>10, <2>1, <2>2
    <2>4. CASE k \in DOMAIN st'.entries /\ st'.entries[k] = y
      BY <2>2, <2>3, <2>4 DEF MessageKept
    <2>5. CASE k \in DOMAIN st.entries /\ st.entries[k] = y /\ k \notin DOMAIN st'.entries
      <3>1. y + DEFAULT_MAX_EPOCH_LAG < e /\ st'.current = e
        BY <1>6, <2>5
      <3>2. Arg(n, 1)' = e /\ n \in Made("advance")' /\ n > i /\ e <= st'.current
        BY <1>4, <1>7, <2>3, <3>1
      <3>3. e > y + DEFAULT_MAX_EPOCH_LAG
        BY <1>4, <1>5, <2>2, <3>1
      <3>4. PassedBy(i, n)' /\ n \in 1..n
        BY <1>4, <1>7, <2>3, <3>2, <3>3 DEF PassedBy
      <3> QED BY <1>7, <2>2, <2>3, <3>2, <3>4 DEF MessageKept
    <2>6. CASE \E c \in 1..(n - 1) : PassedBy(i, c) /\ Arg(c, 1) <= st.current
      <3>1. PICK c \in 1..(n - 1) : PassedBy(i, c) /\ Arg(c, 1) <= st.current
        BY <2>6
      <3>2. Arg(c, 1)' = Arg(c, 1) /\ c \in Made("advance")' /\ c \in 1..n
        BY <1>7, <3>1 DEF PassedBy
      <3>3. Arg(c, 1)' <= st'.current
        BY <1>5, <1>6, <3>1, <3>2 DEF PassedBy
      <3>4. PassedBy(i, c)'
        BY <2>2, <2>3, <3>1, <3>2 DEF PassedBy
      <3> QED BY <1>7, <2>2, <2>3, <3>2, <3>3, <3>4 DEF MessageKept
    <2>7. \/ k \in DOMAIN st.entries /\ st.entries[k] = y
          \/ \E c \in 1..(n - 1) : PassedBy(i, c) /\ Arg(c, 1) <= st.current
      BY <1>7, <2>1, <2>2 DEF MessageKept
    <2> QED BY <1>6, <2>2, <2>3, <2>4, <2>5, <2>6, <2>7
  <1>13. ASSUME NEW k \in DOMAIN st'.entries PROVE \E i \in NewOnes : k = <<Arg(i, 1)', Arg(i, 2)'>>
    <2>1. PICK i \in NewOnes : k = <<Arg(i, 1), Arg(i, 2)>>
      BY <1>6 DEF RememberInv
    <2> QED BY <1>10, <1>11, <2>1
  <1>14. ASSUME NEW i \in NewOnes, NEW j \in NewOnes, i < j, Arg(i, 1)' = Arg(j, 1)',
                Arg(i, 2)' = Arg(j, 2)'
         PROVE  /\ Arg(j, 3)' > Arg(i, 3)'
                /\ \E c \in Between(i, j) \cap Made("advance")' :
                     Arg(c, 1)' > Arg(i, 3)' + DEFAULT_MAX_EPOCH_LAG
    <2>1. /\ Arg(i, 1)' = Arg(i, 1) /\ Arg(i, 2)' = Arg(i, 2) /\ Arg(i, 3)' = Arg(i, 3)
          /\ Arg(j, 1)' = Arg(j, 1) /\ Arg(j, 2)' = Arg(j, 2) /\ Arg(j, 3)' = Arg(j, 3)
      BY <1>10, <1>11
    <2>2. /\ Arg(j, 3) > Arg(i, 3)
          /\ \E c \in Between(i, j) \cap Made("advance") :
               Arg(c, 1) > Arg(i, 3) + DEFAULT_MAX_EPOCH_LAG
      BY <1>14, <2>1 DEF RememberInv, DuplicatesRemembered, NewOnes
    <2>3. PICK c \in Between(i, j) \cap Made("advance") :
            Arg(c, 1) > Arg(i, 3) + DEFAULT_MAX_EPOCH_LAG
      BY <2>2
    <2>4. Arg(c, 1)' = Arg(c, 1) /\ c \in Made("advance")'
      BY <1>7, <2>3
    <2> QED BY <2>1, <2>2, <2>3, <2>4
  <1>15. ASSUME NEW j \in Made("insert"), Got(j, "Duplicate")
         PROVE  \E i \in NewOnes : i < j /\ Arg(i, 1)' = Arg(j, 1)' /\ Arg(i, 2)' = Arg(j, 2)'
    <2>1. PICK i \in NewOnes : i < j /\ Arg(i, 1) = Arg(j, 1) /\ Arg(i, 2) = Arg(j, 2)
      BY <1>15 DEF RememberInv, DuplicatesRemembered, NewOnes
    <2> QED BY <1>10, <1>11, <2>1
  <1>16. DuplicatesRemembered'
    BY <1>7, <1>8, <1>9, <1>14, <1>15 DEF DuplicatesRemembered, NewOnes, Between
  <1> QED BY <1>6, <1>7, <1>9, <1>12, <1>13, <1>16 DEF RememberInv

-----------------------------------------------------------------------------
(* The router's dedup table (gossip_router.rs) and the broadcaster's log       *)
(* (gossip_broadcaster.rs).                                                    *)

\* The calls that forwarded a message, and a call that pruned its mark.
Forwards == { i \in Made("route") : Got(i, "Forward") }

PrunedAt(i, c) == calls[c].op = "prune" /\ Arg(c, 1) = Arg(i, 1) /\ Arg(c, 2) > Arg(i, 2)

RouterInv ==
    kind = "gossip_router" =>
      /\ IsSeq(calls) /\ st = [peers |-> st.peers, seen |-> st.seen]
      /\ st.seen \subseteq Nat \X Nat
      /\ \A s \in st.seen : \E i \in Forwards : calls[i].args = s
      /\ \A i \in Forwards : \/ calls[i].args \in st.seen
                             \/ \E c \in (i + 1)..Len(calls) : PrunedAt(i, c)
      /\ SentOnce

\* What the calls before it say after one more call, and what is left to show of
\* it.
LEMMA RouterFollows ==
  ASSUME RouterInv, kind = "gossip_router", kind' = kind,
         NEW op, NEW args, NEW result, Return(op, args, result), NEW n, n = Len(calls) + 1,
         st' = [peers |-> st'.peers, seen |-> st'.seen], st'.seen \subseteq Nat \X Nat,
         \A s \in st'.seen : s \in st.seen \/ (op = "route" /\ result = "Forward" /\ args = s),
         op = "route" /\ result = "Forward" => args \in st'.seen /\ args \notin st.seen,
         op = "route" /\ result = "AlreadySeen" => args \in st.seen,
         \A s \in st.seen : \/ s \in st'.seen
                            \/ op = "prune" /\ args[1] = s[1] /\ args[2] > s[2]
  PROVE  RouterInv'
  <1>1. IsSeq(calls)
    BY DEF RouterInv
  <1>2. /\ n \in Nat \ {0} /\ Len(calls) = n - 1 /\ Len(calls') = n /\ IsSeq(calls')
        /\ Made("route") \subseteq 1..(n - 1)
        /\ Made("route")' = IF op = "route" THEN Made("route") \cup {n} ELSE Made("route")
        /\ \A i \in 1..(n - 1) : calls'[i] = calls[i]
        /\ \A i \in 1..(n - 1) : \A k : Arg(i, k)' = Arg(i, k)
        /\ calls'[n].op = op /\ calls'[n].args = args
        /\ \A k : Arg(n, k)' = args[k]
    BY <1>1, NewCall
  <1>3. ASSUME NEW i \in 1..(n - 1)
        PROVE  (Got(i, "Forward")' <=> Got(i, "Forward"))
               /\ (Got(i, "AlreadySeen")' <=> Got(i, "AlreadySeen"))
    <2>1. \A k \in 1..(n - 1) : \A r : Got(k, r)' <=> Got(k, r)
      BY <1>1, NewCall
    <2> QED BY <2>1
  <1>4. (Got(n, "Forward")' <=> result = "Forward")
        /\ (Got(n, "AlreadySeen")' <=> result = "AlreadySeen")
    <2>1. \A r : Got(n, r)' <=> result = r
      BY <1>1, NewCall
    <2> QED BY <2>1
  <1>5. ASSUME NEW i \in Forwards
        PROVE  i \in Made("route") /\ i \in 1..(n - 1) /\ i \in Forwards' /\ calls'[i] = calls[i]
    BY <1>2, <1>3 DEF Forwards
  <1>6. ASSUME NEW i \in Forwards'
        PROVE  (i = n /\ op = "route" /\ result = "Forward") \/ i \in Forwards
    <2>1. CASE i = n
      BY <1>2, <1>4, <2>1 DEF Forwards
    <2>2. CASE i # n
      <3>1. i \in Made("route") /\ i \in 1..(n - 1) /\ Got(i, "Forward")'
        BY <1>2, <2>2 DEF Forwards
      <3> QED BY <1>3, <3>1 DEF Forwards
    <2> QED BY <2>1, <2>2
  <1>7. ASSUME NEW i \in Forwards, NEW c \in 1..(n - 1), PrunedAt(i, c) PROVE PrunedAt(i, c)'
    BY <1>2, <1>5, <1>7 DEF PrunedAt
  <1>8. ASSUME NEW i \in Forwards
        PROVE  \/ calls'[i].args \in st'.seen
               \/ \E c \in (i + 1)..n : PrunedAt(i, c)'
    <2>1. CASE calls[i].args \in st.seen
      <3>1. CASE calls[i].args \in st'.seen
        BY <1>5, <3>1
      <3>2. CASE calls[i].args \notin st'.seen
        <4>1. op = "prune" /\ args[1] = Arg(i, 1) /\ args[2] > Arg(i, 2)
          BY <2>1, <3>2 DEF Arg
        <4>2. PrunedAt(i, n)' /\ n \in (i + 1)..n
          BY <1>2, <1>5, <4>1 DEF PrunedAt
        <4> QED BY <4>2
      <3> QED BY <3>1, <3>2
    <2>2. CASE \E c \in (i + 1)..(n - 1) : PrunedAt(i, c)
      <3>1. PICK c \in (i + 1)..(n - 1) : PrunedAt(i, c)
        BY <2>2
      <3>2. c \in 1..(n - 1) /\ c \in (i + 1)..n
        BY <1>2, <1>5
      <3> QED BY <1>7, <3>1, <3>2
    <2> QED BY <1>2, <2>1, <2>2 DEF RouterInv
  <1>9. ASSUME NEW i \in Forwards'
        PROVE  \/ calls'[i].args \in st'.seen
               \/ \E c \in (i + 1)..n : PrunedAt(i, c)'
    <2>1. CASE i = n /\ op = "route" /\ result = "Forward"
      BY <1>2, <2>1
    <2> QED BY <1>6, <1>8, <2>1
  <1>10. ASSUME NEW s \in st'.seen PROVE \E i \in Forwards' : calls'[i].args = s
    <2>1. CASE s \in st.seen
      <3>1. PICK i \in Forwards : calls[i].args = s
        BY <2>1 DEF RouterInv
      <3> QED BY <1>5, <3>1
    <2>2. CASE op = "route" /\ result = "Forward" /\ args = s
      <3>1. n \in Forwards' /\ calls'[n].args = s
        BY <1>2, <1>4, <2>2 DEF Forwards
      <3> QED BY <3>1
    <2> QED BY <2>1, <2>2
  <1>11. ASSUME NEW j \in Made("route")', Got(j, "AlreadySeen")'
         PROVE  \E i \in Forwards' : i < j /\ calls'[i].args = calls'[j].args
    <2>1. CASE j = n
      <3>1. op = "route" /\ result = "AlreadySeen"
        BY <1>2, <1>4, <1>11, <2>1
      <3>2. PICK i \in Forwards : calls[i].args = args
        BY <3>1 DEF RouterInv
      <3>3. i \in Forwards' /\ calls'[i].args = calls'[n].args /\ i \in 1..(n - 1)
        BY <1>2, <1>5, <3>2
      <3>4. i < n
        BY <1>2, <3>3
      <3> QED BY <2>1, <3>3, <3>4
    <2>2. CASE j # n
      <3>1. j \in Made("route") /\ j \in 1..(n - 1) /\ calls'[j] = calls[j]
        BY <1>2, <2>2
      <3>2. Got(j, "AlreadySeen")
        BY <1>3, <1>11, <3>1
      <3>3. PICK i \in Forwards : i < j /\ calls[i].args = calls[j].args
        BY <3>1, <3>2 DEF RouterInv, SentOnce, Forwards
      <3> QED BY <1>5, <3>1, <3>3
    <2> QED BY <2>1, <2>2
  <1>12. ASSUME NEW i \in Forwards', NEW j \in Forwards', i < j, calls'[i].args = calls'[j].args
         PROVE  \E c \in Between(i, j) : PrunedAt(i, c)'
    <2>1. i \in Forwards
      <3>1. j \in 1..n /\ i \in 1..n
        BY <1>2 DEF Forwards
      <3> QED BY <1>2, <1>6, <1>12, <3>1
    <2>2. \E c \in Between(i, j) : PrunedAt(i, c) /\ c \in 1..(n - 1)
      <3>1. CASE j = n /\ op = "route" /\ result = "Forward"
        <4>1. calls[i].args \notin st.seen
          BY <1>2, <1>5, <1>12, <2>1, <3>1
        <4>2. PICK c \in (i + 1)..Len(calls) : PrunedAt(i, c)
          BY <2>1, <4>1 DEF RouterInv
        <4>3. c \in Between(i, j) /\ c \in 1..(n - 1)
          BY <1>2, <1>5, <2>1, <3>1 DEF Between
        <4> QED BY <4>2, <4>3
      <3>2. CASE j \in Forwards
        <4>1. calls[i].args = calls[j].args
          BY <1>5, <1>12, <2>1, <3>2
        <4>2. PICK c \in Between(i, j) : PrunedAt(i, c)
          BY <1>12, <2>1, <3>2, <4>1 DEF RouterInv, SentOnce, Forwards, PrunedAt
        <4>3. c \in 1..(n - 1)
          BY <1>2, <1>5, <2>1, <3>2 DEF Between
        <4> QED BY <4>2, <4>3
      <3> QED BY <1>6, <3>1, <3>2
    <2> QED BY <1>7, <2>1, <2>2
  <1>13. SentOnce'
    BY <1>11, <1>12 DEF SentOnce, Forwards, PrunedAt, Between
  <1> QED BY <1>2, <1>9, <1>10, <1>13 DEF RouterInv

\* A message is forwarded and marked, or dropped and nothing changes (route).
LEMMA RouterRoutes ==
  ASSUME RouterInv, kind = "gossip_router", kind' = kind, kind \in Kinds, route
  PROVE  RouterInv'
  <1>1. PICK p \in Peers, id \in Ids, ttl \in {0, 1} :
          /\ st' = IF RouteDrop(p, id, ttl) # "Forward" THEN st
                   ELSE [st EXCEPT !.seen = @ \cup {<<p, id>>}]
          /\ Return("route", <<p, id>>, RouteDrop(p, id, ttl))
    BY DEF route
  <1>2. PICK a, r, op, n : a = <<p, id>> /\ r = RouteDrop(p, id, ttl) /\ op = "route"
                           /\ n = Len(calls) + 1
    OBVIOUS
  <1>3. Return(op, a, r) /\ a \in Nat \X Nat /\ op # "prune" /\ op = "route"
    BY <1>1, <1>2, Inputs
  <1>4. /\ st = [peers |-> st.peers, seen |-> st.seen] /\ st.seen \subseteq Nat \X Nat
    BY DEF RouterInv
  <1>5. (r = "Forward" => a \notin st.seen) /\ (r = "AlreadySeen" => a \in st.seen)
    BY <1>2 DEF RouteDrop
  <1>6. /\ st' = [peers |-> st'.peers, seen |-> st'.seen]
        /\ st'.seen = IF r = "Forward" THEN st.seen \cup {a} ELSE st.seen
    BY <1>1, <1>2, <1>4
  <1>7. /\ st'.seen \subseteq Nat \X Nat
        /\ \A s \in st'.seen : s \in st.seen \/ (op = "route" /\ r = "Forward" /\ a = s)
        /\ op = "route" /\ r = "Forward" => a \in st'.seen /\ a \notin st.seen
        /\ op = "route" /\ r = "AlreadySeen" => a \in st.seen
        /\ \A s \in st.seen : \/ s \in st'.seen
                              \/ op = "prune" /\ a[1] = s[1] /\ a[2] > s[2]
    BY <1>3, <1>4, <1>5, <1>6
  <1> QED BY <1>2, <1>3, <1>6, <1>7, RouterFollows

\* The peers change, and no mark does (change_peers).
LEMMA RouterPeers ==
  ASSUME RouterInv, kind = "gossip_router", kind' = kind, kind \in Kinds, change_peers
  PROVE  RouterInv'
  <1>1. PICK p \in Peers :
          \/ st' = [st EXCEPT !.peers = @ \cup {p}] /\ Return("add", <<p>>, p \notin st.peers)
          \/ st' = [st EXCEPT !.peers = @ \ {p}] /\ Return("remove", <<p>>, p \in st.peers)
    BY DEF change_peers
  <1>2. /\ st = [peers |-> st.peers, seen |-> st.seen] /\ st.seen \subseteq Nat \X Nat
    BY DEF RouterInv
  <1>3. st' = [peers |-> st'.peers, seen |-> st.seen] /\ st'.seen = st.seen
    BY <1>1, <1>2
  <1>4. PICK op, a, r, n : /\ Return(op, a, r) /\ op \in {"add", "remove"}
                           /\ n = Len(calls) + 1
    BY <1>1
  <1>5. op # "route" /\ op # "prune"
    BY <1>4
  <1>6. /\ st' = [peers |-> st'.peers, seen |-> st'.seen] /\ st'.seen \subseteq Nat \X Nat
        /\ \A s \in st'.seen : s \in st.seen \/ (op = "route" /\ r = "Forward" /\ a = s)
        /\ op = "route" /\ r = "Forward" => a \in st'.seen /\ a \notin st.seen
        /\ op = "route" /\ r = "AlreadySeen" => a \in st.seen
        /\ \A s \in st.seen : \/ s \in st'.seen
                              \/ op = "prune" /\ a[1] = s[1] /\ a[2] > s[2]
    BY <1>2, <1>3, <1>5
  <1> QED BY <1>4, <1>6, RouterFollows

\* The marks below a number of one peer go (prune_seen).
LEMMA RouterPrunes ==
  ASSUME RouterInv, kind = "gossip_router", kind' = kind, kind \in Kinds, prune_seen
  PROVE  RouterInv'
  <1>1. PICK p \in Peers, id \in Ids :
          /\ st' = [st EXCEPT !.seen = { s \in @ : ~(s[1] = p /\ s[2] < id) }]
          /\ Return("prune", <<p, id>>, TRUE)
    BY DEF prune_seen
  <1>2. PICK op, a, r, n : op = "prune" /\ a = <<p, id>> /\ r = TRUE /\ n = Len(calls) + 1
    OBVIOUS
  <1>3. Return(op, a, r) /\ a[1] = p /\ a[2] = id /\ id \in Nat /\ op # "route"
    BY <1>1, <1>2, Inputs
  <1>4. /\ st = [peers |-> st.peers, seen |-> st.seen] /\ st.seen \subseteq Nat \X Nat
    BY DEF RouterInv
  <1>5. /\ st' = [peers |-> st'.peers, seen |-> st'.seen]
        /\ st'.seen = { s \in st.seen : ~(s[1] = p /\ s[2] < id) }
    BY <1>1, <1>4
  <1>6. \A s \in st.seen : \/ s \in st'.seen
                           \/ op = "prune" /\ a[1] = s[1] /\ a[2] > s[2]
    <2>1. \A s \in st.seen : s[2] \in Nat
      BY <1>4
    <2> QED BY <1>2, <1>3, <1>5, <2>1
  <1>7. /\ st'.seen \subseteq Nat \X Nat
        /\ \A s \in st'.seen : s \in st.seen \/ (op = "route" /\ r = "Forward" /\ a = s)
        /\ op = "route" /\ r = "Forward" => a \in st'.seen /\ a \notin st.seen
        /\ op = "route" /\ r = "AlreadySeen" => a \in st.seen
    BY <1>3, <1>4, <1>5
  <1> QED BY <1>2, <1>3, <1>5, <1>6, <1>7, RouterFollows

\* The latest number of a node is the largest in the log.
BroadcastInv ==
    kind = "gossip_broadcaster" =>
      /\ IsSeq(LogOf(0)) /\ \A p \in DOMAIN st : st[p] \in Nat
      /\ \A m \in DOMAIN LogOf(0) :
           LET d == LogOf(0)[m].data IN d[1] \in DOMAIN st /\ d[2] \in Nat /\ d[2] <= st[d[1]]
      /\ SentOnce

\* A number is taken into the log only above the latest (broadcast_append).
LEMMA BroadcastAppends ==
  ASSUME BroadcastInv, kind = "gossip_broadcaster", kind' = kind, kind \in Kinds,
         broadcast_append
  PROVE  BroadcastInv'
  <1>1. PICK p \in Peers, id \in Ids :
          \/ UNCHANGED <<st, logs>>
          \/ /\ ~(id <= Get(st, p, -1)) /\ st' = Put(st, p, id)
             /\ logs' = Put(logs, 0, Append(LogOf(0), [data |-> <<p, id>>]))
    BY DEF broadcast_append
  <1>2. CASE UNCHANGED <<st, logs>>
    <2>1. LogOf(0)' = LogOf(0) /\ st' = st
      BY <1>2 DEF LogOf
    <2> QED BY <2>1 DEF BroadcastInv, SentOnce
  <1>3. CASE /\ ~(id <= Get(st, p, -1)) /\ st' = Put(st, p, id)
             /\ logs' = Put(logs, 0, Append(LogOf(0), [data |-> <<p, id>>]))
    <2>1. PICK l, r : l = LogOf(0) /\ r = [data |-> <<p, id>>]
      OBVIOUS
    <2>2. PICK k : k = Append(l, r)
      OBVIOUS
    <2>3. logs' = Put(logs, 0, k)
      BY <1>3, <2>1, <2>2
    <2>4. LogOf(0)' = k
      BY <2>3 DEF LogOf, Get, Put
    <2>5. r.data[1] = p /\ r.data[2] = id /\ id \in Nat
      BY <2>1, Inputs
    <2>6. /\ IsSeq(l) /\ \A q \in DOMAIN st : st[q] \in Nat
          /\ \A m \in DOMAIN l : /\ l[m].data[1] \in DOMAIN st /\ l[m].data[2] \in Nat
                                 /\ l[m].data[2] <= st[l[m].data[1]]
          /\ \A m, n \in DOMAIN l :
               m < n /\ l[m].data[1] = l[n].data[1] => l[m].data[2] < l[n].data[2]
      BY <2>1 DEF BroadcastInv, SentOnce
    <2>7. /\ Len(l) \in Nat /\ DOMAIN l = 1..Len(l) /\ IsSeq(k)
          /\ DOMAIN k = 1..(Len(l) + 1)
          /\ \A i \in 1..Len(l) : k[i] = l[i]
          /\ k[Len(l) + 1] = r
      BY <2>2, <2>6, AppendSeq
    <2>8. PICK n : n = Len(l) + 1
      OBVIOUS
    <2>9. /\ n \in Nat /\ DOMAIN k = 1..n /\ DOMAIN l = 1..(n - 1) /\ k[n] = r
          /\ \A i \in 1..(n - 1) : k[i] = l[i]
      BY <2>7, <2>8
    <2>10. /\ DOMAIN st' = DOMAIN st \cup {p} /\ st'[p] = id
           /\ \A q \in DOMAIN st : q # p => st'[q] = st[q]
           /\ p \in DOMAIN st => st[p] < id
      BY <1>3, <2>5, <2>6 DEF Put, Get
    <2>11. \A q \in DOMAIN st' : st'[q] \in Nat
      BY <2>5, <2>6, <2>10
    <2>12. ASSUME NEW m \in 1..(n - 1)
           PROVE  /\ k[m] = l[m] /\ l[m].data[1] \in DOMAIN st /\ l[m].data[2] \in Nat
                  /\ l[m].data[2] <= st[l[m].data[1]]
                  /\ l[m].data[1] \in DOMAIN st' /\ l[m].data[2] <= st'[l[m].data[1]]
                  /\ l[m].data[1] = p => l[m].data[2] < id
      <3>1. /\ l[m].data[1] \in DOMAIN st /\ l[m].data[2] \in Nat /\ k[m] = l[m]
            /\ l[m].data[2] <= st[l[m].data[1]]
        BY <2>6, <2>9
      <3>2. PICK x, y : x = l[m].data[1] /\ y = l[m].data[2]
        OBVIOUS
      <3>3. x \in DOMAIN st /\ y \in Nat /\ y <= st[x] /\ st[x] \in Nat
        BY <2>6, <3>1, <3>2
      <3>4. x \in DOMAIN st' /\ y <= st'[x] /\ (x = p => y < id)
        BY <2>5, <2>10, <3>3
      <3> QED BY <3>1, <3>2, <3>4
    <2>13. ASSUME NEW m \in 1..n
           PROVE  k[m].data[1] \in DOMAIN st' /\ k[m].data[2] \in Nat
                  /\ k[m].data[2] <= st'[k[m].data[1]]
      <3>1. CASE m = n
        BY <2>5, <2>9, <2>10, <3>1
      <3>2. CASE m # n
        <4>1. m \in 1..(n - 1)
          BY <2>9, <3>2
        <4> QED BY <2>12, <4>1
      <3> QED BY <3>1, <3>2
    <2>14. ASSUME NEW m \in 1..n, NEW j \in 1..n, m < j, k[m].data[1] = k[j].data[1]
           PROVE  k[m].data[2] < k[j].data[2]
      <3>1. m \in 1..(n - 1)
        BY <2>9, <2>14
      <3>2. CASE j = n
        BY <2>5, <2>9, <2>12, <2>14, <3>1, <3>2
      <3>3. CASE j # n
        <4>1. j \in 1..(n - 1)
          BY <2>9, <3>3
        <4>2. k[m] = l[m] /\ k[j] = l[j]
          BY <2>12, <3>1, <4>1
        <4> QED BY <2>6, <2>9, <2>14, <3>1, <4>1, <4>2
      <3> QED BY <3>2, <3>3
    <2>15. SentOnce'
      BY <2>4, <2>9, <2>14 DEF SentOnce
    <2> QED BY <2>4, <2>7, <2>9, <2>11, <2>13, <2>15 DEF BroadcastInv
  <1> QED BY <1>1, <1>2, <1>3

-----------------------------------------------------------------------------
(* Nothing is fresh twice. *)

FreshInv ==
    /\ kind \in Kinds /\ DedupInv /\ NonceInv /\ ContentInv /\ SequenceInv
    /\ RememberInv /\ RouterInv /\ BroadcastInv

\* The invariant speaks of the running service, its history, its logs and its
\* table only.
LEMMA FreshStutters ==
  ASSUME FreshInv, UNCHANGED vars
  PROVE  FreshInv'
  <1>1. kind' = kind /\ calls' = calls /\ logs' = logs /\ st' = st
    BY DEF vars
  <1>2. /\ \A o : Made(o)' = Made(o)
        /\ \A i, k : Arg(i, k)' = Arg(i, k)
        /\ \A i : Got(i, TRUE)' <=> Got(i, TRUE)
        /\ \A i : Got(i, "Inserted")' <=> Got(i, "Inserted")
        /\ EpochField' = EpochField
    BY <1>1 DEF Made, Arg, Got, EpochField
  <1>3. \A i : ToldEpoch(i)' = ToldEpoch(i)
    BY <1>1, <1>2 DEF ToldEpoch
  <1>4. \A i : ToldBy(i)' = ToldBy(i)
    BY <1>1, <1>3 DEF ToldBy
  <1>5. \A i : ReachedBy(i)' = ReachedBy(i)
    BY <1>4 DEF ToldBy, ReachedBy
  <1>6. \A i : Latest(i)' <=> Latest(i)
    BY <1>4, <1>5 DEF Latest
  <1>7. (EpochsTold' <=> EpochsTold) /\ (CacheOK' <=> CacheOK)
    BY <1>1, <1>5, <1>6 DEF EpochsTold, CacheOK
  <1>8. \A x, i, c, width : Dropped(x, i, c, width)' <=> Dropped(x, i, c, width)
    BY <1>5 DEF Dropped
  <1>9. \A x, k : FreshIn(x, k)' = FreshIn(x, k)
    BY <1>2 DEF FreshIn
  <1>10. DedupInv'
    <2>1. DuplicatesCaught' <=> DuplicatesCaught
      BY <1>1, <1>2, <1>5 DEF DuplicatesCaught
    <2> QED BY <1>1, <1>2, <1>5, <1>7, <2>1 DEF FreshInv, DedupInv
  <1>11. NonceInv'
    <2>1. ReplaysCaught' <=> ReplaysCaught
      BY <1>1, <1>2, <1>8 DEF ReplaysCaught, Between
    <2>2. \A i : NonceKept(i)' <=> NonceKept(i)
      BY <1>1, <1>2, <1>8, <1>9 DEF NonceKept
    <2>3. \A x : SlotOK(x)' <=> SlotOK(x)
      BY <1>1, <1>9 DEF SlotOK
    <2> QED BY <1>1, <1>2, <1>7, <2>1, <2>2, <2>3 DEF FreshInv, NonceInv
  <1>12. ContentInv'
    <2>1. ContentOnce' <=> ContentOnce
      BY <1>1, <1>2, <1>8 DEF ContentOnce
    <2>2. \A i : ContentKept(i)' <=> ContentKept(i)
      BY <1>1, <1>2, <1>8 DEF ContentKept
    <2> QED BY <1>1, <1>2, <1>7, <2>1, <2>2 DEF FreshInv, ContentInv
  <1>13. SequenceInv'
    BY <1>1 DEF FreshInv, SequenceInv, NumberPassed, SequenceOnce, Made, Arg, Got
  <1>14. RememberInv'
    BY <1>1 DEF FreshInv, RememberInv, MessageKept, PassedBy, NewOnes, DuplicatesRemembered,
                Made, Arg, Got
  <1>15. RouterInv'
    BY <1>1 DEF FreshInv, RouterInv, Forwards, PrunedAt, SentOnce, LogOf, Made, Arg, Got
  <1>16. BroadcastInv'
    BY <1>1 DEF FreshInv, BroadcastInv, SentOnce, LogOf, Made, Arg, Got
  <1> QED BY <1>1, <1>10, <1>11, <1>12, <1>13, <1>14, <1>15, <1>16 DEF FreshInv

\* A message, nonce, content or sequence number is new, forwarded or broadcast
\* once, until what remembers it was dropped, pruned or reset, whatever the
\* peers, the epochs they name and the order of the calls
\* (message_deduplicator.rs, nonce_cache.rs, gossip_message_cache.rs,
\* message_sequence_tracker.rs, dedup_cache.rs, gossip_router.rs and
\* gossip_broadcaster.rs).
THEOREM FreshCorrect == Spec => []FreshOnce
  <1>1. Init => FreshInv
    <2> SUFFICES ASSUME Init PROVE FreshInv
      OBVIOUS
    <2>1. /\ kind \in Kinds /\ IsSeq(calls) /\ DOMAIN calls = {} /\ calls = << >>
          /\ logs = << >> /\ \A o : Made(o) = {}
      BY Starts DEF Init, Made
    <2>2. DedupInv
      <3> SUFFICES ASSUME kind = "message_deduplicator" PROVE DedupInv
        BY DEF DedupInv
      <3>1. st = [epoch |-> InitialEpoch, seen |-> {}, fresh |-> 0, dups |-> 0]
        BY Starts DEF MessageInit, MessageKinds
      <3>2. st.epoch = InitialEpoch /\ st \in DedupRecords
        BY <3>1 DEF DedupRecords, InitialEpoch
      <3> QED BY <2>1, <3>2, EpochsStart DEF DedupInv, DuplicatesCaught
    <2>3. kind \in {"nonce_cache", "gossip_message_cache"} => CacheOK /\ DOMAIN st.window = {}
      <3> SUFFICES ASSUME kind \in {"nonce_cache", "gossip_message_cache"}
                   PROVE  CacheOK /\ DOMAIN st.window = {}
        OBVIOUS
      <3>1. st = [epoch |-> InitialEpoch, window |-> << >>]
        BY Starts DEF MessageInit, MessageKinds
      <3>2. st.epoch = InitialEpoch /\ st.window = << >> /\ DOMAIN st.window = {}
        BY <3>1
      <3> QED BY <2>1, <3>1, <3>2, EpochsStart DEF CacheOK
    <2>4. NonceInv
      BY <2>1, <2>3 DEF NonceInv, ReplaysCaught
    <2>5. ContentInv
      BY <2>1, <2>3 DEF ContentInv, ContentOnce
    <2>6. SequenceInv
      <3>1. kind = "message_sequence_tracker" => st = << >>
        BY Starts DEF MessageInit, MessageKinds
      <3> QED BY <2>1, <3>1 DEF SequenceInv, SequenceOnce
    <2>7. RememberInv
      <3> SUFFICES ASSUME kind = "dedup_cache" PROVE RememberInv
        BY DEF RememberInv
      <3>1. st = [current |-> 0, entries |-> << >>]
        BY DEF Init, MeshInit, MessageKinds, PeerKinds, HealthKinds, EpochKinds, PaceKinds,
               MeshKinds, LedgerKinds
      <3>2. st.current = 0 /\ st.entries = << >> /\ DOMAIN st.entries = {}
        BY <3>1
      <3>3. NewOnes = {}
        BY <2>1 DEF NewOnes
      <3> QED BY <2>1, <3>1, <3>2, <3>3 DEF RememberInv, DuplicatesRemembered, NewOnes
    <2>8. RouterInv
      <3> SUFFICES ASSUME kind = "gossip_router" PROVE RouterInv
        BY DEF RouterInv
      <3>1. st = [peers |-> {}, seen |-> {}]
        BY DEF Init, LedgerInit, MessageKinds, PeerKinds, HealthKinds, EpochKinds, PaceKinds,
               MeshKinds, LedgerKinds
      <3>2. st.seen = {} /\ st.peers = {}
        BY <3>1
      <3> QED BY <2>1, <3>1, <3>2 DEF RouterInv, Forwards, SentOnce
    <2>9. BroadcastInv
      <3> SUFFICES ASSUME kind = "gossip_broadcaster" PROVE BroadcastInv
        BY DEF BroadcastInv
      <3>1. st = << >>
        BY DEF Init, LedgerInit, MessageKinds, PeerKinds, HealthKinds, EpochKinds, PaceKinds,
               MeshKinds, LedgerKinds
      <3>2. LogOf(0) = << >> /\ DOMAIN st = {} /\ IsSeq(LogOf(0)) /\ DOMAIN LogOf(0) = {}
        BY <2>1, <3>1 DEF LogOf, Get, IsSeq
      <3> QED BY <2>1, <3>2 DEF BroadcastInv, SentOnce
    <2> QED BY <2>1, <2>2, <2>4, <2>5, <2>6, <2>7, <2>8, <2>9 DEF FreshInv
  <1>2. FreshInv /\ [Next]_vars => FreshInv'
    <2> SUFFICES ASSUME FreshInv, [Next]_vars PROVE FreshInv'
      OBVIOUS
    <2>1. CASE UNCHANGED vars
      BY <2>1, FreshStutters
    <2>2. CASE Next
      <3>1. kind' = kind /\ kind \in Kinds
        BY <2>2, Dispatch DEF FreshInv
      <3>2. /\ kind = "message_deduplicator" => observe_message_id \/ dedup_seal_epoch
            /\ kind = "nonce_cache" => advance_epoch \/ check_nonce
            /\ kind = "gossip_message_cache" => advance_epoch \/ cache_insert
            /\ kind = "message_sequence_tracker" => observe_sequence
        BY <2>2, Dispatch, MessageServed DEF MessageKinds
      <3>3. kind = "dedup_cache" => check_and_insert \/ dedup_advance_epoch
        BY <2>2, Dispatch, MeshServed DEF MeshKinds
      <3>4. /\ kind = "gossip_router" => route \/ change_peers \/ prune_seen
            /\ kind = "gossip_broadcaster" => broadcast_append
        BY <2>2, Dispatch, LedgerServed DEF LedgerKinds
      <3>5. DedupInv'
        <4>1. CASE kind = "message_deduplicator"
          BY <3>1, <3>2, <4>1, DedupObserves, DedupSeals DEF FreshInv
        <4>2. CASE kind # "message_deduplicator"
          BY <3>1, <4>2 DEF DedupInv
        <4> QED BY <4>1, <4>2
      <3>6. NonceInv'
        <4>1. CASE kind = "nonce_cache"
          BY <3>1, <3>2, <4>1, NonceAdvances, NonceChecks DEF FreshInv
        <4>2. CASE kind # "nonce_cache"
          BY <3>1, <4>2 DEF NonceInv
        <4> QED BY <4>1, <4>2
      <3>7. ContentInv'
        <4>1. CASE kind = "gossip_message_cache"
          BY <3>1, <3>2, <4>1, ContentAdvances, ContentInserts DEF FreshInv
        <4>2. CASE kind # "gossip_message_cache"
          BY <3>1, <4>2 DEF ContentInv
        <4> QED BY <4>1, <4>2
      <3>8. SequenceInv'
        <4>1. CASE kind = "message_sequence_tracker"
          BY <3>1, <3>2, <4>1, SequenceObserves DEF FreshInv
        <4>2. CASE kind # "message_sequence_tracker"
          BY <3>1, <4>2 DEF SequenceInv
        <4> QED BY <4>1, <4>2
      <3>9. RememberInv'
        <4>1. CASE kind = "dedup_cache"
          BY <3>1, <3>3, <4>1, RememberInserts, RememberAdvances DEF FreshInv
        <4>2. CASE kind # "dedup_cache"
          BY <3>1, <4>2 DEF RememberInv
        <4> QED BY <4>1, <4>2
      <3>10. RouterInv'
        <4>1. CASE kind = "gossip_router"
          BY <3>1, <3>4, <4>1, RouterRoutes, RouterPeers, RouterPrunes DEF FreshInv
        <4>2. CASE kind # "gossip_router"
          BY <3>1, <4>2 DEF RouterInv
        <4> QED BY <4>1, <4>2
      <3>11. BroadcastInv'
        <4>1. CASE kind = "gossip_broadcaster"
          BY <3>1, <3>4, <4>1, BroadcastAppends DEF FreshInv
        <4>2. CASE kind # "gossip_broadcaster"
          BY <3>1, <4>2 DEF BroadcastInv
        <4> QED BY <4>1, <4>2
      <3> QED BY <3>1, <3>5, <3>6, <3>7, <3>8, <3>9, <3>10, <3>11 DEF FreshInv
    <2> QED BY <2>1, <2>2
  <1>3. FreshInv => FreshOnce
    <2> SUFFICES ASSUME FreshInv PROVE FreshOnce
      OBVIOUS
    <2>1. DuplicatesCaught
      BY DEF FreshInv, DedupInv, DuplicatesCaught
    <2>2. ReplaysCaught
      BY DEF FreshInv, NonceInv, ReplaysCaught
    <2>3. ContentOnce
      BY DEF FreshInv, ContentInv, ContentOnce
    <2>4. SequenceOnce
      BY DEF FreshInv, SequenceInv, SequenceOnce
    <2>5. DuplicatesRemembered
      BY DEF FreshInv, RememberInv, DuplicatesRemembered
    <2>6. SentOnce
      <3>1. CASE kind = "gossip_router"
        BY <3>1 DEF FreshInv, RouterInv
      <3>2. CASE kind = "gossip_broadcaster"
        BY <3>2 DEF FreshInv, BroadcastInv
      <3>3. CASE kind \notin {"gossip_router", "gossip_broadcaster"}
        BY <3>3 DEF SentOnce
      <3> QED BY <3>1, <3>2, <3>3
    <2> QED BY <2>1, <2>2, <2>3, <2>4, <2>5, <2>6 DEF FreshOnce
  <1> QED BY <1>1, <1>2, <1>3, PTL DEF Spec
-----------------------------------------------------------------------------
(* Bans (peer_blocklist.rs). *)

\* The epoch a ban runs to, and that no call since has lifted it.
Runs(i) == Expiry(Arg(i, 2), Arg(i, 3))
Lifts(c, i) ==
    \/ calls[c].op = "unban" /\ Arg(c, 1) = Arg(i, 1)
    \/ calls[c].op = "expire" /\ ~(Runs(i) = Forever \/ Arg(c, 1) < Runs(i))
Lasts(i) == \A c \in (i + 1)..Len(calls) : ~Lifts(c, i)
BansMade == { i \in Made("ban") : Got(i, "Ok") }

\* The table holds the bans that were not lifted, each until it runs out.
BansInv ==
    kind = "peer_blocklist" =>
      /\ IsSeq(calls) /\ \A i \in BansMade : Arg(i, 2) \in Int /\ Arg(i, 3) \in Int
      /\ \A p \in DOMAIN st :
           \E i \in BansMade : Arg(i, 1) = p /\ Lasts(i) /\ st[p].expires = Runs(i)
      /\ \A i \in BansMade :
           Lasts(i) => Arg(i, 1) \in DOMAIN st /\ st[Arg(i, 1)].expires = Runs(i)

\* A call lifts no ban, or exactly those that leave the table with it; a ban it
\* makes is of a peer that had none.
LEMMA BansFollow ==
  ASSUME BansInv, kind = "peer_blocklist", kind' = kind,
         NEW op, NEW args, NEW result, Return(op, args, result), NEW n, n = Len(calls) + 1,
         op = "ban" /\ result = "Ok" =>
           /\ args[1] \notin DOMAIN st /\ args[1] \in DOMAIN st'
           /\ args[2] \in Int /\ args[3] \in Int
           /\ st'[args[1]].expires = Expiry(args[2], args[3]),
         \A p \in DOMAIN st' :
           \/ p \in DOMAIN st /\ st'[p] = st[p]
           \/ op = "ban" /\ result = "Ok" /\ args[1] = p,
         \A p \in DOMAIN st : p \in DOMAIN st' <=>
           /\ ~(op = "unban" /\ args[1] = p)
           /\ ~(op = "expire" /\ ~(st[p].expires = Forever \/ args[1] < st[p].expires))
  PROVE  BansInv'
  <1>1. IsSeq(calls)
    BY DEF BansInv
  <1>2. /\ n \in Nat \ {0} /\ Len(calls) = n - 1 /\ Len(calls') = n /\ IsSeq(calls')
        /\ Made("ban") \subseteq 1..(n - 1)
        /\ Made("ban")' = IF op = "ban" THEN Made("ban") \cup {n} ELSE Made("ban")
        /\ \A i \in 1..(n - 1) : calls'[i] = calls[i]
        /\ \A i \in 1..(n - 1) : \A k : Arg(i, k)' = Arg(i, k)
        /\ calls'[n].op = op
        /\ \A k : Arg(n, k)' = args[k]
    BY <1>1, NewCall
  <1>3. \A i \in 1..(n - 1) : Got(i, "Ok")' <=> Got(i, "Ok")
    <2>1. \A i \in 1..(n - 1) : \A r : Got(i, r)' <=> Got(i, r)
      BY <1>1, NewCall
    <2> QED BY <2>1
  <1>4. Got(n, "Ok")' <=> result = "Ok"
    <2>1. \A r : Got(n, r)' <=> result = r
      BY <1>1, NewCall
    <2> QED BY <2>1
  <1>5. BansMade' = BansMade \cup (IF op = "ban" /\ result = "Ok" THEN {n} ELSE {})
    BY <1>2, <1>3, <1>4 DEF BansMade
  <1>6. BansMade \subseteq 1..(n - 1)
    BY <1>2 DEF BansMade
  <1>7. \A i \in 1..(n - 1) : Runs(i)' = Runs(i)
    BY <1>2 DEF Runs
  <1>8. ASSUME NEW i \in BansMade
        PROVE  Lasts(i)' <=> /\ Lasts(i) /\ ~(op = "unban" /\ args[1] = Arg(i, 1))
                             /\ ~(op = "expire" /\ ~(Runs(i) = Forever \/ args[1] < Runs(i)))
    <2>1. i \in 1..(n - 1)
      BY <1>6
    <2>2. (i + 1)..n = ((i + 1)..(n - 1)) \cup {n}
      BY <1>2, <2>1
    <2>3. \A c \in (i + 1)..(n - 1) : Lifts(c, i)' <=> Lifts(c, i)
      <3>1. \A c \in (i + 1)..(n - 1) : c \in 1..(n - 1)
        BY <1>2, <2>1
      <3> QED BY <1>2, <1>7, <2>1, <3>1 DEF Lifts
    <2>4. Lifts(n, i)' <=> \/ op = "unban" /\ args[1] = Arg(i, 1)
                           \/ op = "expire" /\ ~(Runs(i) = Forever \/ args[1] < Runs(i))
      BY <1>2, <1>7, <2>1 DEF Lifts
    <2> QED BY <1>2, <2>2, <2>3, <2>4 DEF Lasts
  <1>9. Lasts(n)'
    BY <1>2 DEF Lasts
  <1>10. op = "ban" => ~(op = "unban") /\ ~(op = "expire")
    OBVIOUS
  <1>11. Runs(n)' = Expiry(args[2], args[3])
    BY <1>2 DEF Runs
  <1>12. ASSUME NEW p \in DOMAIN st'
         PROVE  \E i \in BansMade' : Arg(i, 1)' = p /\ Lasts(i)' /\ st'[p].expires = Runs(i)'
    <2>1. CASE p \in DOMAIN st /\ st'[p] = st[p]
      <3>1. PICK i \in BansMade : Arg(i, 1) = p /\ Lasts(i) /\ st[p].expires = Runs(i)
        BY <2>1 DEF BansInv
      <3>2. Arg(i, 1)' = p /\ Runs(i)' = Runs(i)
        BY <1>2, <1>6, <1>7, <3>1
      <3>3. Lasts(i)'
        BY <1>8, <2>1, <3>1
      <3> QED BY <1>5, <2>1, <3>1, <3>2, <3>3
    <2>2. CASE op = "ban" /\ result = "Ok" /\ args[1] = p
      BY <1>2, <1>5, <1>9, <1>11, <2>2
    <2> QED BY <2>1, <2>2
  <1>13. ASSUME NEW i \in BansMade', Lasts(i)'
         PROVE  Arg(i, 1)' \in DOMAIN st' /\ st'[Arg(i, 1)'].expires = Runs(i)'
    <2>1. CASE i \in BansMade
      <3>1. Lasts(i) /\ Arg(i, 1)' = Arg(i, 1) /\ Runs(i)' = Runs(i)
        BY <1>2, <1>6, <1>7, <1>8, <1>13, <2>1
      <3>2. PICK p : p = Arg(i, 1)
        OBVIOUS
      <3>3. p \in DOMAIN st /\ st[p].expires = Runs(i)
        BY <2>1, <3>1, <3>2 DEF BansInv
      <3>4. p \in DOMAIN st'
        BY <1>8, <1>13, <2>1, <3>2, <3>3
      <3>5. st'[p] = st[p]
        BY <3>3, <3>4
      <3> QED BY <3>1, <3>2, <3>3, <3>4, <3>5
    <2>2. CASE i = n /\ op = "ban" /\ result = "Ok"
      BY <1>2, <1>11, <2>2
    <2> QED BY <1>5, <2>1, <2>2
  <1>14. \A i \in BansMade' : Arg(i, 2)' \in Int /\ Arg(i, 3)' \in Int
    BY <1>2, <1>5, <1>6 DEF BansInv
  <1> QED BY <1>2, <1>12, <1>13, <1>14 DEF BansInv

\* A peer is banned, or the call is refused and nothing changes (ban).
LEMMA BlockBans ==
  ASSUME BansInv, kind = "peer_blocklist", kind' = kind, kind \in Kinds, ban
  PROVE  BansInv'
  <1>1. PICK p \in Peers, e \in Epochs, reason \in Ids, duration \in {Forever, 1, 2} :
          \/ st' = st /\ Return("ban", <<p, e, duration>>, "AlreadyBanned")
          \/ st' = st /\ Return("ban", <<p, e, duration>>, "BlocklistFull")
          \/ /\ p \notin DOMAIN st
             /\ st' = Put(st, p, [expires |-> Expiry(e, duration), reason |-> reason])
             /\ Return("ban", <<p, e, duration>>, "Ok")
    BY DEF ban, Refused
  <1>2. PICK op, a, r, n : /\ op = "ban" /\ a = <<p, e, duration>> /\ n = Len(calls) + 1
                           /\ Return(op, a, r)
                           /\ \/ st' = st /\ r # "Ok"
                              \/ /\ p \notin DOMAIN st /\ r = "Ok"
                                 /\ st' = Put(st, p, [expires |-> Expiry(e, duration),
                                                      reason |-> reason])
    BY <1>1
  <1>3. /\ a[1] = p /\ a[2] = e /\ a[3] = duration /\ op # "unban" /\ op # "expire"
        /\ e \in Int /\ duration \in Int
    BY <1>2, Inputs DEF Forever
  <1>4. CASE st' = st /\ r # "Ok"
    BY <1>2, <1>3, <1>4, BansFollow
  <1>5. CASE /\ p \notin DOMAIN st /\ r = "Ok"
             /\ st' = Put(st, p, [expires |-> Expiry(e, duration), reason |-> reason])
    <2>1. /\ DOMAIN st' = DOMAIN st \cup {p} /\ st'[p].expires = Expiry(e, duration)
          /\ \A q \in DOMAIN st : st'[q] = st[q]
      BY <1>5 DEF Put
    <2>2. op = "ban" /\ r = "Ok" =>
            /\ a[1] \notin DOMAIN st /\ a[1] \in DOMAIN st'
            /\ a[2] \in Int /\ a[3] \in Int
            /\ st'[a[1]].expires = Expiry(a[2], a[3])
      BY <1>3, <1>5, <2>1
    <2>3. \A q \in DOMAIN st' : \/ q \in DOMAIN st /\ st'[q] = st[q]
                                \/ op = "ban" /\ r = "Ok" /\ a[1] = q
      BY <1>2, <1>3, <1>5, <2>1
    <2>4. \A q \in DOMAIN st : q \in DOMAIN st' <=>
            /\ ~(op = "unban" /\ a[1] = q)
            /\ ~(op = "expire" /\ ~(st[q].expires = Forever \/ a[1] < st[q].expires))
      BY <1>3, <2>1
    <2> QED BY <1>2, <2>2, <2>3, <2>4, BansFollow
  <1> QED BY <1>2, <1>4, <1>5

\* A ban is lifted, or there is none to lift (unban).
LEMMA BlockUnbans ==
  ASSUME BansInv, kind = "peer_blocklist", kind' = kind, unban
  PROVE  BansInv'
  <1>1. PICK p \in Peers, e \in Epochs :
          \/ p \notin DOMAIN st /\ st' = st /\ Return("unban", <<p, e>>, FALSE)
          \/ p \in DOMAIN st /\ st' = Without(st, p) /\ Return("unban", <<p, e>>, TRUE)
    BY DEF unban, Refused
  <1>2. PICK op, a, r, n : op = "unban" /\ a = <<p, e>> /\ n = Len(calls) + 1 /\ Return(op, a, r)
    BY <1>1
  <1>3. a[1] = p /\ op # "ban" /\ op # "expire"
    BY <1>2
  <1>4. DOMAIN st' = DOMAIN st \ {p} /\ \A q \in DOMAIN st' : st'[q] = st[q]
    BY <1>1 DEF Without
  <1>5. \A q \in DOMAIN st' : \/ q \in DOMAIN st /\ st'[q] = st[q]
                              \/ op = "ban" /\ r = "Ok" /\ a[1] = q
    BY <1>4
  <1>6. \A q \in DOMAIN st : q \in DOMAIN st' <=>
          /\ ~(op = "unban" /\ a[1] = q)
          /\ ~(op = "expire" /\ ~(st[q].expires = Forever \/ a[1] < st[q].expires))
    BY <1>2, <1>3, <1>4
  <1> QED BY <1>2, <1>3, <1>5, <1>6, BansFollow

\* The bans that have run out are swept (expire).
LEMMA BlockExpires ==
  ASSUME BansInv, kind = "peer_blocklist", kind' = kind, kind \in Kinds, expire_bans
  PROVE  BansInv'
  <1>1. PICK e \in Epochs :
          /\ st' = Dropping(st, { p \in DOMAIN st : st[p].expires # Forever /\ e >= st[p].expires })
          /\ Return("expire", <<e>>,
                    { p \in DOMAIN st : st[p].expires # Forever /\ e >= st[p].expires })
    BY DEF expire_bans
  <1>2. PICK op, a, r, n : op = "expire" /\ a = <<e>> /\ n = Len(calls) + 1 /\ Return(op, a, r)
    BY <1>1
  <1>3. a[1] = e /\ op # "ban" /\ op # "unban" /\ e \in Nat
    BY <1>2, Inputs
  <1>4. \A q \in DOMAIN st : st[q].expires \in Int
    <2>1. \A i \in BansMade : Arg(i, 2) \in Int /\ Arg(i, 3) \in Int
      BY DEF BansInv
    <2>2. \A i \in BansMade : Runs(i) \in Int
      BY <2>1 DEF Runs, Expiry, Forever
    <2> QED BY <2>2 DEF BansInv
  <1>5. /\ DOMAIN st' = { q \in DOMAIN st : st[q].expires = Forever \/ e < st[q].expires }
        /\ \A q \in DOMAIN st' : st'[q] = st[q]
    BY <1>1, <1>3, <1>4 DEF Dropping
  <1>6. \A q \in DOMAIN st' : \/ q \in DOMAIN st /\ st'[q] = st[q]
                              \/ op = "ban" /\ r = "Ok" /\ a[1] = q
    BY <1>5
  <1>7. \A q \in DOMAIN st : q \in DOMAIN st' <=>
          /\ ~(op = "unban" /\ a[1] = q)
          /\ ~(op = "expire" /\ ~(st[q].expires = Forever \/ a[1] < st[q].expires))
    BY <1>2, <1>3, <1>5
  <1> QED BY <1>2, <1>3, <1>6, <1>7, BansFollow
-----------------------------------------------------------------------------
(* Connections (peer_connection_pool.rs). *)

Connections == [state : 0..2, used : Nat]
Releases == { c \in Made("release") : Got(c, TRUE) }

\* An idle connection was released at the epoch it carries.
PoolInv ==
    kind = "peer_connection_pool" =>
      /\ IsSeq(calls)
      /\ \A p \in DOMAIN st :
           /\ st[p] \in Connections
           /\ st[p].state = 0 => \E c \in Releases : Arg(c, 1) = p /\ Arg(c, 2) = st[p].used
      /\ EvictsOnlyIdle

\* A call leaves an idle connection alone or is the release that makes it idle,
\* and evicts the idle ones only.
LEMMA PoolFollows ==
  ASSUME PoolInv, kind = "peer_connection_pool", kind' = kind,
         NEW op, NEW args, NEW result, Return(op, args, result), NEW n, n = Len(calls) + 1,
         \A p \in DOMAIN st' :
           /\ st'[p] \in Connections
           /\ st'[p].state = 0 =>
                \/ p \in DOMAIN st /\ st'[p] = st[p]
                \/ op = "release" /\ result = TRUE /\ args[1] = p /\ args[2] = st'[p].used,
         op = "evict" =>
           \A p \in result : /\ p \in DOMAIN st /\ st[p].state = 0
                             /\ args[1] >= st[p].used + MAX_IDLE_EPOCHS
  PROVE  PoolInv'
  <1>1. IsSeq(calls)
    BY DEF PoolInv
  <1>2. /\ n \in Nat \ {0} /\ Len(calls) = n - 1 /\ IsSeq(calls')
        /\ Made("release") \subseteq 1..(n - 1)
        /\ Made("release")' = IF op = "release" THEN Made("release") \cup {n} ELSE Made("release")
        /\ Made("evict") \subseteq 1..(n - 1)
        /\ Made("evict")' = IF op = "evict" THEN Made("evict") \cup {n} ELSE Made("evict")
        /\ \A i \in 1..(n - 1) : calls'[i] = calls[i]
        /\ \A i \in 1..(n - 1) : \A k : Arg(i, k)' = Arg(i, k)
        /\ calls'[n].result = result
        /\ \A k : Arg(n, k)' = args[k]
    BY <1>1, NewCall
  <1>3. \A i \in 1..(n - 1) : Got(i, TRUE)' <=> Got(i, TRUE)
    <2>1. \A i \in 1..(n - 1) : \A r : Got(i, r)' <=> Got(i, r)
      BY <1>1, NewCall
    <2> QED BY <2>1
  <1>4. Got(n, TRUE)' <=> result = TRUE
    <2>1. \A r : Got(n, r)' <=> result = r
      BY <1>1, NewCall
    <2> QED BY <2>1
  <1>5. ASSUME NEW c \in Releases
        PROVE  /\ c \in Made("release") /\ c \in 1..(n - 1) /\ c \in Releases'
               /\ c \in Made("release")' /\ Got(c, TRUE) /\ Got(c, TRUE)'
               /\ Arg(c, 1)' = Arg(c, 1) /\ Arg(c, 2)' = Arg(c, 2)
    <2>1. c \in Made("release") /\ Got(c, TRUE)
      BY DEF Releases
    <2>2. c \in 1..(n - 1) /\ c \in Made("release")'
      BY <1>2, <2>1
    <2>3. Got(c, TRUE)'
      BY <1>3, <2>1, <2>2
    <2>4. Arg(c, 1)' = Arg(c, 1) /\ Arg(c, 2)' = Arg(c, 2)
      BY <1>2, <2>2
    <2>5. c \in Releases'
      BY <2>2, <2>3 DEF Releases
    <2> QED BY <2>1, <2>2, <2>3, <2>4, <2>5
  <1>6. ASSUME NEW p \in DOMAIN st', st'[p].state = 0
        PROVE  \E c \in Releases' : Arg(c, 1)' = p /\ Arg(c, 2)' = st'[p].used
    <2>1. CASE p \in DOMAIN st /\ st'[p] = st[p]
      <3>1. PICK c \in Releases : Arg(c, 1) = p /\ Arg(c, 2) = st[p].used
        BY <1>6, <2>1 DEF PoolInv
      <3> QED BY <1>5, <2>1, <3>1
    <2>2. CASE op = "release" /\ result = TRUE /\ args[1] = p /\ args[2] = st'[p].used
      <3>1. n \in Releases'
        BY <1>2, <1>4, <2>2 DEF Releases
      <3> QED BY <1>2, <2>2, <3>1
    <2> QED BY <1>6, <2>1, <2>2
  <1>7. ASSUME NEW i \in Made("evict")', NEW p \in calls'[i].result
        PROVE  \E c \in Made("release")' \cap 1..(i - 1) :
                 /\ Arg(c, 1)' = p /\ Got(c, TRUE)'
                 /\ Arg(i, 1)' >= Arg(c, 2)' + MAX_IDLE_EPOCHS
    <2>1. CASE i \in Made("evict")
      <3>1. i \in 1..(n - 1) /\ calls'[i] = calls[i] /\ Arg(i, 1)' = Arg(i, 1)
        BY <1>2, <2>1
      <3>2. PICK c \in Made("release") \cap 1..(i - 1) :
              Arg(c, 1) = p /\ Got(c, TRUE) /\ Arg(i, 1) >= Arg(c, 2) + MAX_IDLE_EPOCHS
        BY <1>7, <2>1, <3>1 DEF PoolInv, EvictsOnlyIdle
      <3>3. c \in Releases
        BY <3>2 DEF Releases
      <3> QED BY <1>5, <3>1, <3>2, <3>3
    <2>2. CASE i = n /\ op = "evict"
      <3>1. p \in result
        BY <1>2, <1>7, <2>2
      <3>2. p \in DOMAIN st /\ st[p].state = 0 /\ args[1] >= st[p].used + MAX_IDLE_EPOCHS
        BY <2>2, <3>1
      <3>3. PICK c \in Releases : Arg(c, 1) = p /\ Arg(c, 2) = st[p].used
        BY <3>2 DEF PoolInv
      <3>4. /\ c \in Made("release")' /\ c \in 1..(i - 1) /\ Got(c, TRUE)'
            /\ Arg(c, 1)' = p /\ Arg(c, 2)' = st[p].used
        BY <1>5, <2>2, <3>3
      <3>5. Arg(i, 1)' = args[1]
        BY <1>2, <2>2
      <3> QED BY <3>2, <3>4, <3>5
    <2> QED BY <1>2, <2>1, <2>2
  <1>8. EvictsOnlyIdle'
    BY <1>7 DEF EvictsOnlyIdle
  <1> QED BY <1>2, <1>6, <1>8 DEF PoolInv

\* A connection that is made or used again is not idle (connect).
LEMMA PoolConnects ==
  ASSUME PoolInv, kind = "peer_connection_pool", kind' = kind, kind \in Kinds, connect
  PROVE  PoolInv'
  <1>1. PICK p \in Peers, e \in Epochs :
          \/ /\ p \in DOMAIN st /\ st' = [st EXCEPT ![p] = [state |-> 1, used |-> e]]
             /\ Return("connect", <<p, e>>, "Ok")
          \/ st' = st /\ Return("connect", <<p, e>>, "Ok")
          \/ st' = st /\ Return("connect", <<p, e>>, "InvalidTransition")
          \/ st' = st /\ Return("connect", <<p, e>>, "PoolFull")
          \/ /\ st' = Put(st, p, [state |-> 1, used |-> e])
             /\ Return("connect", <<p, e>>, "Ok")
    BY DEF connect, Refused
  <1>2. PICK op, a, r, n : op = "connect" /\ n = Len(calls) + 1 /\ Return(op, a, r)
    BY <1>1
  <1>3. op # "release" /\ op # "evict" /\ e \in Nat
    BY <1>2, Inputs
  <1>4. \A q \in DOMAIN st : st[q] \in Connections
    BY DEF PoolInv
  <1>5. PICK v : v = [state |-> 1, used |-> e]
    OBVIOUS
  <1>6. v \in Connections /\ v.state = 1
    BY <1>3, <1>5 DEF Connections
  <1>7. \A q \in DOMAIN st' : (q \in DOMAIN st /\ st'[q] = st[q]) \/ st'[q] = v
    BY <1>1, <1>5 DEF Put
  <1>8. \A q \in DOMAIN st' : /\ st'[q] \in Connections
                              /\ st'[q].state = 0 => q \in DOMAIN st /\ st'[q] = st[q]
    BY <1>4, <1>6, <1>7
  <1> QED BY <1>2, <1>3, <1>8, PoolFollows

\* A connection in use becomes idle at the epoch of the call (release).
LEMMA PoolReleases ==
  ASSUME PoolInv, kind = "peer_connection_pool", kind' = kind, kind \in Kinds, release
  PROVE  PoolInv'
  <1>1. PICK p \in Peers, e \in Epochs :
          \/ /\ p \in DOMAIN st /\ st' = [st EXCEPT ![p] = [state |-> 0, used |-> e]]
             /\ Return("release", <<p, e>>, TRUE)
          \/ st' = st /\ Return("release", <<p, e>>, FALSE)
    BY DEF release, Refused
  <1>2. \A q \in DOMAIN st : st[q] \in Connections
    BY DEF PoolInv
  <1>3. PICK op, a, r, n, v : /\ op = "release" /\ a = <<p, e>> /\ n = Len(calls) + 1
                              /\ v = [state |-> 0, used |-> e]
                              /\ Return(op, a, r)
                              /\ \/ r = TRUE /\ p \in DOMAIN st /\ st' = [st EXCEPT ![p] = v]
                                 \/ st' = st
    BY <1>1
  <1>4. op # "evict" /\ e \in Nat /\ a[1] = p /\ a[2] = e
    BY <1>3, Inputs
  <1>5. v \in Connections /\ v.used = e
    BY <1>3, <1>4 DEF Connections
  <1>6. \A q \in DOMAIN st' : \/ q \in DOMAIN st /\ st'[q] = st[q]
                              \/ r = TRUE /\ q = p /\ st'[q] = v
    BY <1>3
  <1>7. \A q \in DOMAIN st' :
          /\ st'[q] \in Connections
          /\ st'[q].state = 0 =>
               \/ q \in DOMAIN st /\ st'[q] = st[q]
               \/ op = "release" /\ r = TRUE /\ a[1] = q /\ a[2] = st'[q].used
    BY <1>2, <1>3, <1>4, <1>5, <1>6
  <1>8. op = "evict" =>
          \A q \in r : /\ q \in DOMAIN st /\ st[q].state = 0
                       /\ a[1] >= st[q].used + MAX_IDLE_EPOCHS
    BY <1>4
  <1>9. Return(op, a, r) /\ n = Len(calls) + 1
    BY <1>3
  <1> QED BY <1>7, <1>8, <1>9, PoolFollows

\* A draining connection is not idle, and a closed one is gone (drain, close).
LEMMA PoolDrains ==
  ASSUME PoolInv, kind = "peer_connection_pool", kind' = kind, drain \/ close
  PROVE  PoolInv'
  <1>1. \A q \in DOMAIN st : st[q] \in Connections
    BY DEF PoolInv
  <1>2. ASSUME drain
        PROVE  \E op, a, r, p : /\ op = "drain" /\ Return(op, a, r)
                                /\ \/ st' = st
                                   \/ p \in DOMAIN st /\ st' = [st EXCEPT ![p].state = 2]
    BY <1>2 DEF drain, Refused
  <1>3. ASSUME close
        PROVE  \E op, a, r, p : /\ op = "close" /\ Return(op, a, r)
                                /\ st' = st \/ st' = Without(st, p)
    BY <1>3 DEF close, Refused
  <1>4. PICK op, a, r, p, n : /\ op \in {"drain", "close"} /\ n = Len(calls) + 1 /\ Return(op, a, r)
                              /\ \/ st' = st
                                 \/ p \in DOMAIN st /\ st' = [st EXCEPT ![p].state = 2]
                                 \/ st' = Without(st, p)
    BY <1>2, <1>3
  <1>5. op # "release" /\ op # "evict"
    BY <1>4
  <1>6. \A q \in DOMAIN st' : /\ q \in DOMAIN st
                              /\ st'[q] = st[q] \/ st'[q] = [st[q] EXCEPT !.state = 2]
    BY <1>4 DEF Without
  <1>7. \A q \in DOMAIN st : /\ [st[q] EXCEPT !.state = 2] \in Connections
                             /\ [st[q] EXCEPT !.state = 2].state = 2
    BY <1>1 DEF Connections
  <1>8. \A q \in DOMAIN st' : /\ st'[q] \in Connections
                              /\ st'[q].state = 0 => q \in DOMAIN st /\ st'[q] = st[q]
    <2> SUFFICES ASSUME NEW q \in DOMAIN st'
                 PROVE  /\ st'[q] \in Connections
                        /\ st'[q].state = 0 => q \in DOMAIN st /\ st'[q] = st[q]
      OBVIOUS
    <2>1. q \in DOMAIN st
      BY <1>6
    <2>2. CASE st'[q] = st[q]
      BY <1>1, <2>1, <2>2
    <2>3. CASE st'[q] = [st[q] EXCEPT !.state = 2]
      BY <1>7, <2>1, <2>3
    <2> QED BY <1>6, <2>2, <2>3
  <1> QED BY <1>4, <1>5, <1>8, PoolFollows

\* The connections evicted are idle, and long enough (evict_idle).
LEMMA PoolEvicts ==
  ASSUME PoolInv, kind = "peer_connection_pool", kind' = kind, evict_idle
  PROVE  PoolInv'
  <1>1. PICK e \in Epochs : /\ st' = Dropping(st, IdleTooLong(e))
                            /\ Return("evict", <<e>>, IdleTooLong(e))
    BY DEF evict_idle
  <1>2. PICK op, a, r, n : /\ op = "evict" /\ a = <<e>> /\ r = IdleTooLong(e)
                           /\ n = Len(calls) + 1 /\ Return(op, a, r)
    BY <1>1
  <1>3. a[1] = e
    BY <1>2
  <1>4. \A q \in DOMAIN st' : q \in DOMAIN st /\ st'[q] = st[q]
    BY <1>1 DEF Dropping
  <1>5. \A q \in DOMAIN st' : /\ st'[q] \in Connections
                              /\ st'[q].state = 0 => q \in DOMAIN st /\ st'[q] = st[q]
    BY <1>4 DEF PoolInv
  <1>6. \A q \in r : /\ q \in DOMAIN st /\ st[q].state = 0
                     /\ a[1] >= st[q].used + MAX_IDLE_EPOCHS
    BY <1>2, <1>3 DEF IdleTooLong
  <1> QED BY <1>2, <1>5, <1>6, PoolFollows
-----------------------------------------------------------------------------
(* The size of the tables. *)

\* A set that grows by at most one element, and only below its limit.
LEMMA BoundedTable ==
  ASSUME NEW S, NEW T, NEW p, NEW max \in Nat, IsFiniteSet(S), Cardinality(S) <= max,
         T \subseteq S \cup {p}, p \in T /\ p \notin S => ~(Cardinality(S) >= max)
  PROVE  IsFiniteSet(T) /\ Cardinality(T) <= max
  <1>1. Cardinality(S) \in Nat
    BY FS_CardinalityType
  <1>2. CASE T \subseteq S
    <2>1. IsFiniteSet(T) /\ Cardinality(T) <= Cardinality(S)
      BY <1>2, FS_Subset
    <2>2. Cardinality(T) \in Nat
      BY <2>1, FS_CardinalityType
    <2> QED BY <1>1, <2>1, <2>2
  <1>3. CASE ~(T \subseteq S)
    <2>1. p \in T /\ p \notin S
      BY <1>3
    <2>2. IsFiniteSet(S \cup {p}) /\ Cardinality(S \cup {p}) = Cardinality(S) + 1
      BY <2>1, OneMore
    <2>3. IsFiniteSet(T) /\ Cardinality(T) <= Cardinality(S \cup {p})
      BY <2>2, FS_Subset
    <2>4. Cardinality(T) \in Nat
      BY <2>3, FS_CardinalityType
    <2> QED BY <1>1, <2>1, <2>2, <2>3, <2>4
  <1> QED BY <1>2, <1>3

LimitedKinds == {"peer_blocklist", "peer_connection_pool", "peer_address_book", "routing_table"}
TableLimit ==
    CASE kind = "peer_blocklist" -> MAX_BLOCKLIST_SIZE
      [] kind = "peer_connection_pool" -> MAX_POOL_SIZE
      [] kind = "peer_address_book" -> MAX_BOOK_SIZE
      [] OTHER -> MAX_ROUTES

TablesInv ==
    /\ kind \in LimitedKinds => IsFiniteSet(DOMAIN st) /\ Cardinality(DOMAIN st) <= TableLimit
    /\ kind = "topic_subscription" =>
         \A p \in DOMAIN st : IsFiniteSet(st[p]) /\ Cardinality(st[p]) <= MAX_TOPICS_PER_PEER
    /\ kind = "peer_reputation" => \A p \in DOMAIN st : st[p].score \in 0..100

\* A call adds at most one peer to a table, and none to a full one.
LEMMA TableGrows ==
  ASSUME kind \in LimitedKinds, IsFiniteSet(DOMAIN st), Next
  PROVE  \E p : /\ DOMAIN st' \subseteq DOMAIN st \cup {p}
                /\ p \in DOMAIN st' /\ p \notin DOMAIN st => ~(Cardinality(DOMAIN st) >= TableLimit)
  <1>1. PeerNext
    BY Dispatch DEF LimitedKinds, PeerKinds
  <1>2. /\ kind = "peer_blocklist" => ban \/ unban \/ expire_bans
        /\ kind = "peer_connection_pool" => connect \/ release \/ drain \/ close \/ evict_idle
        /\ kind = "peer_address_book" => register_address \/ remove_address
        /\ kind = "routing_table" => insert_route \/ remove_route
    BY <1>1, PeerServed
  <1>3. CASE kind = "peer_blocklist"
    <2>1. TableLimit = MAX_BLOCKLIST_SIZE
      BY <1>3 DEF TableLimit
    <2>2. CASE ban
      <3>1. PICK p, e, v :
              \/ st' = st
              \/ ~(Cardinality(DOMAIN st) >= MAX_BLOCKLIST_SIZE) /\ st' = Put(st, p, v)
        BY <2>2 DEF ban, Refused
      <3>2. /\ DOMAIN st' \subseteq DOMAIN st \cup {p}
            /\ p \in DOMAIN st' /\ p \notin DOMAIN st =>
                 ~(Cardinality(DOMAIN st) >= MAX_BLOCKLIST_SIZE)
        BY <3>1 DEF Put
      <3> QED BY <2>1, <3>2
    <2>3. CASE unban \/ expire_bans
      <3>1. DOMAIN st' \subseteq DOMAIN st
        BY <2>3 DEF unban, expire_bans, Refused, Without, Dropping
      <3> QED BY <3>1
    <2> QED BY <1>2, <1>3, <2>2, <2>3
  <1>4. CASE kind = "peer_connection_pool"
    <2>1. TableLimit = MAX_POOL_SIZE
      BY <1>4 DEF TableLimit
    <2>2. CASE connect
      <3>1. PICK p, v :
              \/ DOMAIN st' = DOMAIN st
              \/ Cardinality(DOMAIN st) < MAX_POOL_SIZE /\ st' = Put(st, p, v)
        BY <2>2 DEF connect, Refused
      <3>2. Cardinality(DOMAIN st) \in Nat /\ MAX_POOL_SIZE \in Nat
        BY FS_CardinalityType, PeerAssumption
      <3> QED BY <2>1, <3>1, <3>2 DEF Put
    <2>3. CASE release \/ drain
      <3>1. DOMAIN st' = DOMAIN st
        BY <2>3 DEF release, drain, Refused
      <3> QED BY <3>1
    <2>4. CASE close \/ evict_idle
      <3>1. DOMAIN st' \subseteq DOMAIN st
        BY <2>4 DEF close, evict_idle, Refused, Without, Dropping
      <3> QED BY <3>1
    <2> QED BY <1>2, <1>4, <2>2, <2>3, <2>4
  <1>5. CASE kind = "peer_address_book"
    <2>1. TableLimit = MAX_BOOK_SIZE
      BY <1>5 DEF TableLimit
    <2>2. CASE register_address
      <3>1. PICK p, e, v :
              \/ st' = st
              \/ AddressError(p, e) = "Ok" /\ st' = Put(st, p, v)
        BY <2>2 DEF register_address, Refused
      <3>2. AddressError(p, e) = "Ok" =>
              p \in DOMAIN st \/ ~(Cardinality(DOMAIN st) >= MAX_BOOK_SIZE)
        BY DEF AddressError
      <3> QED BY <2>1, <3>1, <3>2 DEF Put
    <2>3. CASE remove_address
      <3>1. DOMAIN st' \subseteq DOMAIN st
        BY <2>3 DEF remove_address, Refused, Without
      <3> QED BY <3>1
    <2> QED BY <1>2, <1>5, <2>2, <2>3
  <1>6. CASE kind = "routing_table"
    <2>1. TableLimit = MAX_ROUTES
      BY <1>6 DEF TableLimit
    <2>2. CASE insert_route
      <3>1. PICK p, v :
              \/ st' = st
              \/ /\ ~(p \notin DOMAIN st /\ Cardinality(DOMAIN st) >= MAX_ROUTES)
                 /\ st' = Put(st, p, v)
        BY <2>2 DEF insert_route, Refused
      <3> QED BY <2>1, <3>1 DEF Put
    <2>3. CASE remove_route
      <3>1. DOMAIN st' \subseteq DOMAIN st
        BY <2>3 DEF remove_route, Refused, Without
      <3> QED BY <3>1
    <2> QED BY <1>2, <1>6, <2>2, <2>3
  <1> QED BY <1>3, <1>4, <1>5, <1>6 DEF LimitedKinds

\* A peer subscribes below its limit only, and may leave (subscribe, unsubscribe).
LEMMA TopicsBounded ==
  ASSUME TablesInv, kind = "topic_subscription", kind' = kind, subscribe \/ unsubscribe
  PROVE  \A p \in DOMAIN st' : IsFiniteSet(st'[p]) /\ Cardinality(st'[p]) <= MAX_TOPICS_PER_PEER
  <1>1. MAX_TOPICS_PER_PEER \in Nat
    BY PeerAssumption
  <1>2. \A p : /\ IsFiniteSet(Get(st, p, {}))
               /\ Cardinality(Get(st, p, {})) <= MAX_TOPICS_PER_PEER
    <2>1. IsFiniteSet({}) /\ Cardinality({}) = 0
      BY FS_EmptySet
    <2> QED BY <1>1, <2>1 DEF TablesInv, Get
  <1>3. CASE subscribe
    <2>1. PICK p \in Peers, topic \in Ids :
            LET topics == Get(st, p, {})
                accept == topic \notin topics /\ Cardinality(topics) < MAX_TOPICS_PER_PEER
            IN  st' = Put(st, p, IF accept THEN topics \cup {topic} ELSE topics)
      BY <1>3 DEF subscribe
    <2>2. PICK topics, next :
            /\ topics = Get(st, p, {}) /\ st' = Put(st, p, next)
            /\ next = IF topic \notin topics /\ Cardinality(topics) < MAX_TOPICS_PER_PEER
                      THEN topics \cup {topic} ELSE topics
      BY <2>1
    <2>3. IsFiniteSet(topics) /\ Cardinality(topics) <= MAX_TOPICS_PER_PEER
      BY <1>2, <2>2
    <2>4. Cardinality(topics) \in Nat
      BY <2>3, FS_CardinalityType
    <2>5. /\ next \subseteq topics \cup {topic}
          /\ topic \in next /\ topic \notin topics =>
               ~(Cardinality(topics) >= MAX_TOPICS_PER_PEER)
      BY <1>1, <2>2, <2>4
    <2>6. IsFiniteSet(next) /\ Cardinality(next) <= MAX_TOPICS_PER_PEER
      BY <1>1, <2>3, <2>5, BoundedTable
    <2>7. \A q \in DOMAIN st' : st'[q] = next \/ (q \in DOMAIN st /\ st'[q] = st[q])
      BY <2>2 DEF Put
    <2> QED BY <2>6, <2>7 DEF TablesInv
  <1>4. CASE unsubscribe
    <2>1. PICK p \in Peers, topic \in Ids : st' = st \/ st' = [st EXCEPT ![p] = @ \ {topic}]
      BY <1>4 DEF unsubscribe, Refused
    <2>2. \A q \in DOMAIN st' : q \in DOMAIN st /\ st'[q] \subseteq st[q]
      BY <2>1
    <2> SUFFICES ASSUME NEW q \in DOMAIN st'
                 PROVE  IsFiniteSet(st'[q]) /\ Cardinality(st'[q]) <= MAX_TOPICS_PER_PEER
      OBVIOUS
    <2>3. IsFiniteSet(st[q]) /\ Cardinality(st[q]) <= MAX_TOPICS_PER_PEER
      BY <2>2 DEF TablesInv
    <2>4. IsFiniteSet(st'[q]) /\ Cardinality(st'[q]) <= Cardinality(st[q])
      BY <2>2, <2>3, FS_Subset
    <2>5. Cardinality(st[q]) \in Nat /\ Cardinality(st'[q]) \in Nat
      BY <2>3, <2>4, FS_CardinalityType
    <2> QED BY <1>1, <2>3, <2>4, <2>5
  <1> QED BY <1>3, <1>4

\* A score stays on its scale, whatever the event takes or adds (record_event).
LEMMA ScoresClamped ==
  ASSUME TablesInv, kind = "peer_reputation", kind' = kind, record_event
  PROVE  \A p \in DOMAIN st' : st'[p].score \in 0..100
  <1>1. PICK p, delta, h : delta \in Deltas /\
          LET before == Get(st, p, [score |-> INITIAL_SCORE, events |-> 0, positive |-> 0,
                                    negative |-> 0, hash |-> h])
              score == Clamped(before.score + delta)
              events == before.events + 1
          IN  st' = Put(st, p,
                  [score |-> score, events |-> events,
                   positive |-> before.positive + Byte(delta > 0),
                   negative |-> before.negative + Byte(delta <= 0),
                   hash |-> Sha256(before.hash, <<p, score, events>>, 1..3)])
    BY DEF record_event
  <1>2. PICK before : before = Get(st, p, [score |-> INITIAL_SCORE, events |-> 0, positive |-> 0,
                                           negative |-> 0, hash |-> h])
    OBVIOUS
  <1>3. before.score \in 0..100
    <2>1. CASE p \in DOMAIN st
      BY <1>2, <2>1 DEF TablesInv, Get
    <2>2. CASE p \notin DOMAIN st
      BY <1>2, <2>2 DEF Get, INITIAL_SCORE
    <2> QED BY <2>1, <2>2
  <1>4. delta \in Int
    BY <1>1 DEF Deltas
  <1>5. PICK score : score = Clamped(before.score + delta)
    OBVIOUS
  <1>6. score \in 0..100
    BY <1>3, <1>4, <1>5 DEF Clamped, AtMost
  <1>7. PICK a, b, c, d :
          st' = Put(st, p, [score |-> score, events |-> a, positive |-> b, negative |-> c,
                            hash |-> d])
    BY <1>1, <1>2, <1>5
  <1>8. \A q \in DOMAIN st' : st'[q].score = score \/ (q \in DOMAIN st /\ st'[q] = st[q])
    BY <1>7 DEF Put
  <1> QED BY <1>6, <1>8 DEF TablesInv

\* What the tables and the histories of the peers' services keep.
PeerInv == kind \in Kinds /\ BansInv /\ PoolInv /\ TablesInv

\* No table of peers outgrows its limit and no score its scale, no ban ends
\* before it runs out or is lifted and none after, and no connection is evicted
\* that was not released and left idle for as long as the limit says
\* (peer_blocklist.rs, peer_connection_pool.rs, peer_address_book.rs,
\* routing_table.rs, topic_subscription.rs, peer_reputation.rs).
THEOREM PeersLimited == Spec => [](TablesBounded /\ BansLast /\ EvictsOnlyIdle)
  <1>1. Init => PeerInv
    <2> SUFFICES ASSUME Init PROVE PeerInv
      OBVIOUS
    <2>1. kind \in Kinds /\ IsSeq(calls) /\ DOMAIN calls = {}
      BY Starts DEF Init
    <2>2. \A o : Made(o) = {}
      BY <2>1 DEF Made
    <2>3. kind \in PeerKinds => PeerInit
      BY Starts
    <2>4. kind \in LimitedKinds \cup {"topic_subscription", "peer_reputation"} => DOMAIN st = {}
      BY <2>3 DEF PeerInit, PeerKinds, LimitedKinds
    <2>5. BansInv /\ PoolInv
      BY <2>1, <2>2, <2>4 DEF BansInv, BansMade, PoolInv, LimitedKinds, EvictsOnlyIdle
    <2>6. TablesInv
      <3>1. IsFiniteSet({}) /\ Cardinality({}) = 0
        BY FS_EmptySet
      <3>2. TableLimit \in Nat
        BY PeerAssumption DEF TableLimit
      <3> QED BY <2>4, <3>1, <3>2 DEF TablesInv
    <2> QED BY <2>1, <2>5, <2>6 DEF PeerInv
  <1>2. PeerInv /\ [Next]_vars => PeerInv'
    <2> SUFFICES ASSUME PeerInv, [Next]_vars PROVE PeerInv'
      OBVIOUS
    <2>1. CASE UNCHANGED vars
      <3>1. kind' = kind /\ calls' = calls /\ st' = st
        BY <2>1 DEF vars
      <3>2. BansInv'
        BY <3>1 DEF PeerInv, BansInv, BansMade, Lasts, Lifts, Runs, Made, Arg, Got
      <3>3. PoolInv'
        BY <3>1 DEF PeerInv, PoolInv, Releases, EvictsOnlyIdle, Made, Arg, Got
      <3>4. TablesInv'
        BY <3>1 DEF PeerInv, TablesInv, TableLimit
      <3> QED BY <3>1, <3>2, <3>3, <3>4 DEF PeerInv
    <2>2. CASE Next
      <3>1. kind' = kind /\ kind \in Kinds
        BY <2>2, Dispatch DEF PeerInv
      <3>2. kind \in PeerKinds =>
              /\ kind = "peer_blocklist" => ban \/ unban \/ expire_bans
              /\ kind = "peer_connection_pool" =>
                   connect \/ release \/ drain \/ close \/ evict_idle
              /\ kind = "topic_subscription" => subscribe \/ unsubscribe
              /\ kind = "peer_reputation" => record_event
        BY <2>2, Dispatch, PeerServed
      <3>3. BansInv'
        <4>1. CASE kind = "peer_blocklist"
          BY <3>1, <3>2, <4>1, BlockBans, BlockUnbans, BlockExpires DEF PeerInv, PeerKinds
        <4>2. CASE kind # "peer_blocklist"
          BY <3>1, <4>2 DEF BansInv
        <4> QED BY <4>1, <4>2
      <3>4. PoolInv'
        <4>1. CASE kind = "peer_connection_pool"
          BY <3>1, <3>2, <4>1, PoolConnects, PoolReleases, PoolDrains, PoolEvicts
             DEF PeerInv, PeerKinds
        <4>2. CASE kind # "peer_connection_pool"
          BY <3>1, <4>2 DEF PoolInv
        <4> QED BY <4>1, <4>2
      <3>5. kind \in LimitedKinds =>
              IsFiniteSet(DOMAIN st') /\ Cardinality(DOMAIN st') <= TableLimit
        <4> SUFFICES ASSUME kind \in LimitedKinds
                     PROVE  IsFiniteSet(DOMAIN st') /\ Cardinality(DOMAIN st') <= TableLimit
          OBVIOUS
        <4>1. PICK p : /\ DOMAIN st' \subseteq DOMAIN st \cup {p}
                       /\ p \in DOMAIN st' /\ p \notin DOMAIN st =>
                            ~(Cardinality(DOMAIN st) >= TableLimit)
          BY <2>2, TableGrows DEF PeerInv, TablesInv
        <4>2. TableLimit \in Nat
          BY PeerAssumption DEF TableLimit
        <4>3. IsFiniteSet(DOMAIN st) /\ Cardinality(DOMAIN st) <= TableLimit
          BY DEF PeerInv, TablesInv
        <4> QED BY <4>1, <4>2, <4>3, BoundedTable
      <3>6. kind = "topic_subscription" =>
              \A p \in DOMAIN st' :
                IsFiniteSet(st'[p]) /\ Cardinality(st'[p]) <= MAX_TOPICS_PER_PEER
        BY <3>1, <3>2, TopicsBounded DEF PeerInv, PeerKinds
      <3>7. kind = "peer_reputation" => \A p \in DOMAIN st' : st'[p].score \in 0..100
        BY <3>1, <3>2, ScoresClamped DEF PeerInv, PeerKinds
      <3>8. TableLimit' = TableLimit
        BY <3>1 DEF TableLimit
      <3>9. TablesInv'
        BY <3>1, <3>5, <3>6, <3>7, <3>8 DEF TablesInv
      <3> QED BY <3>1, <3>3, <3>4, <3>9 DEF PeerInv
    <2> QED BY <2>1, <2>2
  <1>3. PeerInv => TablesBounded /\ BansLast /\ EvictsOnlyIdle
    <2> SUFFICES ASSUME PeerInv PROVE TablesBounded /\ BansLast /\ EvictsOnlyIdle
      OBVIOUS
    <2>1. TablesBounded
      BY DEF PeerInv, TablesInv, TablesBounded, Entries, TableLimit, LimitedKinds
    <2>2. EvictsOnlyIdle
      BY DEF PeerInv, PoolInv, EvictsOnlyIdle
    <2>3. ASSUME kind = "peer_blocklist", NEW p \in Peers, NEW e \in Epochs
          PROVE  is_banned(p, e) <=> \E i \in Made("ban") : Arg(i, 1) = p /\ BanStands(i, e)
      <3>1. \A i : BanStands(i, e) <=> /\ Got(i, "Ok") /\ Lasts(i)
                                       /\ Runs(i) = Forever \/ e < Runs(i)
        BY DEF BanStands, Lasts, Lifts, Runs
      <3>2. ASSUME is_banned(p, e)
            PROVE  \E i \in Made("ban") : Arg(i, 1) = p /\ BanStands(i, e)
        <4>1. p \in DOMAIN st /\ (st[p].expires = Forever \/ e < st[p].expires)
          BY <3>2 DEF is_banned
        <4>2. PICK i \in BansMade : Arg(i, 1) = p /\ Lasts(i) /\ st[p].expires = Runs(i)
          BY <2>3, <4>1 DEF PeerInv, BansInv
        <4> QED BY <3>1, <4>1, <4>2 DEF BansMade
      <3>3. ASSUME NEW i \in Made("ban"), Arg(i, 1) = p, BanStands(i, e)
            PROVE  is_banned(p, e)
        <4>1. i \in BansMade /\ Lasts(i) /\ (Runs(i) = Forever \/ e < Runs(i))
          BY <3>1, <3>3 DEF BansMade
        <4>2. p \in DOMAIN st /\ st[p].expires = Runs(i)
          BY <2>3, <3>3, <4>1 DEF PeerInv, BansInv
        <4> QED BY <4>1, <4>2 DEF is_banned
      <3> QED BY <3>2, <3>3
    <2>4. BansLast
      BY <2>3 DEF BansLast
    <2> QED BY <2>1, <2>2, <2>4
  <1> QED BY <1>1, <1>2, <1>3, PTL DEF Spec
-----------------------------------------------------------------------------
(* What the peers' services do once. *)

\* The numbers in a field of a log ascend iff each is below the next.
LEMMA AscendingIs ==
  ASSUME NEW log, IsSeq(log), NEW f
  PROVE  Ascending(FieldOf(log, f)) <=>
           \A n \in 2..Len(log) : log[n - 1].data[f] < log[n].data[f]
  <1>1. Len(log) \in Nat /\ DOMAIN log = 1..Len(log)
    BY SeqFacts
  <1>2. PICK g, k : g = FieldOf(log, f) /\ k = Len(log)
    OBVIOUS
  <1>3. g = [n \in 1..k |-> g[n]] /\ \A n \in 1..k : g[n] = log[n].data[f]
    BY <1>1, <1>2 DEF FieldOf
  <1>4. Len(g) = k
    BY <1>1, <1>2, <1>3, FunctionIsSeq
  <1>5. \A n \in 2..k : n \in 1..k /\ n - 1 \in 1..k
    BY <1>1, <1>2
  <1> QED BY <1>2, <1>3, <1>4, <1>5 DEF Ascending

\* A record with a number above the last one keeps the numbers ascending.
LEMMA AscendingPush ==
  ASSUME NEW log, IsSeq(log), NEW f, Ascending(FieldOf(log, f)), NEW data, NEW covered,
         \A m \in DOMAIN log : log[m].data[f] \in Nat, data[f] \in Nat,
         log # << >> => data[f] > log[Len(log)].data[f],
         NEW l, l = ChainPush(log, data, covered)
  PROVE  /\ IsSeq(l) /\ \A m \in DOMAIN l : l[m].data[f] \in Nat
         /\ Ascending(FieldOf(l, f))
         /\ \A m \in DOMAIN l : (m \in DOMAIN log /\ l[m] = log[m]) \/ l[m].data = data
  <1>1. PICK e : /\ e = [data |-> data, prev |-> LastHash(log),
                         hash |-> Sha256(LastHash(log), data, covered)]
    OBVIOUS
  <1>2. e.data = data /\ l = Append(log, e)
    BY <1>1 DEF ChainPush
  <1>3. PICK k : k = Len(log)
    OBVIOUS
  <1>4. /\ k \in Nat /\ DOMAIN log = 1..k /\ IsSeq(l) /\ Len(l) = k + 1 /\ DOMAIN l = 1..(k + 1)
        /\ \A m \in 1..k : l[m] = log[m]
        /\ l[k + 1] = e
    BY <1>2, <1>3, AppendSeq
  <1>5. \A m \in 1..(k + 1) : m \in 1..k \/ m = k + 1
    BY <1>4
  <1>6. \A m \in DOMAIN l : (m \in DOMAIN log /\ l[m] = log[m]) \/ l[m].data = data
    BY <1>2, <1>4, <1>5
  <1>7. \A m \in DOMAIN l : l[m].data[f] \in Nat
    BY <1>6
  <1>8. ASSUME NEW n \in 2..(k + 1) PROVE l[n - 1].data[f] < l[n].data[f]
    <2>1. CASE n = k + 1
      <3>1. n - 1 = k /\ k \in 1..k
        BY <1>4, <2>1
      <3>2. log # << >>
        BY <1>4, <3>1
      <3>3. data[f] > log[k].data[f] /\ log[k].data[f] \in Nat
        BY <1>3, <1>4, <3>1, <3>2
      <3>4. l[n - 1] = log[k] /\ l[n].data = data
        BY <1>2, <1>4, <2>1, <3>1
      <3> QED BY <3>3, <3>4
    <2>2. CASE n # k + 1
      <3>1. n \in 2..k /\ n \in 1..k /\ n - 1 \in 1..k
        BY <1>4, <2>2
      <3>2. log[n - 1].data[f] < log[n].data[f]
        BY <1>3, <3>1, AscendingIs
      <3> QED BY <1>4, <3>1, <3>2
    <2> QED BY <2>1, <2>2
  <1>9. Ascending(FieldOf(l, f))
    BY <1>4, <1>8, AscendingIs
  <1> QED BY <1>4, <1>6, <1>7, <1>9

\* The log of an owner after a record was chained to it; the others stay.
LEMMA ChainedIs ==
  ASSUME NEW o, NEW data, logs' = Chained(o, data)
  PROVE  /\ DOMAIN logs' = DOMAIN logs \cup {o}
         /\ logs'[o] = ChainPush(LogOf(o), data, Hashed(data))
         /\ LogOf(o)' = ChainPush(LogOf(o), data, Hashed(data))
         /\ \A p \in DOMAIN logs : p # o => logs'[p] = logs[p]
  BY DEF Chained, LogOf, Put, Get

\* Decay: a peer's epochs ascend (reputation_decay.rs).
DecayInv ==
    kind = "reputation_decay" =>
      \A p \in DOMAIN logs : /\ IsSeq(logs[p]) /\ Ascending(FieldOf(logs[p], 2))
                             /\ \A m \in DOMAIN logs[p] : logs[p][m].data[2] \in Nat

\* A decay at an epoch that is not after the last one is refused (apply_decay).
LEMMA DecayOnce ==
  ASSUME DecayInv, kind = "reputation_decay", kind' = kind, kind \in Kinds, apply_decay
  PROVE  DecayInv'
  <1>1. PICK p \in Peers, e \in Epochs, reason \in 0..2 :
          \/ logs' = logs
          \/ /\ ~(LogOf(p) # << >> /\ e <= LastRecord(p)[2])
             /\ logs' = Chained(p, <<p, e, Get(st, p, INITIAL_SCORE),
                                     SaturatingSub(Get(st, p, INITIAL_SCORE), decay_amount(reason)),
                                     decay_amount(reason), reason>>)
    BY DEF apply_decay, Refused
  <1>2. CASE logs' = logs
    BY <1>2 DEF DecayInv
  <1>3. CASE logs' # logs
    <2>1. PICK d : d[2] = e /\ logs' = Chained(p, d)
      BY <1>1, <1>3
    <2>2. e \in Nat
      BY Inputs
    <2>3. PICK log, l, c : log = LogOf(p) /\ c = Hashed(d) /\ l = ChainPush(log, d, c)
      OBVIOUS
    <2>4. /\ IsSeq(log) /\ Ascending(FieldOf(log, 2))
          /\ \A m \in DOMAIN log : log[m].data[2] \in Nat
      <3>1. CASE p \in DOMAIN logs
        BY <2>3, <3>1 DEF LogOf, Get, DecayInv
      <3>2. CASE p \notin DOMAIN logs
        <4>1. log = << >>
          BY <2>3, <3>2 DEF LogOf, Get
        <4>2. IsSeq(log) /\ DOMAIN log = {} /\ Len(log) = 0
          BY <4>1 DEF IsSeq
        <4> QED BY <4>2, AscendingIs
      <3> QED BY <3>1, <3>2
    <2>5. log # << >> => d[2] > log[Len(log)].data[2]
      <3> SUFFICES ASSUME log # << >> PROVE d[2] > log[Len(log)].data[2]
        OBVIOUS
      <3>1. ~(e <= log[Len(log)].data[2])
        BY <1>1, <1>3, <2>3 DEF LastRecord
      <3>2. Len(log) \in DOMAIN log
        BY <2>4, SeqFacts
      <3> QED BY <2>1, <2>2, <2>4, <3>1, <3>2
    <2>6. /\ IsSeq(l) /\ \A m \in DOMAIN l : l[m].data[2] \in Nat
          /\ Ascending(FieldOf(l, 2))
      BY <2>1, <2>2, <2>3, <2>4, <2>5, AscendingPush
    <2>7. \A q \in DOMAIN logs' : logs'[q] = l \/ (q \in DOMAIN logs /\ logs'[q] = logs[q])
      <3>1. /\ DOMAIN logs' = DOMAIN logs \cup {p}
            /\ logs'[p] = ChainPush(LogOf(p), d, Hashed(d))
            /\ \A q \in DOMAIN logs : q # p => logs'[q] = logs[q]
        BY <2>1, ChainedIs
      <3> QED BY <2>3, <3>1
    <2> QED BY <2>6, <2>7 DEF DecayInv
  <1> QED BY <1>2, <1>3

\* Partitions: the epochs judged ascend (partition_detector.rs).
PartitionInv ==
    kind = "partition_detector" =>
      /\ IsSeq(LogOf(0)) /\ Ascending(FieldOf(LogOf(0), 1))
      /\ \A m \in DOMAIN LogOf(0) : LogOf(0)[m].data[1] \in Nat

\* An epoch that is not after the last one judged is refused (partition_record).
LEMMA PartitionOnce ==
  ASSUME PartitionInv, kind = "partition_detector", kind' = kind, kind \in Kinds,
         partition_record
  PROVE  PartitionInv'
  <1>1. PICK e \in Epochs :
          \/ logs' = logs
          \/ /\ ~(LogOf(0) # << >> /\ e <= LastRecord(0)[1])
             /\ \E a, b, c : logs' = Chained(0, <<e, a, b, c>>)
    BY DEF partition_record, Refused
  <1>2. CASE logs' = logs
    <2>1. LogOf(0)' = LogOf(0)
      BY <1>2 DEF LogOf
    <2> QED BY <2>1 DEF PartitionInv
  <1>3. CASE logs' # logs
    <2>1. PICK d : d[1] = e /\ logs' = Chained(0, d)
      BY <1>1, <1>3
    <2>2. e \in Nat
      BY Inputs
    <2>3. PICK log, l, c : log = LogOf(0) /\ c = Hashed(d) /\ l = ChainPush(log, d, c)
      OBVIOUS
    <2>4. /\ IsSeq(log) /\ Ascending(FieldOf(log, 1))
          /\ \A m \in DOMAIN log : log[m].data[1] \in Nat
      BY <2>3 DEF PartitionInv
    <2>5. log # << >> => d[1] > log[Len(log)].data[1]
      <3> SUFFICES ASSUME log # << >> PROVE d[1] > log[Len(log)].data[1]
        OBVIOUS
      <3>1. ~(e <= log[Len(log)].data[1])
        BY <1>1, <1>3, <2>3 DEF LastRecord
      <3>2. Len(log) \in DOMAIN log
        BY <2>4, SeqFacts
      <3> QED BY <2>1, <2>2, <2>4, <3>1, <3>2
    <2>6. /\ IsSeq(l) /\ \A m \in DOMAIN l : l[m].data[1] \in Nat
          /\ Ascending(FieldOf(l, 1))
      BY <2>1, <2>2, <2>3, <2>4, <2>5, AscendingPush
    <2>7. LogOf(0)' = l
      BY <2>1, <2>3, ChainedIs
    <2> QED BY <2>6, <2>7 DEF PartitionInv
  <1> QED BY <1>2, <1>3

\* Consensus: the peers whose vote of a round was taken (consensus_ledger.rs).
VotesIn(r) == { c \in Made("vote") : Got(c, "Ok") /\ Arg(c, 1) = r }
VotersIn(r) == { Arg(i, 2) : i \in VotesIn(r) }

\* A round's table holds these peers, and a certificate counts no other.
ConsensusInv ==
    kind = "consensus_ledger" =>
      /\ IsSeq(calls) /\ DOMAIN st = Ids
      /\ \A r \in Ids : DOMAIN st[r] = VotersIn(r) /\ VotersIn(r) \subseteq Peers
      /\ IsSeq(LogOf(0)) /\ Ascending(FieldOf(LogOf(0), 1))
      /\ \A m \in DOMAIN LogOf(0) :
           /\ LogOf(0)[m].data[1] \in Ids /\ LogOf(0)[m].data[2] \in Nat
           /\ LogOf(0)[m].data[2] <= Cardinality(VotersIn(LogOf(0)[m].data[1]))

\* A vote is added to the voters of its round if it was taken.
LEMMA VotersGrow ==
  ASSUME IsSeq(calls), NEW op, NEW args, NEW result, Return(op, args, result), NEW r
  PROVE  VotersIn(r)' = VotersIn(r) \cup
           (IF op = "vote" /\ result = "Ok" /\ args[1] = r THEN {args[2]} ELSE {})
  <1>1. PICK n : n = Len(calls) + 1
    OBVIOUS
  <1>2. /\ Made("vote") \subseteq 1..(n - 1) /\ n \notin Made("vote")
        /\ Made("vote")' = IF op = "vote" THEN Made("vote") \cup {n} ELSE Made("vote")
        /\ \A i \in 1..(n - 1) : \A k : Arg(i, k)' = Arg(i, k)
        /\ \A k : Arg(n, k)' = args[k]
    BY <1>1, NewCall
  <1>3. \A i \in 1..(n - 1) : Got(i, "Ok")' <=> Got(i, "Ok")
    <2>1. \A i \in 1..(n - 1) : \A x : Got(i, x)' <=> Got(i, x)
      BY <1>1, NewCall
    <2> QED BY <2>1
  <1>4. Got(n, "Ok")' <=> result = "Ok"
    <2>1. \A x : Got(n, x)' <=> result = x
      BY <1>1, NewCall
    <2> QED BY <2>1
  <1>5. VotesIn(r)' = VotesIn(r) \cup
          (IF op = "vote" /\ result = "Ok" /\ args[1] = r THEN {n} ELSE {})
    BY <1>2, <1>3, <1>4 DEF VotesIn
  <1>6. \A i \in VotesIn(r) : Arg(i, 2)' = Arg(i, 2)
    BY <1>2 DEF VotesIn
  <1>7. Arg(n, 2)' = args[2]
    BY <1>2
  <1>8. VotersIn(r)' = { Arg(i, 2)' : i \in VotesIn(r)' }
    BY DEF VotersIn
  <1> QED BY <1>5, <1>6, <1>7, <1>8 DEF VotersIn

\* A call that writes no certificate.
LEMMA ConsensusFollows ==
  ASSUME ConsensusInv, kind = "consensus_ledger", kind' = kind, kind \in Kinds, logs' = logs,
         NEW op, NEW args, NEW result, Return(op, args, result),
         op = "vote" /\ result = "Ok" => args[2] \in Peers,
         DOMAIN st' = Ids,
         \A r \in Ids : DOMAIN st'[r] = DOMAIN st[r] \cup
           (IF op = "vote" /\ result = "Ok" /\ args[1] = r THEN {args[2]} ELSE {})
  PROVE  ConsensusInv'
  <1>1. IsSeq(calls) /\ Ids' = Ids /\ Peers' = Peers /\ LogOf(0)' = LogOf(0)
    BY DEF ConsensusInv, Ids, Peers, LogOf
  <1>2. IsSeq(calls')
    BY <1>1, OneCall
  <1>3. ASSUME NEW r \in Ids
        PROVE  /\ DOMAIN st'[r] = VotersIn(r)' /\ VotersIn(r)' \subseteq Peers
               /\ VotersIn(r) \subseteq VotersIn(r)'
    <2>1. VotersIn(r)' = VotersIn(r) \cup
            (IF op = "vote" /\ result = "Ok" /\ args[1] = r THEN {args[2]} ELSE {})
      BY <1>1, VotersGrow
    <2>2. DOMAIN st[r] = VotersIn(r) /\ VotersIn(r) \subseteq Peers
      BY DEF ConsensusInv
    <2> QED BY <2>1, <2>2
  <1>4. ASSUME NEW m \in DOMAIN LogOf(0)
        PROVE  LogOf(0)[m].data[2] <= Cardinality(VotersIn(LogOf(0)[m].data[1])')
    <2>1. PICK r, v : r = LogOf(0)[m].data[1] /\ v = LogOf(0)[m].data[2]
      OBVIOUS
    <2>2. r \in Ids /\ v \in Nat /\ v <= Cardinality(VotersIn(r))
      BY <2>1 DEF ConsensusInv
    <2>3. PICK A, B : A = VotersIn(r) /\ B = VotersIn(r)'
      OBVIOUS
    <2>4. A \subseteq B /\ B \subseteq Peers /\ IsFiniteSet(Peers)
      BY <1>3, <2>2, <2>3, Inputs
    <2>5. IsFiniteSet(B)
      BY <2>4, FS_Subset
    <2>6. IsFiniteSet(A) /\ Cardinality(A) <= Cardinality(B)
      BY <2>4, <2>5, FS_Subset
    <2>7. Cardinality(A) \in Nat /\ Cardinality(B) \in Nat
      BY <2>5, <2>6, FS_CardinalityType
    <2>8. v <= Cardinality(B)
      BY <2>2, <2>3, <2>6, <2>7
    <2>9. VotersIn(LogOf(0)[m].data[1])' = VotersIn(r)'
      BY <1>1, <2>1 DEF VotersIn, VotesIn
    <2> QED BY <2>1, <2>3, <2>8, <2>9
  <1>5. \A m \in DOMAIN LogOf(0)' :
          /\ LogOf(0)'[m].data[1] \in Ids' /\ LogOf(0)'[m].data[2] \in Nat
          /\ LogOf(0)'[m].data[2] <= Cardinality(VotersIn(LogOf(0)[m].data[1])')
    BY <1>1, <1>4 DEF ConsensusInv
  <1> QED BY <1>1, <1>2, <1>3, <1>5 DEF ConsensusInv

\* A vote is taken or refused (cast_vote).
LEMMA ConsensusVotes ==
  ASSUME ConsensusInv, kind = "consensus_ledger", kind' = kind, kind \in Kinds, cast_vote
  PROVE  ConsensusInv'
  <1>1. PICK round \in Ids, p \in Peers, e \in Epochs :
          /\ logs' = logs
          /\ \/ st' = st /\ Return("vote", <<round, p>>, "InvalidVoteHash")
             \/ st' = st /\ Return("vote", <<round, p>>, "ProposalMismatch")
             \/ st' = [st EXCEPT ![round] = Put(@, p, e)] /\ Return("vote", <<round, p>>, "Ok")
    BY DEF cast_vote, Refused
  <1>2. PICK op, a, r : /\ op = "vote" /\ a = <<round, p>> /\ Return(op, a, r)
                        /\ \/ st' = st /\ r # "Ok"
                           \/ st' = [st EXCEPT ![round] = Put(@, p, e)] /\ r = "Ok"
    BY <1>1
  <1>3. a[1] = round /\ a[2] = p
    BY <1>2
  <1>4. DOMAIN st = Ids
    BY DEF ConsensusInv
  <1>5. /\ DOMAIN st' = Ids
        /\ \A x \in Ids : DOMAIN st'[x] = DOMAIN st[x] \cup
             (IF op = "vote" /\ r = "Ok" /\ a[1] = x THEN {a[2]} ELSE {})
    BY <1>2, <1>3, <1>4 DEF Put
  <1> QED BY <1>1, <1>2, <1>3, <1>5, ConsensusFollows

\* A round is certified after those certified before it (append_certificate).
LEMMA ConsensusCertifies ==
  ASSUME ConsensusInv, kind = "consensus_ledger", kind' = kind, kind \in Kinds,
         append_certificate
  PROVE  ConsensusInv'
  <1>1. PICK round \in Ids :
          \/ logs' = logs /\ st' = st /\ Return("certify", <<round>>, "StaleRound")
          \/ /\ ~StaleRound(round) /\ st' = st /\ Return("certify", <<round>>, "Ok")
             /\ logs' = Chained(0, <<round, Cardinality(DOMAIN st[round]), Voters,
                                     Byte(quorum_reached(Cardinality(DOMAIN st[round])))>>)
    BY DEF append_certificate, Refused
  <1>2. PICK op, a, res : op = "certify" /\ Return(op, a, res) /\ st' = st
    BY <1>1
  <1>3. DOMAIN st = Ids /\ IsSeq(calls) /\ op # "vote"
    BY <1>2 DEF ConsensusInv
  <1>4. CASE logs' = logs
    BY <1>2, <1>3, <1>4, ConsensusFollows
  <1>5. CASE logs' # logs
    <2>1. PICK d : /\ d[1] = round /\ d[2] = Cardinality(DOMAIN st[round])
                   /\ ~StaleRound(round) /\ logs' = Chained(0, d)
      BY <1>1, <1>5
    <2>2. round \in Nat /\ Ids \subseteq Nat /\ IsFiniteSet(Peers)
      BY Inputs
    <2>3. PICK log, l, c : log = LogOf(0) /\ c = Hashed(d) /\ l = ChainPush(log, d, c)
      OBVIOUS
    <2>4. /\ IsSeq(log) /\ Ascending(FieldOf(log, 1))
          /\ \A m \in DOMAIN log : /\ log[m].data[1] \in Ids /\ log[m].data[1] \in Nat
                                   /\ log[m].data[2] \in Nat
                                   /\ log[m].data[2] <= Cardinality(VotersIn(log[m].data[1]))
      BY <2>2, <2>3 DEF ConsensusInv
    <2>5. log # << >> => d[1] > log[Len(log)].data[1]
      <3> SUFFICES ASSUME log # << >> PROVE d[1] > log[Len(log)].data[1]
        OBVIOUS
      <3>1. ~(round <= log[Len(log)].data[1])
        BY <2>1, <2>3 DEF LastRecord, StaleRound
      <3>2. Len(log) \in DOMAIN log
        BY <2>4, SeqFacts
      <3> QED BY <2>1, <2>2, <2>4, <3>1, <3>2
    <2>6. /\ IsSeq(l) /\ Ascending(FieldOf(l, 1))
          /\ \A m \in DOMAIN l : (m \in DOMAIN log /\ l[m] = log[m]) \/ l[m].data = d
      BY <2>1, <2>2, <2>3, <2>4, <2>5, AscendingPush
    <2>7. LogOf(0)' = l
      BY <2>1, <2>3, ChainedIs
    <2>8. ASSUME NEW r PROVE VotersIn(r)' = VotersIn(r)
      <3>1. VotersIn(r)' = VotersIn(r) \cup
              (IF op = "vote" /\ res = "Ok" /\ a[1] = r THEN {a[2]} ELSE {})
        BY <1>2, <1>3, VotersGrow
      <3> QED BY <1>3, <3>1
    <2>9. d[1] \in Ids /\ d[2] \in Nat /\ d[2] <= Cardinality(VotersIn(d[1]))
      <3>1. DOMAIN st[round] = VotersIn(round) /\ VotersIn(round) \subseteq Peers
        BY DEF ConsensusInv
      <3>2. IsFiniteSet(VotersIn(round))
        BY <2>2, <3>1, FS_Subset
      <3>3. Cardinality(VotersIn(round)) \in Nat
        BY <3>2, FS_CardinalityType
      <3> QED BY <2>1, <3>1, <3>3
    <2>10. \A m \in DOMAIN l : /\ l[m].data[1] \in Ids /\ l[m].data[2] \in Nat
                               /\ l[m].data[2] <= Cardinality(VotersIn(l[m].data[1]))
      BY <2>4, <2>6, <2>9
    <2>11. Ids' = Ids /\ Peers' = Peers /\ IsSeq(calls')
      BY <1>2, <1>3, OneCall DEF Ids, Peers
    <2>12. \A r \in Ids : DOMAIN st'[r] = VotersIn(r)' /\ VotersIn(r)' \subseteq Peers
      BY <1>2, <2>8 DEF ConsensusInv
    <2> QED BY <1>2, <1>3, <2>6, <2>7, <2>8, <2>10, <2>11, <2>12 DEF ConsensusInv
  <1> QED BY <1>4, <1>5

\* Nodes: one whose halt was taken is halted (node_state_machine.rs).
NodesInv ==
    kind = "node_state_machine" =>
      /\ IsSeq(calls) /\ DOMAIN st = Peers
      /\ \A i \in Made("transition") :
           Got(i, "Ok") /\ Arg(i, 2) = 4 => Arg(i, 1) \in Peers /\ st[Arg(i, 1)] = 4
      /\ \A i, j \in Made("transition") :
           i < j /\ Got(i, "Ok") /\ Got(j, "Ok") /\ Arg(i, 1) = Arg(j, 1) => Arg(i, 2) # 4

\* A halted node takes no transition, and the fault detector changes no node
\* (transition, record).
LEMMA NodesHalt ==
  ASSUME NodesInv, kind = "node_state_machine", kind' = kind, node_transition \/ fault_record
  PROVE  NodesInv'
  <1>1. ASSUME node_transition
        PROVE  \E p, to, op, a, r :
                 /\ op = "transition" /\ a[1] = p /\ a[2] = to /\ Return(op, a, r) /\ p \in Peers
                 /\ \/ st' = st /\ r # "Ok"
                    \/ st[p] # 4 /\ st' = [st EXCEPT ![p] = to]
    <2>1. PICK p \in Peers, to \in 0..4, e \in Epochs :
            IF TransitionError(p, to, e) # "Ok"
            THEN st' = st /\ Return("transition", <<p, to>>, TransitionError(p, to, e))
            ELSE st' = [st EXCEPT ![p] = to] /\ Return("transition", <<p, to>>, "Ok")
      BY <1>1 DEF node_transition, Refused
    <2>2. PICK op, a : op = "transition" /\ a = <<p, to>>
      OBVIOUS
    <2>3. (TransitionError(p, to, e) = "Ok" => st[p] # 4) /\ a[1] = p /\ a[2] = to
      BY <2>2 DEF TransitionError
    <2>4. PICK r : /\ Return(op, a, r)
                   /\ \/ st' = st /\ r # "Ok"
                      \/ st[p] # 4 /\ st' = [st EXCEPT ![p] = to]
      BY <2>1, <2>2, <2>3
    <2> QED BY <2>2, <2>3, <2>4
  <1>2. ASSUME fault_record
        PROVE  \E op, a, r : op \in {"refused", "assess"} /\ Return(op, a, r) /\ st' = st
    BY <1>2 DEF fault_record, Refused
  <1>3. PICK op, a, r : /\ Return(op, a, r)
                        /\ \/ st' = st /\ ~(op = "transition" /\ r = "Ok")
                           \/ /\ op = "transition" /\ a[1] \in Peers
                              /\ st[a[1]] # 4 /\ st' = [st EXCEPT ![a[1]] = a[2]]
    <2>1. CASE node_transition
      BY <1>1, <2>1
    <2>2. CASE fault_record
      <3>1. PICK op, a, r : op \in {"refused", "assess"} /\ Return(op, a, r) /\ st' = st
        BY <1>2, <2>2
      <3>2. op # "transition"
        BY <3>1
      <3> QED BY <3>1, <3>2
    <2> QED BY <2>1, <2>2
  <1>4. PICK n : n = Len(calls) + 1
    OBVIOUS
  <1>5. IsSeq(calls) /\ DOMAIN st = Peers /\ Peers' = Peers
    BY DEF NodesInv, Peers
  <1>6. /\ n \in Nat \ {0} /\ IsSeq(calls')
        /\ Made("transition") \subseteq 1..(n - 1)
        /\ Made("transition")' = IF op = "transition" THEN Made("transition") \cup {n}
                                 ELSE Made("transition")
        /\ \A i \in 1..(n - 1) : \A k : Arg(i, k)' = Arg(i, k)
        /\ \A k : Arg(n, k)' = a[k]
    BY <1>3, <1>4, <1>5, NewCall
  <1>7. \A i \in 1..(n - 1) : Got(i, "Ok")' <=> Got(i, "Ok")
    <2>1. \A i \in 1..(n - 1) : \A x : Got(i, x)' <=> Got(i, x)
      BY <1>3, <1>4, <1>5, NewCall
    <2> QED BY <2>1
  <1>8. Got(n, "Ok")' <=> r = "Ok"
    <2>1. \A x : Got(n, x)' <=> r = x
      BY <1>3, <1>4, <1>5, NewCall
    <2> QED BY <2>1
  <1>9. DOMAIN st' = Peers
    BY <1>3, <1>5
  <1>10. ASSUME NEW i \in Made("transition")
         PROVE  /\ i \in 1..(n - 1) /\ Arg(i, 1)' = Arg(i, 1) /\ Arg(i, 2)' = Arg(i, 2)
                /\ Got(i, "Ok")' <=> Got(i, "Ok")
    BY <1>6, <1>7
  <1>11. ASSUME NEW i \in Made("transition")', Got(i, "Ok")'
         PROVE  i \in Made("transition") \/ (i = n /\ op = "transition" /\ r = "Ok")
    BY <1>6, <1>8, <1>11
  <1>12. ASSUME NEW i \in Made("transition")', Got(i, "Ok")', Arg(i, 2)' = 4
         PROVE  Arg(i, 1)' \in Peers /\ st'[Arg(i, 1)'] = 4
    <2>1. CASE i \in Made("transition")
      <3>1. Arg(i, 1) \in Peers /\ st[Arg(i, 1)] = 4
        BY <1>10, <1>12, <2>1 DEF NodesInv
      <3>2. st'[Arg(i, 1)] = 4
        BY <1>3, <1>5, <3>1
      <3> QED BY <1>10, <2>1, <3>1, <3>2
    <2>2. CASE i = n /\ op = "transition" /\ r = "Ok"
      <3>1. a[1] \in DOMAIN st /\ st' = [st EXCEPT ![a[1]] = a[2]]
        BY <1>3, <1>5, <2>2
      <3>2. Arg(i, 1)' = a[1] /\ a[2] = 4
        BY <1>6, <1>12, <2>2
      <3> QED BY <1>5, <3>1, <3>2
    <2> QED BY <1>11, <1>12, <2>1, <2>2
  <1>13. ASSUME NEW i \in Made("transition")', NEW j \in Made("transition")', i < j,
                Got(i, "Ok")', Got(j, "Ok")', Arg(i, 1)' = Arg(j, 1)'
         PROVE  Arg(i, 2)' # 4
    <2>1. i \in Made("transition")
      <3>1. j \in 1..n /\ i \in 1..n
        BY <1>6
      <3>2. i # n
        BY <1>13, <3>1
      <3> QED BY <1>11, <1>13, <3>2
    <2>2. CASE j \in Made("transition")
      BY <1>10, <1>13, <2>1, <2>2 DEF NodesInv
    <2>3. CASE j = n /\ op = "transition" /\ r = "Ok"
      <3>1. st[a[1]] # 4
        BY <1>3, <2>3
      <3>2. Arg(i, 1) = a[1] /\ Got(i, "Ok")
        BY <1>6, <1>10, <1>13, <2>1, <2>3
      <3>3. Arg(i, 2) # 4
        BY <2>1, <3>1, <3>2 DEF NodesInv
      <3> QED BY <1>10, <2>1, <3>3
    <2> QED BY <1>11, <1>13, <2>2, <2>3
  <1> QED BY <1>5, <1>6, <1>9, <1>12, <1>13 DEF NodesInv

OnceInv == kind \in Kinds /\ DecayInv /\ PartitionInv /\ ConsensusInv /\ NodesInv

\* Rounds are certified once and in order, and a certificate counts no more
\* votes than there were voters whose vote was taken; a peer decays once an
\* epoch; an epoch has one partition verdict; a node that halted takes no
\* transition any more (consensus_ledger.rs, reputation_decay.rs,
\* partition_detector.rs, node_state_machine.rs).
THEOREM PeersActOnce == Spec => []PeersOnce
  <1>1. Init => OnceInv
    <2> SUFFICES ASSUME Init PROVE OnceInv
      OBVIOUS
    <2>1. kind \in Kinds /\ IsSeq(calls) /\ DOMAIN calls = {} /\ logs = << >>
      BY Starts DEF Init
    <2>2. \A o : Made(o) = {}
      BY <2>1 DEF Made
    <2>3. DOMAIN logs = {} /\ LogOf(0) = << >>
      BY <2>1 DEF LogOf, Get
    <2>4. IsSeq(LogOf(0)) /\ DOMAIN LogOf(0) = {} /\ Len(LogOf(0)) = 0
      <3>1. PICK log : log = << >>
        OBVIOUS
      <3>2. IsSeq(log) /\ DOMAIN log = {} /\ Len(log) = 0
        BY <3>1 DEF IsSeq
      <3> QED BY <2>3, <3>1, <3>2
    <2>5. Ascending(FieldOf(LogOf(0), 1))
      BY <2>4, AscendingIs
    <2>6. kind \in PeerKinds => PeerInit
      BY Starts
    <2>7. ConsensusInv
      <3> SUFFICES ASSUME kind = "consensus_ledger" PROVE ConsensusInv
        BY DEF ConsensusInv
      <3>1. st = [r \in Ids |-> << >>]
        BY <2>6 DEF PeerInit, PeerKinds
      <3>2. DOMAIN st = Ids /\ \A r \in Ids : DOMAIN st[r] = {}
        BY <3>1
      <3>3. \A r : VotersIn(r) = {}
        BY <2>2 DEF VotersIn, VotesIn
      <3> QED BY <2>1, <2>4, <2>5, <3>2, <3>3 DEF ConsensusInv
    <2>8. NodesInv
      <3> SUFFICES ASSUME kind = "node_state_machine" PROVE NodesInv
        BY DEF NodesInv
      <3>1. st = [p \in Peers |-> 0]
        BY <2>6 DEF PeerInit, PeerKinds
      <3> QED BY <2>1, <2>2, <3>1 DEF NodesInv
    <2>9. DecayInv /\ PartitionInv
      BY <2>3, <2>4, <2>5 DEF DecayInv, PartitionInv
    <2> QED BY <2>1, <2>7, <2>8, <2>9 DEF OnceInv
  <1>2. OnceInv /\ [Next]_vars => OnceInv'
    <2> SUFFICES ASSUME OnceInv, [Next]_vars PROVE OnceInv'
      OBVIOUS
    <2>1. CASE UNCHANGED vars
      <3>1. kind' = kind /\ calls' = calls /\ logs' = logs /\ st' = st
        BY <2>1 DEF vars
      <3>2. DecayInv'
        BY <3>1 DEF OnceInv, DecayInv
      <3>3. PartitionInv'
        BY <3>1 DEF OnceInv, PartitionInv, LogOf
      <3>4. ConsensusInv'
        BY <3>1 DEF OnceInv, ConsensusInv, VotersIn, VotesIn, LogOf, Made, Arg, Got, Ids, Peers
      <3>5. NodesInv'
        BY <3>1 DEF OnceInv, NodesInv, Made, Arg, Got, Peers
      <3> QED BY <3>1, <3>2, <3>3, <3>4, <3>5 DEF OnceInv
    <2>2. CASE Next
      <3>1. kind' = kind /\ kind \in Kinds
        BY <2>2, Dispatch DEF OnceInv
      <3>2. kind \in PeerKinds =>
              /\ kind = "reputation_decay" => apply_decay
              /\ kind = "node_state_machine" => node_transition \/ fault_record
              /\ kind = "consensus_ledger" => cast_vote \/ append_certificate
              /\ kind = "partition_detector" => partition_record
        BY <2>2, Dispatch, PeerServed
      <3>3. DecayInv'
        <4>1. CASE kind = "reputation_decay"
          BY <3>1, <3>2, <4>1, DecayOnce DEF OnceInv, PeerKinds
        <4>2. CASE kind # "reputation_decay"
          BY <3>1, <4>2 DEF DecayInv
        <4> QED BY <4>1, <4>2
      <3>4. PartitionInv'
        <4>1. CASE kind = "partition_detector"
          BY <3>1, <3>2, <4>1, PartitionOnce DEF OnceInv, PeerKinds
        <4>2. CASE kind # "partition_detector"
          BY <3>1, <4>2 DEF PartitionInv
        <4> QED BY <4>1, <4>2
      <3>5. ConsensusInv'
        <4>1. CASE kind = "consensus_ledger"
          BY <3>1, <3>2, <4>1, ConsensusVotes, ConsensusCertifies DEF OnceInv, PeerKinds
        <4>2. CASE kind # "consensus_ledger"
          BY <3>1, <4>2 DEF ConsensusInv
        <4> QED BY <4>1, <4>2
      <3>6. NodesInv'
        <4>1. CASE kind = "node_state_machine"
          BY <3>1, <3>2, <4>1, NodesHalt DEF OnceInv, PeerKinds
        <4>2. CASE kind # "node_state_machine"
          BY <3>1, <4>2 DEF NodesInv
        <4> QED BY <4>1, <4>2
      <3> QED BY <3>1, <3>3, <3>4, <3>5, <3>6 DEF OnceInv
    <2> QED BY <2>1, <2>2
  <1>3. OnceInv => PeersOnce
    <2> SUFFICES ASSUME OnceInv PROVE PeersOnce
      OBVIOUS
    <2>1. CASE kind = "consensus_ledger"
      <3>1. /\ Ascending(FieldOf(LogOf(0), 1))
            /\ \A n \in DOMAIN LogOf(0) :
                 LogOf(0)[n].data[2] <= Cardinality(VotersIn(LogOf(0)[n].data[1]))
        BY <2>1 DEF OnceInv, ConsensusInv
      <3> QED BY <2>1, <3>1 DEF PeersOnce, VotersIn, VotesIn
    <2>2. CASE kind = "reputation_decay"
      <3>1. \A p \in DOMAIN logs : Ascending(FieldOf(logs[p], 2))
        BY <2>2 DEF OnceInv, DecayInv
      <3> QED BY <2>2, <3>1 DEF PeersOnce
    <2>3. CASE kind = "partition_detector"
      <3>1. Ascending(FieldOf(LogOf(0), 1))
        BY <2>3 DEF OnceInv, PartitionInv
      <3> QED BY <2>3, <3>1 DEF PeersOnce
    <2>4. CASE kind = "node_state_machine"
      <3>1. \A i, j \in Made("transition") :
              i < j /\ Got(i, "Ok") /\ Got(j, "Ok") /\ Arg(i, 1) = Arg(j, 1) => Arg(i, 2) # 4
        BY <2>4 DEF OnceInv, NodesInv
      <3> QED BY <2>4, <3>1 DEF PeersOnce
    <2>5. CASE kind \notin {"consensus_ledger", "reputation_decay", "partition_detector",
                            "node_state_machine"}
      BY <2>5 DEF PeersOnce
    <2> QED BY <2>1, <2>2, <2>3, <2>4, <2>5
  <1> QED BY <1>1, <1>2, <1>3, PTL DEF Spec
-----------------------------------------------------------------------------
(* The queue of gossip_priority.rs. *)

\* In a finite set under a strict total order, given by what is below each
\* element, every rank has its element: what the model's Sorted picks is there.
LEMMA RanksFilled ==
  ASSUME NEW S, IsFiniteSet(S), NEW Below,
         \A a \in S : Below[a] \subseteq S /\ a \notin Below[a],
         \A a, b \in S : a \in Below[b] => Below[a] \subseteq Below[b],
         \A a, b \in S : a # b => a \in Below[b] \/ b \in Below[a],
         NEW n \in 1..Cardinality(S)
  PROVE  \E a \in S : Cardinality(Below[a]) = n - 1
  <1>1. PICK k \in Nat : k = Cardinality(S)
    BY FS_CardinalityType
  <1>2. ASSUME NEW a \in S
        PROVE  IsFiniteSet(Below[a]) /\ Cardinality(Below[a]) \in 0..(k - 1)
    <2>1. IsFiniteSet(S \ {a}) /\ Cardinality(S \ {a}) = k - 1
      BY <1>1, FS_RemoveElement
    <2>2. Below[a] \in SUBSET (S \ {a})
      OBVIOUS
    <2>3. IsFiniteSet(Below[a]) /\ Cardinality(Below[a]) <= k - 1
      BY <2>1, <2>2, FS_Subset
    <2>4. Cardinality(Below[a]) \in Nat
      BY <2>3, FS_CardinalityType
    <2> QED BY <1>1, <2>3, <2>4
  <1>3. ASSUME NEW a \in S, NEW b \in S, a \in Below[b]
        PROVE  Cardinality(Below[a]) < Cardinality(Below[b])
    <2>1. a \notin Below[a] /\ Below[a] \cup {a} \in SUBSET Below[b]
      BY <1>3
    <2>2. Cardinality(Below[a] \cup {a}) = Cardinality(Below[a]) + 1
      BY <1>2, <2>1, OneMore
    <2>3. Cardinality(Below[a] \cup {a}) <= Cardinality(Below[b])
      BY <1>2, <2>1, FS_Subset
    <2> QED BY <1>1, <1>2, <2>2, <2>3
  <1>4. SUFFICES ASSUME \A a \in S : Cardinality(Below[a]) # n - 1 PROVE FALSE
    OBVIOUS
  <1>5. PICK f : f = [a \in S |-> Cardinality(Below[a])]
    OBVIOUS
  <1>6. \A a \in S : f[a] = Cardinality(Below[a])
    BY <1>5
  <1>7. PICK T : T = (0..(k - 1)) \ {n - 1}
    OBVIOUS
  <1>8. \A a \in S : f[a] \in T
    BY <1>2, <1>4, <1>6, <1>7
  <1>9. f \in [S -> T]
    BY <1>5, <1>8
  <1>10. IsFiniteSet(T) /\ Cardinality(T) < Cardinality(S)
    <2>1. n \in 1..k /\ k - 1 \in Int /\ n - 1 \in 0..(k - 1) /\ ~(0 > k - 1)
      BY <1>1
    <2>2. PICK I, m : I = 0..(k - 1) /\ m = n - 1
      OBVIOUS
    <2>3. IsFiniteSet(I) /\ Cardinality(I) = (k - 1) - 0 + 1
      BY <2>1, <2>2, FS_Interval
    <2>4. T = I \ {m} /\ m \in I
      BY <1>7, <2>1, <2>2
    <2>5. IsFiniteSet(T) /\ Cardinality(T) = Cardinality(I) - 1
      BY <2>3, <2>4, FS_RemoveElement
    <2> QED BY <1>1, <2>3, <2>5
  <1>11. PICK x, y \in S : x # y /\ f[x] = f[y]
    BY <1>9, <1>10, FS_PigeonHole
  <1>12. x \in Below[y] \/ y \in Below[x]
    BY <1>11
  <1>13. f[x] < f[y] \/ f[y] < f[x]
    BY <1>3, <1>6, <1>12
  <1>14. f[x] \in 0..(k - 1) /\ f[y] \in 0..(k - 1)
    BY <1>7, <1>8
  <1> QED BY <1>1, <1>11, <1>13, <1>14

\* The score of a message is a number, whenever it is taken.
LEMMA ScoreIsNat ==
  ASSUME NEW msg \in Messages, NEW elapsed \in Nat
  PROVE  compute_score(msg, elapsed) \in Nat
  <1>1. \A a, b \in Nat : Max({a, b}) \in Nat
    <2> SUFFICES ASSUME NEW a \in Nat, NEW b \in Nat PROVE Max({a, b}) \in Nat
      OBVIOUS
    <2>1. CASE a <= b
      <3>1. Max({a, b}) = b
        BY <2>1, MaxIs
      <3> QED BY <3>1
    <2>2. CASE b <= a
      <3>1. Max({a, b}) = a
        BY <2>2, MaxIs
      <3> QED BY <3>1
    <2> QED BY <2>1, <2>2
  <1>2. \A a, b \in Nat : Min({a, b}) \in Nat
    <2> SUFFICES ASSUME NEW a \in Nat, NEW b \in Nat PROVE Min({a, b}) \in Nat
      OBVIOUS
    <2>1. \E x \in {a, b} : \A y \in {a, b} : x =< y
      OBVIOUS
    <2>2. Min({a, b}) \in {a, b}
      BY <2>1 DEF Min
    <2> QED BY <2>2
  <1>3. msg[1] \in Nat /\ msg[2] \in Nat /\ msg[3] \in Nat
    BY DEF Messages
  <1>4. PICK u, v, w, d : /\ u = AtMost(msg[1], 15) /\ v = Clip(msg[2], 1, 10)
                          /\ w = Clip(msg[3], 1, 8) /\ d = AtMost(elapsed, 1000) + 1
    OBVIOUS
  <1>5. u \in Nat /\ d \in Nat \ {0}
    BY <1>3, <1>4 DEF AtMost
  <1>6. v \in Nat /\ w \in Nat
    BY <1>1, <1>2, <1>3, <1>4 DEF Clip
  <1>7. u * v * w \in Nat
    BY <1>5, <1>6
  <1>8. (u * v * w) \div d \in Nat
    BY <1>5, <1>7, DivBracket
  <1> QED BY <1>4, <1>8 DEF compute_score

\* The calls that handed a message out, and those that discarded it.
TakenBy(id) == { i \in Made("dequeue") : id \in Taken(i) }
GoneBy(id) == { i \in Made("discard") : id \in calls[i].result }

\* A message that was given a number is queued and no call had it, or one call
\* had it and it is not queued.
QueueInv ==
    kind = "gossip_priority" =>
      /\ IsSeq(calls) /\ st = [next |-> st.next, queue |-> st.queue] /\ st.next \in Nat
      /\ DOMAIN st.queue \subseteq 0..(st.next - 1)
      /\ \A id \in DOMAIN st.queue : /\ st.queue[id].msg \in Messages
                                     /\ st.queue[id].epoch \in Nat
      /\ \A id \in Nat \ DOMAIN st.queue : id < st.next =>
           \/ TakenBy(id) = {} /\ \E i : GoneBy(id) = {i}
           \/ GoneBy(id) = {} /\ \E i : TakenBy(id) = {i}
      /\ \A id \in Nat : id \in DOMAIN st.queue \/ id >= st.next => TakenBy(id) = {} /\ GoneBy(id) = {}

\* A message is queued under the next number (enqueue).
LEMMA QueueGrows ==
  ASSUME QueueInv, kind = "gossip_priority", kind' = kind, kind \in Kinds, priority_enqueue
  PROVE  QueueInv'
  <1>1. PICK msg \in Messages, e \in Epochs :
          /\ st' = [next |-> st.next + 1,
                    queue |-> Put(st.queue, st.next, [msg |-> msg, epoch |-> e])]
          /\ Return("enqueue", <<msg, e>>, st.next)
    BY DEF priority_enqueue
  <1>2. /\ IsSeq(calls) /\ st.next \in Nat /\ DOMAIN st.queue \subseteq 0..(st.next - 1)
    BY DEF QueueInv
  <1>3. PICK q, v, k : q = st.queue /\ v = [msg |-> msg, epoch |-> e] /\ k = st.next
    OBVIOUS
  <1>4. /\ st'.next = k + 1 /\ st'.queue = Put(q, k, v)
        /\ st' = [next |-> st'.next, queue |-> st'.queue]
    BY <1>1, <1>3
  <1>5. /\ DOMAIN st'.queue = DOMAIN q \cup {k} /\ st'.queue[k] = v
        /\ \A id \in DOMAIN q : id # k => st'.queue[id] = q[id]
    BY <1>4 DEF Put
  <1>6. v.msg \in Messages /\ v.epoch \in Nat
    BY <1>3, Inputs
  <1>7. /\ IsSeq(calls') /\ Made("dequeue")' = Made("dequeue")
        /\ Made("discard")' = Made("discard")
        /\ \A i \in Made("dequeue") : calls'[i] = calls[i]
        /\ \A i \in Made("discard") : calls'[i] = calls[i]
    BY <1>1, <1>2, OtherCall
  <1>8. \A i \in Made("dequeue") : Taken(i)' = Taken(i)
    BY <1>7 DEF Taken
  <1>9. \A id : TakenBy(id)' = TakenBy(id) /\ GoneBy(id)' = GoneBy(id)
    BY <1>7, <1>8 DEF TakenBy, GoneBy
  <1>10. DOMAIN st'.queue \subseteq 0..(st'.next - 1) /\ st'.next \in Nat
    BY <1>2, <1>3, <1>4, <1>5
  <1>11. \A id \in DOMAIN st'.queue : /\ st'.queue[id].msg \in Messages
                                      /\ st'.queue[id].epoch \in Nat
    BY <1>3, <1>5, <1>6 DEF QueueInv
  <1>12. ASSUME NEW id \in Nat \ DOMAIN st'.queue, id < st'.next
         PROVE  \/ TakenBy(id) = {} /\ \E i : GoneBy(id) = {i}
                \/ GoneBy(id) = {} /\ \E i : TakenBy(id) = {i}
    <2>1. id \notin DOMAIN st.queue /\ id < st.next
      BY <1>2, <1>3, <1>4, <1>5, <1>12
    <2> QED BY <2>1 DEF QueueInv
  <1>13. ASSUME NEW id \in Nat, id \in DOMAIN st'.queue \/ id >= st'.next
         PROVE  TakenBy(id) = {} /\ GoneBy(id) = {}
    <2>1. id \in DOMAIN st.queue \/ id >= st.next
      BY <1>2, <1>3, <1>4, <1>5, <1>13
    <2> QED BY <2>1 DEF QueueInv
  <1> QED BY <1>4, <1>7, <1>9, <1>10, <1>11, <1>12, <1>13 DEF QueueInv

\* Messages leave the queue by one call.
LEMMA QueueShrinks ==
  ASSUME QueueInv, kind = "gossip_priority", kind' = kind,
         NEW op, NEW args, NEW result, Return(op, args, result), op \in {"dequeue", "discard"},
         NEW X, X \subseteq DOMAIN st.queue, st' = [st EXCEPT !.queue = Dropping(@, X)],
         op = "dequeue" => { result[n][1] : n \in DOMAIN result } = X,
         op = "discard" => result = X
  PROVE  QueueInv'
  <1>1. /\ IsSeq(calls) /\ st.next \in Nat /\ DOMAIN st.queue \subseteq 0..(st.next - 1)
        /\ st = [next |-> st.next, queue |-> st.queue]
    BY DEF QueueInv
  <1>2. /\ st'.next = st.next /\ st'.queue = Dropping(st.queue, X)
        /\ st' = [next |-> st'.next, queue |-> st'.queue]
    BY <1>1
  <1>3. /\ DOMAIN st'.queue = DOMAIN st.queue \ X
        /\ \A id \in DOMAIN st'.queue : st'.queue[id] = st.queue[id]
    BY <1>2 DEF Dropping
  <1>4. PICK c : c = Len(calls) + 1
    OBVIOUS
  <1>5. /\ IsSeq(calls')
        /\ Made("dequeue") \subseteq 1..(c - 1) /\ Made("discard") \subseteq 1..(c - 1)
        /\ Made("dequeue")' = IF op = "dequeue" THEN Made("dequeue") \cup {c} ELSE Made("dequeue")
        /\ Made("discard")' = IF op = "discard" THEN Made("discard") \cup {c} ELSE Made("discard")
        /\ \A i \in 1..(c - 1) : calls'[i] = calls[i]
        /\ calls'[c].result = result /\ c \notin 1..(c - 1)
    BY <1>1, <1>4, NewCall
  <1>6. \A i \in Made("dequeue") : Taken(i)' = Taken(i)
    BY <1>5 DEF Taken
  <1>7. op = "dequeue" => Taken(c)' = X
    BY <1>5 DEF Taken
  <1>8. ASSUME NEW id
        PROVE  /\ TakenBy(id)' = TakenBy(id) \cup
                    (IF op = "dequeue" /\ id \in X THEN {c} ELSE {})
               /\ GoneBy(id)' = GoneBy(id) \cup
                    (IF op = "discard" /\ id \in X THEN {c} ELSE {})
    <2>1. TakenBy(id)' = { i \in Made("dequeue")' : id \in Taken(i)' }
      BY DEF TakenBy
    <2>2. GoneBy(id)' = { i \in Made("discard")' : id \in calls'[i].result }
      BY DEF GoneBy
    <2>3. TakenBy(id)' = TakenBy(id) \cup (IF op = "dequeue" /\ id \in X THEN {c} ELSE {})
      BY <1>5, <1>6, <1>7, <2>1 DEF TakenBy
    <2>4. GoneBy(id)' = GoneBy(id) \cup (IF op = "discard" /\ id \in X THEN {c} ELSE {})
      BY <1>5, <2>2 DEF GoneBy
    <2> QED BY <2>3, <2>4
  <1>9. ASSUME NEW id \in Nat, id \in DOMAIN st'.queue \/ id >= st'.next
        PROVE  TakenBy(id)' = {} /\ GoneBy(id)' = {}
    <2>1. id \notin X /\ (id \in DOMAIN st.queue \/ id >= st.next)
      BY <1>1, <1>2, <1>3, <1>9
    <2>2. TakenBy(id) = {} /\ GoneBy(id) = {}
      BY <2>1 DEF QueueInv
    <2> QED BY <1>8, <2>1, <2>2
  <1>10. ASSUME NEW id \in Nat \ DOMAIN st'.queue, id < st'.next
         PROVE  \/ TakenBy(id)' = {} /\ \E i : GoneBy(id)' = {i}
                \/ GoneBy(id)' = {} /\ \E i : TakenBy(id)' = {i}
    <2>1. CASE id \in X
      <3>1. TakenBy(id) = {} /\ GoneBy(id) = {}
        BY <2>1 DEF QueueInv
      <3>2. CASE op = "dequeue"
        <4>1. op # "discard"
          BY <3>2
        <4>2. TakenBy(id)' = {c} /\ GoneBy(id)' = {}
          BY <1>8, <2>1, <3>1, <3>2, <4>1
        <4> QED BY <4>2
      <3>3. CASE op = "discard"
        <4>1. op # "dequeue"
          BY <3>3
        <4>2. GoneBy(id)' = {c} /\ TakenBy(id)' = {}
          BY <1>8, <2>1, <3>1, <3>3, <4>1
        <4> QED BY <4>2
      <3> QED BY <3>2, <3>3
    <2>2. CASE id \notin X
      <3>1. id \in Nat \ DOMAIN st.queue /\ id < st.next
        BY <1>2, <1>3, <1>10, <2>2
      <3>2. TakenBy(id)' = TakenBy(id) /\ GoneBy(id)' = GoneBy(id)
        BY <1>8, <2>2
      <3>3. \/ TakenBy(id) = {} /\ \E i : GoneBy(id) = {i}
            \/ GoneBy(id) = {} /\ \E i : TakenBy(id) = {i}
        BY <3>1 DEF QueueInv
      <3> QED BY <3>2, <3>3
    <2> QED BY <2>1, <2>2
  <1>11. st'.next \in Nat /\ DOMAIN st'.queue \subseteq 0..(st'.next - 1)
    BY <1>1, <1>2, <1>3
  <1>12. \A id \in DOMAIN st'.queue : /\ st'.queue[id].msg \in Messages
                                      /\ st'.queue[id].epoch \in Nat
    BY <1>3 DEF QueueInv
  <1> QED BY <1>2, <1>5, <1>9, <1>10, <1>11, <1>12 DEF QueueInv

\* A batch is of messages that are queued (dequeue_batch).
LEMMA QueueBatches ==
  ASSUME QueueInv, kind = "gossip_priority", kind' = kind, kind \in Kinds, dequeue_batch
  PROVE  QueueInv'
  <1>1. PICK e \in Epochs, max_count \in Ids :
          LET score(id) == effective_score(st.queue, id, e)
              earlier(a, b) == score(a) > score(b) \/ (score(a) = score(b) /\ a < b)
              scored == Sorted(DOMAIN st.queue, earlier)
              batch == SubSeq(scored, 1, AtMost(max_count, Len(scored)))
          IN  /\ st' = [st EXCEPT !.queue = Dropping(@, Range(batch))]
              /\ Return("dequeue", <<e, max_count>>,
                        [n \in DOMAIN batch |-> <<batch[n], score(batch[n]),
                                                  classify_priority(score(batch[n]))>>])
    BY DEF dequeue_batch
  <1> DEFINE S == DOMAIN st.queue
             Score(id) == effective_score(st.queue, id, e)
             Earlier(a, b) == Score(a) > Score(b) \/ (Score(a) = Score(b) /\ a < b)
  <1>2. PICK scored, batch, result :
          /\ scored = Sorted(S, Earlier)
          /\ batch = SubSeq(scored, 1, AtMost(max_count, Len(scored)))
          /\ result = [n \in DOMAIN batch |-> <<batch[n], Score(batch[n]),
                                                classify_priority(Score(batch[n]))>>]
          /\ st' = [st EXCEPT !.queue = Dropping(@, Range(batch))]
          /\ Return("dequeue", <<e, max_count>>, result)
    BY <1>1
  <1>3. /\ st.next \in Nat /\ S \subseteq 0..(st.next - 1) /\ e \in Nat /\ max_count \in Nat
        /\ \A id \in S : st.queue[id].msg \in Messages /\ st.queue[id].epoch \in Nat
    BY Inputs DEF QueueInv
  <1>4. ASSUME NEW id \in S PROVE Score(id) \in Nat
    <2>1. PICK t : t = SaturatingSub(e, st.queue[id].epoch)
      OBVIOUS
    <2>2. t \in Nat
      BY <1>3, <2>1 DEF SaturatingSub
    <2>3. compute_score(st.queue[id].msg, t) \in Nat
      BY <1>3, <2>2, ScoreIsNat
    <2> QED BY <2>1, <2>3 DEF effective_score
  <1>5. PICK k \in Nat : k = Cardinality(S) /\ IsFiniteSet(S)
    <2>1. PICK m, I : m = st.next - 1 /\ I = 0..m
      OBVIOUS
    <2>2. m \in Int /\ S \in SUBSET I
      BY <1>3, <2>1
    <2>3. IsFiniteSet(I)
      <3>1. 0 \in Int /\ IsFiniteSet(0..m)
        BY <2>2, FS_Interval
      <3> QED BY <2>1, <3>1
    <2> HIDE DEF S
    <2>4. IsFiniteSet(S)
      BY <2>2, <2>3, FS_Subset
    <2> QED BY <2>4, FS_CardinalityType
  <1> DEFINE Ranked(n) == CHOOSE a \in S : Cardinality({ b \in S : Earlier(b, a) }) = n - 1
  <1>6. scored = [n \in 1..k |-> Ranked(n)]
    BY <1>2, <1>5 DEF Sorted
  <1>7. ASSUME NEW n \in 1..k PROVE scored[n] \in S
    <2>1. PICK g : g = [id \in S |-> Score(id)]
      OBVIOUS
    <2>2. \A id \in S : g[id] = Score(id) /\ g[id] \in Nat /\ id \in Nat
      BY <1>3, <1>4, <2>1
    <2>3. PICK B : B = [a \in S |-> { b \in S : g[b] > g[a] \/ (g[b] = g[a] /\ b < a) }]
      OBVIOUS
    <2>4. \A a, b \in S : b \in B[a] <=> g[b] > g[a] \/ (g[b] = g[a] /\ b < a)
      BY <2>3
    <2>5. \A a \in S : B[a] \subseteq S
      BY <2>3
    <2>6. /\ \A a \in S : B[a] \subseteq S /\ a \notin B[a]
          /\ \A a, b \in S : a \in B[b] => B[a] \subseteq B[b]
          /\ \A a, b \in S : a # b => a \in B[b] \/ b \in B[a]
      <3>1. \A a \in S : g[a] \in Nat /\ a \in Nat
        BY <2>2
      <3> HIDE DEF S
      <3> QED BY <2>4, <2>5, <3>1
    <2>7. PICK a \in S : Cardinality(B[a]) = n - 1
      <3>1. n \in 1..Cardinality(S) /\ IsFiniteSet(S)
        BY <1>5, <1>7
      <3> HIDE DEF S
      <3> QED BY <2>6, <3>1, RanksFilled
    <2>8. B[a] = { b \in S : Earlier(b, a) }
      BY <2>2, <2>3
    <2>9. scored[n] = Ranked(n)
      <3> HIDE DEF Ranked
      <3> QED BY <1>6, <1>7
    <2>10. Ranked(n) \in S
      <3> HIDE DEF S, Earlier
      <3> QED BY <2>7, <2>8
    <2> QED BY <2>9, <2>10
  <1>8. PICK j : j = AtMost(max_count, Len(scored))
    OBVIOUS
  <1>9. scored = [n \in 1..k |-> scored[n]]
    <2> HIDE DEF Ranked
    <2> QED BY <1>6
  <1> HIDE DEF S, Earlier, Score, Ranked
  <1>10. Len(scored) = k
    BY <1>5, <1>9, FunctionIsSeq
  <1>11. scored \in [1..k -> S]
    BY <1>7, <1>9
  <1>12. j \in 0..k
    BY <1>3, <1>5, <1>8, <1>10 DEF AtMost
  <1>13. batch = [n \in 1..j |-> scored[n]]
    <2>1. scored \in Seq(S)
      BY <1>5, <1>11
    <2>2. batch = SubSeq(scored, 1, j)
      BY <1>2, <1>8
    <2> QED BY <1>5, <1>10, <1>12, <2>1, <2>2
  <1>14. DOMAIN batch = 1..j /\ \A n \in 1..j : n \in 1..k /\ batch[n] = scored[n]
    BY <1>5, <1>12, <1>13
  <1>15. PICK X : X = Range(batch)
    OBVIOUS
  <1>16. X = { batch[n] : n \in DOMAIN batch }
    BY <1>15 DEF Range
  <1>17. X \subseteq DOMAIN st.queue
    BY <1>7, <1>14, <1>16 DEF S
  <1>18. DOMAIN result = DOMAIN batch /\ \A n \in DOMAIN batch : result[n][1] = batch[n]
    BY <1>2
  <1>19. { result[n][1] : n \in DOMAIN result } = X
    BY <1>16, <1>18
  <1>20. PICK op, a : op = "dequeue" /\ a = <<e, max_count>> /\ Return(op, a, result)
    BY <1>2
  <1>21. op \in {"dequeue", "discard"} /\ op # "discard"
    BY <1>20
  <1>22. st' = [st EXCEPT !.queue = Dropping(@, X)]
    BY <1>2, <1>15
  <1> QED BY <1>17, <1>19, <1>20, <1>21, <1>22, QueueShrinks

\* What has expired is discarded (discard_expired).
LEMMA QueueDiscards ==
  ASSUME QueueInv, kind = "gossip_priority", kind' = kind, discard_expired
  PROVE  QueueInv'
  <1>1. PICK e \in Epochs :
          LET gone == { id \in DOMAIN st.queue : is_expired(st.queue, id, e) }
          IN  st' = [st EXCEPT !.queue = Dropping(@, gone)] /\ Return("discard", <<e>>, gone)
    BY DEF discard_expired
  <1>2. PICK X, op, a : /\ X = { id \in DOMAIN st.queue : is_expired(st.queue, id, e) }
                        /\ op = "discard" /\ a = <<e>>
    OBVIOUS
  <1>3. st' = [st EXCEPT !.queue = Dropping(@, X)] /\ Return(op, a, X)
    BY <1>1, <1>2
  <1>4. op \in {"dequeue", "discard"} /\ op # "dequeue" /\ X \subseteq DOMAIN st.queue
    BY <1>2
  <1> QED BY <1>3, <1>4, QueueShrinks

\* Each message that was queued leaves by one call, handed out or discarded, or
\* is still queued: none is lost, and none is handed out again
\* (gossip_priority.rs).
THEOREM QueueLeavesOnce == Spec => []QueuedLeaveOnce
  <1> DEFINE Inv == kind \in Kinds /\ QueueInv
  <1>1. Init => Inv
    <2> SUFFICES ASSUME Init PROVE Inv
      OBVIOUS
    <2>1. kind \in Kinds /\ IsSeq(calls) /\ DOMAIN calls = {}
      BY Starts DEF Init
    <2>2. \A id : TakenBy(id) = {} /\ GoneBy(id) = {}
      BY <2>1 DEF TakenBy, GoneBy, Made
    <2>3. kind = "gossip_priority" => st = [next |-> 0, queue |-> << >>]
      BY DEF Init, MeshInit, MessageKinds, PeerKinds, HealthKinds, EpochKinds, PaceKinds,
             MeshKinds, LedgerKinds
    <2>4. kind = "gossip_priority" =>
            /\ st.next = 0 /\ DOMAIN st.queue = {} /\ st = [next |-> st.next, queue |-> st.queue]
      BY <2>3
    <2>5. QueueInv
      BY <2>1, <2>2, <2>4 DEF QueueInv
    <2> QED BY <2>1, <2>5
  <1>2. Inv /\ [Next]_vars => Inv'
    <2> SUFFICES ASSUME Inv, [Next]_vars PROVE Inv'
      OBVIOUS
    <2>1. CASE UNCHANGED vars
      <3>1. kind' = kind /\ calls' = calls /\ st' = st
        BY <2>1 DEF vars
      <3>2. \A id : TakenBy(id)' = TakenBy(id) /\ GoneBy(id)' = GoneBy(id)
        BY <3>1 DEF TakenBy, GoneBy, Made, Taken
      <3> QED BY <3>1, <3>2 DEF QueueInv
    <2>2. CASE Next
      <3>1. kind' = kind /\ kind \in Kinds
        BY <2>2, Dispatch
      <3>2. kind = "gossip_priority" => priority_enqueue \/ dequeue_batch \/ discard_expired
        BY <2>2, Dispatch, MeshServed DEF MeshKinds
      <3>3. CASE kind = "gossip_priority"
        BY <3>1, <3>2, <3>3, QueueGrows, QueueBatches, QueueDiscards
      <3>4. CASE kind # "gossip_priority"
        BY <3>1, <3>4 DEF QueueInv
      <3> QED BY <3>3, <3>4
    <2> QED BY <2>1, <2>2
  <1>3. Inv => QueuedLeaveOnce
    <2> SUFFICES ASSUME QueueInv, kind = "gossip_priority", NEW id \in 0..(st.next - 1)
                 PROVE  Byte(id \in DOMAIN st.queue)
                          + Cardinality({ i \in Made("dequeue") : id \in Taken(i) })
                          + Cardinality({ i \in Made("discard") : id \in calls[i].result }) = 1
      BY DEF QueuedLeaveOnce
    <2>1. PICK T, G : T = TakenBy(id) /\ G = GoneBy(id)
      OBVIOUS
    <2> SUFFICES Byte(id \in DOMAIN st.queue) + Cardinality(T) + Cardinality(G) = 1
      BY <2>1 DEF TakenBy, GoneBy
    <2>2. Cardinality({}) = 0 /\ \A i : Cardinality({i}) = 1
      BY FS_EmptySet, FS_Singleton
    <2>3. id \in Nat /\ id < st.next
      BY DEF QueueInv
    <2>4. CASE id \in DOMAIN st.queue
      <3>1. TakenBy(id) = {} /\ GoneBy(id) = {}
        BY <2>3, <2>4 DEF QueueInv
      <3>2. Byte(id \in DOMAIN st.queue) = 1
        BY <2>4 DEF Byte
      <3>3. Cardinality(T) = 0 /\ Cardinality(G) = 0
        BY <2>1, <2>2, <3>1
      <3> QED BY <3>2, <3>3
    <2>5. CASE id \notin DOMAIN st.queue
      <3>1. \/ TakenBy(id) = {} /\ \E i : GoneBy(id) = {i}
            \/ GoneBy(id) = {} /\ \E i : TakenBy(id) = {i}
        BY <2>3, <2>5 DEF QueueInv
      <3>2. Byte(id \in DOMAIN st.queue) = 0
        BY <2>5 DEF Byte
      <3>3. \/ Cardinality(T) = 0 /\ Cardinality(G) = 1
            \/ Cardinality(T) = 1 /\ Cardinality(G) = 0
        <4>1. \/ T = {} /\ \E i : G = {i}
              \/ G = {} /\ \E i : T = {i}
          BY <2>1, <3>1
        <4>2. CASE T = {} /\ \E i : G = {i}
          BY <2>2, <4>2
        <4>3. CASE G = {} /\ \E i : T = {i}
          BY <2>2, <4>3
        <4> QED BY <4>1, <4>2, <4>3
      <3> QED BY <3>2, <3>3
    <2> QED BY <2>4, <2>5
  <1> QED BY <1>1, <1>2, <1>3, PTL DEF Spec
=============================================================================
