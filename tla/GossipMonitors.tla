--------------------------- MODULE GossipMonitors ---------------------------
(***************************************************************************)
(* The catalogue of the gossip_broadcast_* rate monitors.                  *)
(*                                                                         *)
(* Each of these files holds the same program over other names: an entry   *)
(* (epoch_end, part, whole, rate_pct, flag), compute_hash over all five,   *)
(* a log whose record derives rate_pct and flag and appends, a count of    *)
(* the flagged entries, the mean rate and verify_chain.  After renaming    *)
(* identifiers their token streams agree; what is left is the side of the  *)
(* threshold that is flagged and its value, which is what a definition     *)
(* below records for the file of that name.  (All but the first few files  *)
(* also sum a column; gossip_broadcast_ack takes a minimum instead.)       *)
(* The low-side monitors of fanout and of the e3 and e4 batches count the  *)
(* bad messages and flag a LOW share of them, as their headers say.        *)
(***************************************************************************)
EXTENDS HashChain

\* record flags rate_pct > threshold
High(t) == [side |-> "high", threshold |-> t]
\* record flags rate_pct < threshold
Low(t) == [side |-> "low", threshold |-> t]

\* record's derived columns.  The product is taken in u64, where a u32 times
\* 100 cannot overflow, so no width is lost here.
rate_pct(part, whole) == AtMost((part * 100) \div AtLeastOne(whole), 100)

flagged(policy, rate) ==
    \/ policy.side = "high" /\ rate > policy.threshold
    \/ policy.side = "low"  /\ rate < policy.threshold

\* The data of the entry that record(epoch_end, part, whole) appends.
MonitorEntry(policy, epoch_end, part, whole) ==
    LET rate == rate_pct(part, whole)
    IN  <<epoch_end, part, whole, rate, Byte(flagged(policy, rate))>>

-----------------------------------------------------------------------------
gossip_broadcast_ack == Low(80)
gossip_broadcast_ack_delay_e5 == High(15)
gossip_broadcast_ack_delay_e6 == High(17)
gossip_broadcast_ack_timeout == High(8)
gossip_broadcast_ack_timeout_e3 == High(8)
gossip_broadcast_ack_timeout_e4 == High(8)
gossip_broadcast_auth_fail_e6 == High(9)
gossip_broadcast_backpressure_e3 == High(20)
gossip_broadcast_backpressure_e4 == High(20)
gossip_broadcast_backpressure_e5 == High(14)
gossip_broadcast_backpressure_e6 == High(18)
gossip_broadcast_bandwidth_exceed == High(20)
gossip_broadcast_bandwidth_exceed_e3 == High(20)
gossip_broadcast_bandwidth_exceed_e4 == High(20)
gossip_broadcast_batch == Low(50)
gossip_broadcast_batch_e3 == Low(50)
gossip_broadcast_batch_e4 == Low(50)
gossip_broadcast_broadcast_drop == High(2)
gossip_broadcast_broadcast_drop_e3 == High(2)
gossip_broadcast_broadcast_drop_e4 == High(2)
gossip_broadcast_broadcast_storm_e5 == High(17)
gossip_broadcast_buffer_overflow_e5 == High(8)
gossip_broadcast_buffer_overflow_e6 == High(15)
gossip_broadcast_capacity_breach == High(5)
gossip_broadcast_capacity_breach_e3 == High(5)
gossip_broadcast_capacity_breach_e4 == High(5)
gossip_broadcast_cert_expire_e6 == High(4)
gossip_broadcast_cert_reject_e5 == High(4)
gossip_broadcast_collision == High(5)
gossip_broadcast_collision_e3 == High(5)
gossip_broadcast_collision_e4 == High(5)
gossip_broadcast_congestion == High(30)
gossip_broadcast_congestion_e3 == High(30)
gossip_broadcast_congestion_e4 == High(30)
gossip_broadcast_consensus_lag_e5 == High(12)
gossip_broadcast_crc_fail_e6 == High(6)
gossip_broadcast_crypto_fail_e5 == High(2)
gossip_broadcast_dedup_miss == High(3)
gossip_broadcast_dedup_miss_e3 == High(3)
gossip_broadcast_dedup_miss_e4 == High(11)
gossip_broadcast_dedup_miss_e6 == High(25)
gossip_broadcast_drop == High(10)
gossip_broadcast_drop_cascade_e5 == High(9)
gossip_broadcast_drop_cascade_e6 == High(11)
gossip_broadcast_duplicate == High(10)
gossip_broadcast_duplicate_e3 == High(10)
gossip_broadcast_duplicate_e4 == High(10)
gossip_broadcast_echo_detect_e6 == High(7)
gossip_broadcast_epoch_drift_e5 == High(8)
gossip_broadcast_epoch_drift_e6 == High(9)
gossip_broadcast_epoch_gap == High(5)
gossip_broadcast_epoch_gap_e3 == High(5)
gossip_broadcast_epoch_gap_e4 == High(5)
gossip_broadcast_epoch_overlap == High(3)
gossip_broadcast_epoch_overlap_e3 == High(3)
gossip_broadcast_epoch_overlap_e4 == High(15)
gossip_broadcast_epoch_seal_e5 == High(18)
gossip_broadcast_epoch_skip_e5 == High(5)
gossip_broadcast_epoch_skip_e6 == High(7)
gossip_broadcast_epoch_stall == High(5)
gossip_broadcast_epoch_stall_e3 == High(5)
gossip_broadcast_epoch_stall_e4 == High(5)
gossip_broadcast_fanout == Low(40)
gossip_broadcast_fanout_drop_e5 == High(13)
gossip_broadcast_fanout_e3 == Low(40)
gossip_broadcast_fanout_e4 == Low(40)
gossip_broadcast_fanout_e5 == High(18)
gossip_broadcast_fanout_e6 == High(30)
gossip_broadcast_flood_burst_e6 == High(22)
gossip_broadcast_flood_guard_e5 == High(16)
gossip_broadcast_flood_rate == High(15)
gossip_broadcast_flood_rate_e3 == High(15)
gossip_broadcast_flood_rate_e4 == High(20)
gossip_broadcast_fragmentation == High(25)
gossip_broadcast_fragmentation_e3 == High(25)
gossip_broadcast_fragmentation_e4 == High(25)
gossip_broadcast_header_corrupt_e5 == High(4)
gossip_broadcast_header_corrupt_e6 == High(6)
gossip_broadcast_heartbeat_miss_e6 == High(13)
gossip_broadcast_jitter_e3 == High(15)
gossip_broadcast_jitter_e4 == High(15)
gossip_broadcast_latency_spike_e5 == High(13)
gossip_broadcast_latency_spike_e6 == High(15)
gossip_broadcast_link_fail_e5 == High(7)
gossip_broadcast_link_fail_e6 == High(9)
gossip_broadcast_loop_detect_e6 == High(3)
gossip_broadcast_loss == High(3)
gossip_broadcast_loss_e3 == High(3)
gossip_broadcast_loss_e4 == High(3)
gossip_broadcast_malform_e6 == High(5)
gossip_broadcast_msg_loss_e5 == High(11)
gossip_broadcast_msg_loss_e6 == High(8)
gossip_broadcast_msg_ordering == High(5)
gossip_broadcast_msg_ordering_e3 == High(5)
gossip_broadcast_msg_ordering_e4 == High(7)
gossip_broadcast_nack_rate == High(6)
gossip_broadcast_nack_rate_e3 == High(6)
gossip_broadcast_nack_rate_e4 == High(6)
gossip_broadcast_nonce_collision_e5 == High(3)
gossip_broadcast_nonce_collision_e6 == High(5)
gossip_broadcast_orphan_msg_e5 == High(6)
gossip_broadcast_partial_delivery == High(8)
gossip_broadcast_partial_delivery_e3 == High(8)
gossip_broadcast_partial_delivery_e4 == High(8)
gossip_broadcast_partition_detect_e5 == High(5)
gossip_broadcast_partition_detect_e6 == High(7)
gossip_broadcast_partition_heal_e5 == High(22)
gossip_broadcast_peer_churn == High(25)
gossip_broadcast_peer_churn_e3 == High(25)
gossip_broadcast_peer_churn_e4 == High(25)
gossip_broadcast_peer_churn_e5 == High(20)
gossip_broadcast_peer_churn_e6 == High(24)
gossip_broadcast_peer_drift == High(15)
gossip_broadcast_peer_drift_e3 == High(15)
gossip_broadcast_peer_drift_e4 == High(15)
gossip_broadcast_peer_isolation == High(10)
gossip_broadcast_peer_isolation_e3 == High(10)
gossip_broadcast_peer_isolation_e4 == High(6)
gossip_broadcast_peer_latency == High(20)
gossip_broadcast_peer_latency_e3 == High(20)
gossip_broadcast_peer_latency_e4 == High(20)
gossip_broadcast_peer_rejection == High(10)
gossip_broadcast_peer_rejection_e3 == High(10)
gossip_broadcast_peer_rejection_e4 == High(10)
gossip_broadcast_peer_timeout == High(10)
gossip_broadcast_peer_timeout_e3 == High(10)
gossip_broadcast_peer_timeout_e4 == High(8)
gossip_broadcast_phi_angular_e7 == High(61)
gossip_broadcast_phi_convergence_e7 == High(61)
gossip_broadcast_phi_deviation_e7 == High(38)
gossip_broadcast_phi_fibonacci_e7 == High(55)
gossip_broadcast_phi_holographic_e7 == High(61)
gossip_broadcast_phi_reciprocal_e7 == High(61)
gossip_broadcast_phi_seal_e8 == High(61)
gossip_broadcast_phi_squared_e7 == High(61)
gossip_broadcast_phi_stability_e8 == High(61)
gossip_broadcast_phi_unitary_e7 == High(61)
gossip_broadcast_priority_drop_e6 == High(18)
gossip_broadcast_priority_invert_e5 == High(9)
gossip_broadcast_probe_fail_e5 == High(14)
gossip_broadcast_propagation == High(10)
gossip_broadcast_propagation_e3 == High(10)
gossip_broadcast_propagation_e4 == High(10)
gossip_broadcast_queue_overflow == High(3)
gossip_broadcast_queue_overflow_e3 == High(3)
gossip_broadcast_queue_overflow_e4 == High(3)
gossip_broadcast_quorum_miss_e5 == High(7)
gossip_broadcast_quorum_miss_e6 == High(13)
gossip_broadcast_rebroadcast == High(12)
gossip_broadcast_rebroadcast_e3 == High(12)
gossip_broadcast_rebroadcast_e4 == High(12)
gossip_broadcast_rebroadcast_e5 == High(25)
gossip_broadcast_rebroadcast_e6 == High(28)
gossip_broadcast_relay_drop_e5 == High(10)
gossip_broadcast_relay_drop_e6 == High(12)
gossip_broadcast_replay_detect_e6 == High(8)
gossip_broadcast_retry == High(8)
gossip_broadcast_retry_e3 == High(8)
gossip_broadcast_retry_e4 == High(8)
gossip_broadcast_route_flap_e5 == High(12)
gossip_broadcast_route_flap_e6 == High(14)
gossip_broadcast_seq_gap_e5 == High(8)
gossip_broadcast_seq_gap_e6 == High(10)
gossip_broadcast_sequence == High(15)
gossip_broadcast_state_desync_e5 == High(11)
gossip_broadcast_sync_lag == High(30)
gossip_broadcast_sync_lag_e3 == High(30)
gossip_broadcast_sync_lag_e4 == High(30)
gossip_broadcast_sync_lag_e5 == High(10)
gossip_broadcast_sync_lag_e6 == High(21)
gossip_broadcast_timeout == High(5)
gossip_broadcast_timeout_e3 == High(4)
gossip_broadcast_timeout_e4 == High(4)
gossip_broadcast_topology_stale_e5 == High(14)
gossip_broadcast_topology_stale_e6 == High(16)
gossip_broadcast_ttl_exceeded == High(4)
gossip_broadcast_ttl_exceeded_e3 == High(4)
gossip_broadcast_ttl_exceeded_e4 == High(9)
gossip_broadcast_ttl_exhaust_e6 == High(19)
gossip_broadcast_ttl_expire_e5 == High(19)
gossip_broadcast_version_mismatch_e6 == High(11)
gossip_broadcast_window_exhaust_e5 == High(16)
gossip_broadcast_window_exhaust_e6 == High(20)
gossip_broadcast_window_miss_e3 == High(10)
gossip_broadcast_window_miss_e4 == High(10)

-----------------------------------------------------------------------------
\* The policies the crate declares.
Catalogue == {
    gossip_broadcast_ack, gossip_broadcast_ack_delay_e5, gossip_broadcast_ack_delay_e6,
    gossip_broadcast_ack_timeout, gossip_broadcast_ack_timeout_e3,
    gossip_broadcast_ack_timeout_e4, gossip_broadcast_auth_fail_e6,
    gossip_broadcast_backpressure_e3, gossip_broadcast_backpressure_e4,
    gossip_broadcast_backpressure_e5, gossip_broadcast_backpressure_e6,
    gossip_broadcast_bandwidth_exceed, gossip_broadcast_bandwidth_exceed_e3,
    gossip_broadcast_bandwidth_exceed_e4, gossip_broadcast_batch, gossip_broadcast_batch_e3,
    gossip_broadcast_batch_e4, gossip_broadcast_broadcast_drop,
    gossip_broadcast_broadcast_drop_e3, gossip_broadcast_broadcast_drop_e4,
    gossip_broadcast_broadcast_storm_e5, gossip_broadcast_buffer_overflow_e5,
    gossip_broadcast_buffer_overflow_e6, gossip_broadcast_capacity_breach,
    gossip_broadcast_capacity_breach_e3, gossip_broadcast_capacity_breach_e4,
    gossip_broadcast_cert_expire_e6, gossip_broadcast_cert_reject_e5,
    gossip_broadcast_collision, gossip_broadcast_collision_e3, gossip_broadcast_collision_e4,
    gossip_broadcast_congestion, gossip_broadcast_congestion_e3, gossip_broadcast_congestion_e4,
    gossip_broadcast_consensus_lag_e5, gossip_broadcast_crc_fail_e6,
    gossip_broadcast_crypto_fail_e5, gossip_broadcast_dedup_miss,
    gossip_broadcast_dedup_miss_e3, gossip_broadcast_dedup_miss_e4,
    gossip_broadcast_dedup_miss_e6, gossip_broadcast_drop, gossip_broadcast_drop_cascade_e5,
    gossip_broadcast_drop_cascade_e6, gossip_broadcast_duplicate, gossip_broadcast_duplicate_e3,
    gossip_broadcast_duplicate_e4, gossip_broadcast_echo_detect_e6,
    gossip_broadcast_epoch_drift_e5, gossip_broadcast_epoch_drift_e6,
    gossip_broadcast_epoch_gap, gossip_broadcast_epoch_gap_e3, gossip_broadcast_epoch_gap_e4,
    gossip_broadcast_epoch_overlap, gossip_broadcast_epoch_overlap_e3,
    gossip_broadcast_epoch_overlap_e4, gossip_broadcast_epoch_seal_e5,
    gossip_broadcast_epoch_skip_e5, gossip_broadcast_epoch_skip_e6,
    gossip_broadcast_epoch_stall, gossip_broadcast_epoch_stall_e3,
    gossip_broadcast_epoch_stall_e4, gossip_broadcast_fanout, gossip_broadcast_fanout_drop_e5,
    gossip_broadcast_fanout_e3, gossip_broadcast_fanout_e4, gossip_broadcast_fanout_e5,
    gossip_broadcast_fanout_e6, gossip_broadcast_flood_burst_e6,
    gossip_broadcast_flood_guard_e5, gossip_broadcast_flood_rate,
    gossip_broadcast_flood_rate_e3, gossip_broadcast_flood_rate_e4,
    gossip_broadcast_fragmentation, gossip_broadcast_fragmentation_e3,
    gossip_broadcast_fragmentation_e4, gossip_broadcast_header_corrupt_e5,
    gossip_broadcast_header_corrupt_e6, gossip_broadcast_heartbeat_miss_e6,
    gossip_broadcast_jitter_e3, gossip_broadcast_jitter_e4, gossip_broadcast_latency_spike_e5,
    gossip_broadcast_latency_spike_e6, gossip_broadcast_link_fail_e5,
    gossip_broadcast_link_fail_e6, gossip_broadcast_loop_detect_e6, gossip_broadcast_loss,
    gossip_broadcast_loss_e3, gossip_broadcast_loss_e4, gossip_broadcast_malform_e6,
    gossip_broadcast_msg_loss_e5, gossip_broadcast_msg_loss_e6, gossip_broadcast_msg_ordering,
    gossip_broadcast_msg_ordering_e3, gossip_broadcast_msg_ordering_e4,
    gossip_broadcast_nack_rate, gossip_broadcast_nack_rate_e3, gossip_broadcast_nack_rate_e4,
    gossip_broadcast_nonce_collision_e5, gossip_broadcast_nonce_collision_e6,
    gossip_broadcast_orphan_msg_e5, gossip_broadcast_partial_delivery,
    gossip_broadcast_partial_delivery_e3, gossip_broadcast_partial_delivery_e4,
    gossip_broadcast_partition_detect_e5, gossip_broadcast_partition_detect_e6,
    gossip_broadcast_partition_heal_e5, gossip_broadcast_peer_churn,
    gossip_broadcast_peer_churn_e3, gossip_broadcast_peer_churn_e4,
    gossip_broadcast_peer_churn_e5, gossip_broadcast_peer_churn_e6, gossip_broadcast_peer_drift,
    gossip_broadcast_peer_drift_e3, gossip_broadcast_peer_drift_e4,
    gossip_broadcast_peer_isolation, gossip_broadcast_peer_isolation_e3,
    gossip_broadcast_peer_isolation_e4, gossip_broadcast_peer_latency,
    gossip_broadcast_peer_latency_e3, gossip_broadcast_peer_latency_e4,
    gossip_broadcast_peer_rejection, gossip_broadcast_peer_rejection_e3,
    gossip_broadcast_peer_rejection_e4, gossip_broadcast_peer_timeout,
    gossip_broadcast_peer_timeout_e3, gossip_broadcast_peer_timeout_e4,
    gossip_broadcast_phi_angular_e7, gossip_broadcast_phi_convergence_e7,
    gossip_broadcast_phi_deviation_e7, gossip_broadcast_phi_fibonacci_e7,
    gossip_broadcast_phi_holographic_e7, gossip_broadcast_phi_reciprocal_e7,
    gossip_broadcast_phi_seal_e8, gossip_broadcast_phi_squared_e7,
    gossip_broadcast_phi_stability_e8, gossip_broadcast_phi_unitary_e7,
    gossip_broadcast_priority_drop_e6, gossip_broadcast_priority_invert_e5,
    gossip_broadcast_probe_fail_e5, gossip_broadcast_propagation,
    gossip_broadcast_propagation_e3, gossip_broadcast_propagation_e4,
    gossip_broadcast_queue_overflow, gossip_broadcast_queue_overflow_e3,
    gossip_broadcast_queue_overflow_e4, gossip_broadcast_quorum_miss_e5,
    gossip_broadcast_quorum_miss_e6, gossip_broadcast_rebroadcast,
    gossip_broadcast_rebroadcast_e3, gossip_broadcast_rebroadcast_e4,
    gossip_broadcast_rebroadcast_e5, gossip_broadcast_rebroadcast_e6,
    gossip_broadcast_relay_drop_e5, gossip_broadcast_relay_drop_e6,
    gossip_broadcast_replay_detect_e6, gossip_broadcast_retry, gossip_broadcast_retry_e3,
    gossip_broadcast_retry_e4, gossip_broadcast_route_flap_e5, gossip_broadcast_route_flap_e6,
    gossip_broadcast_seq_gap_e5, gossip_broadcast_seq_gap_e6, gossip_broadcast_sequence,
    gossip_broadcast_state_desync_e5, gossip_broadcast_sync_lag, gossip_broadcast_sync_lag_e3,
    gossip_broadcast_sync_lag_e4, gossip_broadcast_sync_lag_e5, gossip_broadcast_sync_lag_e6,
    gossip_broadcast_timeout, gossip_broadcast_timeout_e3, gossip_broadcast_timeout_e4,
    gossip_broadcast_topology_stale_e5, gossip_broadcast_topology_stale_e6,
    gossip_broadcast_ttl_exceeded, gossip_broadcast_ttl_exceeded_e3,
    gossip_broadcast_ttl_exceeded_e4, gossip_broadcast_ttl_exhaust_e6,
    gossip_broadcast_ttl_expire_e5, gossip_broadcast_version_mismatch_e6,
    gossip_broadcast_window_exhaust_e5, gossip_broadcast_window_exhaust_e6,
    gossip_broadcast_window_miss_e3, gossip_broadcast_window_miss_e4 }
=============================================================================
