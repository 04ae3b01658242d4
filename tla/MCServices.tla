----------------------------- MODULE MCServices -----------------------------
(* Small inputs for each service, and enough calls to cross its limit.       *)
EXTENDS Services

Calls(peers, ids, epochs, n) ==
    [peers |-> peers, ids |-> ids, epochs |-> epochs, calls |-> n]

MessageScope ==
    [token_bucket             |-> Calls({1, 2}, {}, {}, 7),
     flood_guard              |-> Calls({1}, {}, {1, 2}, 6),
     epoch_rate_limiter       |-> Calls({1}, {}, {1, 2}, 6),
     bandwidth_tracker        |-> Calls({1, 2}, {1, 2}, {1, 2}, 4),
     backpressure_controller  |-> Calls({1}, {}, {1, 2}, 4),
     ttl_enforcer             |-> Calls({}, {1}, {}, 5),
     message_ack_tracker      |-> Calls({1}, {1, 2}, {1, 2, 3}, 4),
     message_retry_scheduler  |-> Calls({1}, {1, 2}, {1, 3, 5}, 4),
     message_sequence_tracker |-> Calls({1, 2}, {1, 2, 3}, {}, 5),
     message_deduplicator     |-> Calls({1}, {1, 2}, {1, 2}, 5),
     message_priority_queue   |-> Calls({}, {1}, {}, 6),
     nonce_cache              |-> Calls({1}, {1, 2}, {0, 1, 2, 4}, 4),
     gossip_message_cache     |-> Calls({}, {1, 2}, {0, 1, 2, 4}, 4),
     session_tracker          |-> Calls({1}, {1, 2}, {}, 5)]

PeerScope ==
    [peer_blocklist           |-> Calls({1, 2}, {1}, {1, 2}, 4),
     peer_connection_pool     |-> Calls({1, 2}, {}, {1, 3}, 4),
     peer_address_book        |-> Calls({1, 2}, {1, 2}, {1, 2}, 4),
     routing_table            |-> Calls({1, 2}, {1, 2}, {1}, 4),
     topic_subscription       |-> Calls({1}, {1, 2, 3}, {1}, 5),
     subscription_filter      |-> Calls({1, 2}, {1, 2}, {}, 3),
     peer_capability_tracker  |-> Calls({1, 2}, {1}, {1, 2}, 4),
     heartbeat_tracker        |-> Calls({1, 2}, {}, {}, 6),
     peer_reputation          |-> Calls({1}, {}, {}, 4),
     reputation_decay         |-> Calls({1}, {}, {1, 2, 3}, 4),
     node_state_machine       |-> Calls({1, 2}, {}, {1, 2}, 4),
     consensus_ledger         |-> Calls({1, 2}, {1, 2}, {1}, 4),
     epoch_synchronizer       |-> Calls({}, {}, {1, 2, 3}, 2),
     partition_detector       |-> Calls({1, 2, 3}, {}, {1, 2}, 2)]

HealthScope ==
    [latency_tracker          |-> Calls({1}, {}, {1, 2, 3, 4}, 4),
     link_quality_monitor     |-> Calls({1, 2}, {}, {}, 4),
     peer_liveness_oracle     |-> Calls({1}, {}, {}, 2),
     peer_scoring_engine      |-> Calls({1}, {}, {}, 2),
     quorum_guard             |-> Calls({}, {}, {1, 2}, 2),
     resilience_watchdog      |-> Calls({}, {1, 2, 3}, {}, 6),
     phase_transition         |-> Calls({}, {}, {1, 2, 3}, 3),
     recovery_planner         |-> Calls({1, 2}, {}, {1, 2}, 2),
     intervention_recommender |-> Calls({}, {}, {1, 2}, 2),
     verdict_ledger           |-> Calls({1, 2}, {}, {1}, 3),
     peer_frame_validator     |-> Calls({1, 2}, {}, {1, 2}, 2)]

EpochScope ==
    [entropy_budget           |-> Calls({}, {}, {}, 5),
     momentum_tracker         |-> Calls({}, {}, {}, 5),
     alert_engine             |-> Calls({}, {}, {1, 2}, 2),
     recovery_sequencer       |-> Calls({}, {1, 2}, {}, 4),
     epoch_watermark          |-> Calls({1, 2}, {}, {0, 1, 2, 3}, 5),
     epoch_boundary_detector  |-> Calls({1, 2, 3}, {}, {1, 2}, 5),
     gossip_prober            |-> Calls({1, 2}, {}, {1, 2, 3}, 3),
     backpressure_monitor     |-> Calls({1, 2}, {}, {1, 2}, 2),
     peer_selector            |-> Calls({1, 2, 3}, {}, {1, 2}, 2)]

PaceScope ==
    [adaptive_fanout_controller |-> Calls({}, {}, {1, 2}, 4),
     gossip_scheduler         |-> Calls({}, {}, {}, 10),
     epoch_snapshot_archive   |-> Calls({}, {}, {1, 2, 3, 4}, 5),
     convergence_certifier    |-> Calls({}, {}, {1}, 5)]

MeshScope ==
    [dedup_cache              |-> Calls({1}, {1}, {0, 1, 2, 3}, 5),
     message_fragmenter       |-> Calls({}, {1, 2, 3, 4, 5}, {}, 4),
     message_authenticator    |-> Calls({1, 2}, {1}, {1}, 3),
     gossip_priority          |-> Calls({}, {1, 2}, {1, 3}, 4),
     fanout_controller        |-> Calls({}, {}, {1, 2}, 2),
     epoch_auditor            |-> Calls({}, {}, {2, 3}, 2),
     quorum_drift             |-> Calls({}, {}, {1, 2}, 2),
     divergence_oracle        |-> Calls({}, {}, {1, 2, 3}, 3)]

LedgerScope ==
    [spsf_manager             |-> Calls({}, {1, 2, 4}, {1, 2, 4}, 6),
     gossip_health_compactor  |-> Calls({}, {}, {1}, 2),
     resonance_compactor      |-> Calls({}, {}, {1}, 2),
     compaction_gossip_health |-> Calls({}, {}, {1}, 3),
     unified_compaction_manager |-> Calls({}, {}, {1}, 1),
     lineage_compactor        |-> Calls({}, {1, 2}, {1, 2, 4}, 4),
     gossip_router            |-> Calls({1, 2}, {1, 2}, {}, 4),
     gossip_broadcaster       |-> Calls({1, 2}, {1, 2, 3}, {}, 4)]

SmallScope == MessageScope @@ PeerScope @@ HealthScope @@ EpochScope @@ PaceScope
              @@ MeshScope @@ LedgerScope
=============================================================================
