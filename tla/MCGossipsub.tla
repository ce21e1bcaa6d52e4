---- MODULE MCGossipsub ----
EXTENDS Gossipsub
CONSTANTS p1, p2, p3, t1, t2, m1, m2, self

BaseConfig ==
    [history_length |-> 2, history_gossip |-> 1, mesh_n |-> 1, mesh_n_low |-> 1, mesh_n_high |-> 2,
     retain_scores |-> 1, gossip_lazy |-> 1, gossip_factor |-> 25, heartbeat_initial_delay |-> 5,
     heartbeat_interval |-> 1, fanout_ttl |-> 1, check_explicit_peers_ticks |-> 300,
     max_transmit_size |-> 65535, duplicate_cache_time |-> 2, validate_messages |-> FALSE,
     allow_self_origin |-> FALSE, prune_backoff |-> 2, backoff_slack |-> 1, flood_publish |-> FALSE,
     graft_flood_threshold |-> 1, mesh_outbound_min |-> 0, opportunistic_graft_ticks |-> 2,
     opportunistic_graft_peers |-> 1, gossip_retransimission |-> 1, max_ihave_length |-> 1,
     max_ihave_messages |-> 2, iwant_followup_time |-> 1, published_message_ids_cache_time |-> 1]

AllV11  == [p \in Peers |-> "Gossipsubv1_1"]
OneTopic == [m \in Messages |-> t1]
FirstOwn == [m \in Messages |-> IF m = m1 THEN Self ELSE p2]
Thresholds == [gossip_threshold |-> -1, publish_threshold |-> -1, graylist_threshold |-> -4,
               accept_px_threshold |-> 0, opportunistic_graft_threshold |-> 1]
TopicParams ==
    [topic_weight |-> 1,
     time_in_mesh_weight |-> 10, time_in_mesh_quantum |-> 1, time_in_mesh_cap |-> 36000,
     first_message_deliveries_weight |-> 1, first_message_deliveries_decay |-> 5,
     first_message_deliveries_cap |-> 1,
     mesh_message_deliveries_weight |-> -1, mesh_message_deliveries_decay |-> 5,
     mesh_message_deliveries_cap |-> 1, mesh_message_deliveries_threshold |-> 1,
     mesh_message_deliveries_window |-> 0, mesh_message_deliveries_activation |-> 5,
     mesh_failure_penalty_weight |-> -1, mesh_failure_penalty_decay |-> 5,
     invalid_message_deliveries_weight |-> -1, invalid_message_deliveries_decay |-> 3]
Params ==
    [topics |-> [t \in Topics |-> TopicParams], topic_score_cap |-> 0, app_specific_weight |-> 1,
     ip_colocation_factor_weight |-> -50, ip_colocation_factor_threshold |-> 100,
     behaviour_penalty_weight |-> -1, behaviour_penalty_threshold |-> 0, behaviour_penalty_decay |-> 2,
     decay_interval |-> 1, decay_to_zero |-> 1, retain_score |-> 3600]

\* The small numbers above are the defaults after some calls of the builder's setters.
ASSUME BuiltFromDefaults ==
    /\ config = Config!set(Config!Default, config)
    /\ params = Config!set(Config!PeerScoreParams, params)
    /\ thresholds = Config!set(Config!DefaultThresholds, thresholds)
    /\ \A t \in DOMAIN params.topics : params.topics[t] = Config!set(Config!TopicScoreParams, params.topics[t])

\* The runs start where every peer is connected and its stream is open.
ConnectedSpec == InitWith(Peers) /\ [][Next]_vars
Symmetry == Permutations(Peers \ Churn)
\* What the step sent decides nothing that follows.
View == <<peerVars, meshVars, cacheVars, scoreVars, appVars, envVars, published, heartbeat_ticks, running>>
====
