---------------------------- MODULE GossipConfig ----------------------------
(***************************************************************************)
(* The parameters of gossipsub: config.rs and peer_score/params.rs.  A     *)
(* configuration is a record.  Times are in seconds; fractions and the     *)
(* numbers of the scoring are in tenths, gossip_factor is in percent.      *)
(* Functions and identities (message ids, the peer id) are no data here.   *)
(***************************************************************************)
EXTENDS Integers

\* GossipsubConfigBuilder::new
Default ==
    [history_length |-> 5, history_gossip |-> 3, mesh_n |-> 6, mesh_n_low |-> 5, mesh_n_high |-> 12,
     retain_scores |-> 4, gossip_lazy |-> 6, gossip_factor |-> 25, heartbeat_initial_delay |-> 5,
     heartbeat_interval |-> 1, fanout_ttl |-> 60, check_explicit_peers_ticks |-> 300,
     max_transmit_size |-> 65535, duplicate_cache_time |-> 60, validate_messages |-> FALSE,
     allow_self_origin |-> FALSE, prune_backoff |-> 60, backoff_slack |-> 1, flood_publish |-> TRUE,
     graft_flood_threshold |-> 10, mesh_outbound_min |-> 2, opportunistic_graft_ticks |-> 60,
     opportunistic_graft_peers |-> 2, gossip_retransimission |-> 3, max_ihave_length |-> 5000,
     max_ihave_messages |-> 10, iwant_followup_time |-> 3, published_message_ids_cache_time |-> 10]

\* What a configuration is: GossipsubConfig.  The switches are booleans, all else is unsigned.
GossipsubConfig(c) ==
    /\ DOMAIN c = DOMAIN Default
    /\ \A f \in DOMAIN c : IF f \in {"validate_messages", "allow_self_origin", "flood_publish"}
                           THEN c[f] \in BOOLEAN ELSE c[f] \in Nat

\* The setters of the builder: each replaces one field.  changes: field -> value
set(c, changes) == [f \in DOMAIN c |-> IF f \in DOMAIN changes THEN changes[f] ELSE c[f]]

\* What build() accepts.  retain_scores is not looked at.
build(c) ==
    /\ c.max_transmit_size >= 100
    /\ c.history_length >= c.history_gossip
    /\ c.mesh_outbound_min < c.mesh_n_low /\ c.mesh_n_low <= c.mesh_n /\ c.mesh_n <= c.mesh_n_high
    /\ c.mesh_outbound_min * 2 <= c.mesh_n
-----------------------------------------------------------------------------
DefaultThresholds ==
    [gossip_threshold |-> -100, publish_threshold |-> -500, graylist_threshold |-> -800,
     accept_px_threshold |-> 100, opportunistic_graft_threshold |-> 200]

ValidThresholds(th) ==
    /\ th.gossip_threshold <= 0
    /\ th.publish_threshold <= 0 /\ th.publish_threshold <= th.gossip_threshold
    /\ th.graylist_threshold <= 0 /\ th.graylist_threshold <= th.publish_threshold
    /\ th.accept_px_threshold >= 0 /\ th.opportunistic_graft_threshold >= 0

Fraction(d) == 0 < d /\ d < 10

TopicScoreParams ==
    [topic_weight |-> 5,
     time_in_mesh_weight |-> 10, time_in_mesh_quantum |-> 1, time_in_mesh_cap |-> 36000,
     first_message_deliveries_weight |-> 10, first_message_deliveries_decay |-> 5,
     first_message_deliveries_cap |-> 20000,
     mesh_message_deliveries_weight |-> -10, mesh_message_deliveries_decay |-> 5,
     mesh_message_deliveries_cap |-> 1000, mesh_message_deliveries_threshold |-> 200,
     mesh_message_deliveries_window |-> 0, mesh_message_deliveries_activation |-> 5,
     mesh_failure_penalty_weight |-> -10, mesh_failure_penalty_decay |-> 5,
     invalid_message_deliveries_weight |-> -10, invalid_message_deliveries_decay |-> 3]

ValidTopicParams(tp) ==
    /\ tp.topic_weight >= 0
    /\ tp.time_in_mesh_quantum # 0 /\ tp.time_in_mesh_weight >= 0
    /\ tp.time_in_mesh_weight # 0 => tp.time_in_mesh_cap > 0
    /\ tp.first_message_deliveries_weight >= 0
    /\ tp.first_message_deliveries_weight # 0 =>
          Fraction(tp.first_message_deliveries_decay) /\ tp.first_message_deliveries_cap > 0
    /\ tp.mesh_message_deliveries_weight <= 0
    /\ tp.mesh_message_deliveries_weight # 0 =>
          /\ Fraction(tp.mesh_message_deliveries_decay) /\ tp.mesh_message_deliveries_cap > 0
          /\ tp.mesh_message_deliveries_threshold > 0 /\ tp.mesh_message_deliveries_activation >= 1
    /\ tp.mesh_failure_penalty_weight <= 0
    /\ tp.mesh_failure_penalty_weight # 0 => Fraction(tp.mesh_failure_penalty_decay)
    /\ tp.invalid_message_deliveries_weight <= 0 /\ Fraction(tp.invalid_message_deliveries_decay)

PeerScoreParams ==
    [topics |-> << >>, topic_score_cap |-> 36000, app_specific_weight |-> 100,
     ip_colocation_factor_weight |-> -50, ip_colocation_factor_threshold |-> 100,
     behaviour_penalty_weight |-> -100, behaviour_penalty_threshold |-> 0, behaviour_penalty_decay |-> 2,
     decay_interval |-> 1, decay_to_zero |-> 1, retain_score |-> 3600]

ValidParams(ps) ==
    /\ \A t \in DOMAIN ps.topics : ValidTopicParams(ps.topics[t])
    /\ ps.topic_score_cap >= 0
    /\ ps.ip_colocation_factor_weight <= 0
    /\ ps.ip_colocation_factor_weight # 0 => ps.ip_colocation_factor_threshold >= 10
    /\ ps.behaviour_penalty_weight <= 0
    /\ ps.behaviour_penalty_weight # 0 => Fraction(ps.behaviour_penalty_decay)
    /\ ps.behaviour_penalty_threshold >= 0
    /\ ps.decay_interval >= 1 /\ Fraction(ps.decay_to_zero)

\* with_peer_score() refuses everything else.
with_peer_score(ps, th) == ValidParams(ps) /\ ValidThresholds(th)
=============================================================================
