------------------------------- MODULE PeerScore -------------------------------
(***************************************************************************)
(* protocols/gossipsub/src/peer_score.rs and gossip_promises.rs: the       *)
(* counters a peer is judged by.  Everything that would need a clock tick  *)
(* is commented out in the code (refresh_scores, add_ip, graft_time): the  *)
(* time in mesh stays zero, mesh_message_deliveries_active stays FALSE,    *)
(* no address is known, nothing decays and no retained peer expires.       *)
(*                                                                         *)
(* A score is a record                                                     *)
(*   stats       peer -> [connected, behaviour_penalty, application_score, *)
(*                        topics: topic -> TopicStats]                     *)
(*   deliveries  a TimeCache: message id -> [status, validated, peers]     *)
(* Scores are whole numbers: weights and caps are scaled.                  *)
(***************************************************************************)
EXTENDS Integers, Functions, FiniteSetsExt

CONSTANTS params,               \* PeerScoreParams: its field topics scores some of the topics
          TIME_CACHE_DURATION   \* how long a delivery is remembered

Cache == INSTANCE TimeCache

TopicStats ==
    [mesh |-> FALSE, first_message_deliveries |-> 0, mesh_message_deliveries_active |-> FALSE,
     mesh_message_deliveries |-> 0, mesh_failure_penalty |-> 0, invalid_message_deliveries |-> 0]

PeerStats == [connected |-> TRUE, topics |-> << >>, behaviour_penalty |-> 0, application_score |-> 0]

DeliveryRecord == [status |-> "Unknown", validated |-> 0, peers |-> {}]

new == [stats |-> << >>, deliveries |-> Cache!new]

-----------------------------------------------------------------------------
(* score() *)

Least(a, b) == IF a < b THEN a ELSE b
Square(n) == n * n

\* The part of one topic: P2, P3, P3b and P4 (P1 is zero).
TopicScore(ts, tp) ==
    tp.topic_weight *
       (  Least(ts.first_message_deliveries, tp.first_message_deliveries_cap)
             * tp.first_message_deliveries_weight
        + (IF /\ ts.mesh_message_deliveries_active
              /\ ts.mesh_message_deliveries < tp.mesh_message_deliveries_threshold
           THEN Square(tp.mesh_message_deliveries_threshold - ts.mesh_message_deliveries)
                   * tp.mesh_message_deliveries_weight
           ELSE 0)
        + ts.mesh_failure_penalty * tp.mesh_failure_penalty_weight
        + Square(ts.invalid_message_deliveries) * tp.invalid_message_deliveries_weight)

\* The topics' sum is capped; P5 and P7 come on top (P6: no address is ever known).
score(s, p) ==
    IF p \notin DOMAIN s.stats THEN 0
    ELSE LET st     == s.stats[p]
             scored == DOMAIN st.topics \intersect DOMAIN params.topics
             sum    == MapThenSumSet(LAMBDA t : TopicScore(st.topics[t], params.topics[t]), scored)
             capped == IF params.topic_score_cap > 0 /\ sum > params.topic_score_cap
                       THEN params.topic_score_cap ELSE sum
             excess == st.behaviour_penalty - params.behaviour_penalty_threshold
         IN  capped + st.application_score * params.app_specific_weight
                    + (IF excess > 0 THEN Square(excess) * params.behaviour_penalty_weight ELSE 0)

-----------------------------------------------------------------------------
(* Peers *)

add_penalty(s, p, count) ==
    IF p \in DOMAIN s.stats THEN [s EXCEPT !.stats[p].behaviour_penalty = @ + count] ELSE s

add_peer(s, p) ==
    [s EXCEPT !.stats = [q \in DOMAIN @ \union {p} |->
        IF q \notin DOMAIN @ THEN PeerStats
        ELSE IF q = p THEN [@[q] EXCEPT !.connected = TRUE] ELSE @[q]]]

\* What a failed delivery quota adds when the peer leaves the mesh.
Deficit(ts, t) ==
    IF /\ ts.mesh_message_deliveries_active
       /\ ts.mesh_message_deliveries < params.topics[t].mesh_message_deliveries_threshold
    THEN Square(params.topics[t].mesh_message_deliveries_threshold - ts.mesh_message_deliveries)
    ELSE 0

\* Good scores are forgotten; the others are retained without their first deliveries.
remove_peer(s, p) ==
    IF score(s, p) > 0
    THEN [s EXCEPT !.stats = Restrict(@, DOMAIN @ \ {p})]
    ELSE IF p \notin DOMAIN s.stats THEN s
    ELSE [s EXCEPT !.stats[p].connected = FALSE,
                   !.stats[p].topics = [t \in DOMAIN @ |->
                       [@[t] EXCEPT !.first_message_deliveries = 0,
                                    !.mesh_failure_penalty =
                                        @ + (IF s.stats[p].topics[t].mesh
                                             THEN Deficit(s.stats[p].topics[t], t) ELSE 0),
                                    !.mesh = FALSE,
                                    !.mesh_message_deliveries_active = FALSE]]]

\* stats_or_default_mut(): topic stats exist only for a known peer and a scored topic.
HasStats(s, p, t) ==
    p \in DOMAIN s.stats /\ (t \in DOMAIN params.topics \/ t \in DOMAIN s.stats[p].topics)

stats_or_default(s, p, t) ==
    IF t \in DOMAIN s.stats[p].topics THEN s.stats[p].topics[t] ELSE TopicStats

SetStats(s, p, t, ts) ==
    [s EXCEPT !.stats[p].topics =
        [u \in DOMAIN @ \union {t} |-> IF u = t THEN ts ELSE @[u]]]

graft(s, p, t) ==
    IF ~HasStats(s, p, t) THEN s
    ELSE SetStats(s, p, t, [stats_or_default(s, p, t) EXCEPT
             !.mesh = TRUE, !.mesh_message_deliveries_active = FALSE])

prune(s, p, t) ==
    IF ~HasStats(s, p, t) THEN s
    ELSE LET ts == stats_or_default(s, p, t)
         IN  SetStats(s, p, t, [ts EXCEPT !.mesh_failure_penalty = @ + Deficit(ts, t),
                                          !.mesh = FALSE,
                                          !.mesh_message_deliveries_active = FALSE])

-----------------------------------------------------------------------------
(* Messages *)

mark_invalid_message_delivery(s, p, t) ==
    IF ~HasStats(s, p, t) THEN s
    ELSE SetStats(s, p, t, [stats_or_default(s, p, t) EXCEPT !.invalid_message_deliveries = @ + 1])

BumpMesh(ts, t) ==
    [ts EXCEPT !.mesh_message_deliveries = Least(@ + 1, params.topics[t].mesh_message_deliveries_cap)]

mark_first_message_delivery(s, p, t) ==
    IF ~HasStats(s, p, t) THEN s
    ELSE LET ts == [stats_or_default(s, p, t) EXCEPT
                       !.first_message_deliveries = Least(@ + 1, params.topics[t].first_message_deliveries_cap)]
         IN  SetStats(s, p, t, IF ts.mesh THEN BumpMesh(ts, t) ELSE ts)

\* inWindow: validated less than a delivery window ago, or not yet.
mark_duplicate_message_delivery(s, p, t, inWindow) ==
    IF ~HasStats(s, p, t) THEN s
    ELSE LET ts == stats_or_default(s, p, t)
         IN  SetStats(s, p, t, IF ts.mesh /\ inWindow THEN BumpMesh(ts, t) ELSE ts)

OpenRecord(s, id, now) ==
    [s EXCEPT !.deliveries =
        Cache!or_insert_with(@, id, DeliveryRecord, TIME_CACHE_DURATION, now)]

Record(s, id) == s.deliveries[id].element

SetRecord(s, id, r) == [s EXCEPT !.deliveries[id].element = r]

validate_message(s, p, id, t, now) == OpenRecord(s, id, now)

ForAll(s, P, op(_, _)) == FoldSet(LAMBDA p, acc : op(acc, p), s, P)

\* The second trace of a message is only logged.
deliver_message(s, p, id, t, now) ==
    LET first == OpenRecord(mark_first_message_delivery(s, p, t), id, now)
        r     == Record(first, id)
    IN  IF r.status # "Unknown" THEN first
        ELSE ForAll(SetRecord(first, id, [r EXCEPT !.status = "Valid", !.validated = now]),
                    r.peers \ {p},
                    LAMBDA acc, q : mark_duplicate_message_delivery(acc, q, t, TRUE))

reject_invalid_message(s, p, t) == mark_invalid_message_delivery(s, p, t)

\* Validation failures and our own messages only count; blacklisted ones are ignored.
reject_message(s, p, id, t, reason, now) ==
    IF reason \in {"ValidationError", "SelfOrigin"} THEN reject_invalid_message(s, p, t)
    ELSE IF reason \in {"BlackListedPeer", "BlackListedSource"} THEN s
    ELSE LET opened == OpenRecord(s, id, now)
             r      == Record(opened, id)
         IN  IF r.status # "Unknown" THEN opened
             ELSE IF reason = "ValidationIgnored"
             THEN SetRecord(opened, id, [r EXCEPT !.status = "Ignored", !.peers = {}])
             ELSE ForAll(mark_invalid_message_delivery(
                            SetRecord(opened, id, [r EXCEPT !.status = "Invalid", !.peers = {}]), p, t),
                         r.peers,
                         LAMBDA acc, q : mark_invalid_message_delivery(acc, q, t))

duplicated_message(s, p, id, t, now) ==
    LET opened == OpenRecord(s, id, now)
        r      == Record(opened, id)
        noted  == SetRecord(opened, id, [r EXCEPT !.peers = @ \union {p}])
    IN  IF p \in r.peers THEN opened
        ELSE CASE r.status = "Unknown" -> noted
               [] r.status = "Valid"   ->
                     mark_duplicate_message_delivery(noted, p, t,
                        t \in DOMAIN params.topics
                          => now <= r.validated + params.topics[t].mesh_message_deliveries_window)
               [] r.status = "Invalid" -> mark_invalid_message_delivery(opened, p, t)
               [] r.status = "Ignored" -> opened

mesh_message_deliveries(s, p, t) ==
    IF p \in DOMAIN s.stats /\ t \in DOMAIN s.stats[p].topics
    THEN {s.stats[p].topics[t].mesh_message_deliveries} ELSE {}

-----------------------------------------------------------------------------
(* GossipPromises: (message, peer) -> when the promise expires *)

\* One random id of the request is tracked; an older promise keeps its time.
add_promise(g, p, id, expires) ==
    IF <<id, p>> \in DOMAIN g THEN g
    ELSE [q \in DOMAIN g \union {<<id, p>>} |-> IF q = <<id, p>> THEN expires ELSE g[q]]


message_delivered(g, id) == Restrict(g, {q \in DOMAIN g : q[1] # id})

promise_rejected(g, id, reason) ==
    IF reason \in {"InvalidSignature", "SelfOrigin"} THEN g ELSE message_delivered(g, id)

Broken(g, now) == {q \in DOMAIN g : g[q] < now}

get_broken_promises(g, now) == [p \in {q[2] : q \in Broken(g, now)} |->
                                   Cardinality({q \in Broken(g, now) : q[2] = p})]

keep_promises(g, now) == Restrict(g, DOMAIN g \ Broken(g, now))
=============================================================================
