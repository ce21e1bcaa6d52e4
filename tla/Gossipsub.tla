------------------------------- MODULE Gossipsub -------------------------------
(***************************************************************************)
(* protocols/gossipsub/src/gossipsub.rs: the router of one node.           *)
(*                                                                         *)
(* The main loop (process_loop) takes one event, command or cancellation   *)
(* at a time, so each handler is one action.  Around it run the swarm      *)
(* (connections come and go, the notifiee posts NewPeer and DeadPeer), one *)
(* writer task per handle_new_peer, the heartbeat timer and the            *)
(* application with its Subscriptions.  Remote peers may send any RPC at   *)
(* any time, also after they were removed.                                 *)
(*                                                                         *)
(* An RPC carries one item here: the items of a larger one are handled one *)
(* after the other, and every item is independent of the rest but for the  *)
(* graylist test made once.  Left out: explicit_peers and outbound_peers,  *)
(* which are always empty (add_explicit_peer unwraps a swarm that is set   *)
(* only by start(), which consumes the router; the insertion into          *)
(* outbound_peers is commented out), peer exchange (it only dials) and the *)
(* decay interval, which is never polled.  The data transform is the       *)
(* identity, the default.                                                  *)
(*                                                                         *)
(* One unit of time is the period of the heartbeat timer (one second,      *)
(* whatever the configuration says).                                       *)
(***************************************************************************)
EXTENDS Integers, Sequences, FiniteSets, SequencesExt

CONSTANTS Peers, Topics, Self,
          KindOf,       \* the kind of peer a new stream reveals
          Messages,     \* message ids
          TopicOf,      \* the topic of a message
          SourceOf,     \* the author of a message
          Invalid,      \* messages the codec refuses, with the error
          Blacklist,    \* blacklisted_peers, fixed before start()
          Allowed,      \* topics the subscription filter lets through
          config, thresholds,
          Scored,       \* with_peer_score() was called
          publish_config,
          UsesFastId,   \* config.fast_message_id is set
          RemoteBackoffs, \* back-offs that a PRUNE may carry
          Calls,        \* what the application does
          Churn,        \* peers that come and go
          params, TIME_CACHE_DURATION,
          MaxTime, MaxConns, MaxSubs, MaxQueue, MaxEvents, NONE

Backoff == INSTANCE BackoffStorage
             WITH prune_backoff <- config.prune_backoff,
                  heartbeat_interval <- config.heartbeat_interval,
                  backoff_slack <- config.backoff_slack
MCache  == INSTANCE MessageCache
             WITH history_gossip <- config.history_gossip,
                  history_length <- config.history_length
Score   == INSTANCE PeerScore
Cache   == INSTANCE TimeCache

Config  == INSTANCE GossipConfig

\* What was built; the trimming of a mesh also relies on retain_scores <= mesh_n, which
\* build() does not check, and BackoffStorage divides by heartbeat_interval.
ASSUME ConfigAssumption ==
    /\ Config!GossipsubConfig(config) /\ Config!build(config)
    /\ config.history_gossip >= 1 /\ config.retain_scores <= config.mesh_n
    /\ config.heartbeat_interval >= 1
    /\ Scored => Config!with_peer_score(params, thresholds)

\* What remotes and the swarm may bring.
ASSUME InputAssumption ==
    /\ IsFiniteSet(Peers) /\ Scored \in BOOLEAN
    /\ RemoteBackoffs \ {NONE} \subseteq Nat

VARIABLES
    mesh, fanout, fanout_last_pub,      \* topic -> peers, topic -> peers, topic -> time
    topic_peers, peer_topics,           \* who told us about its subscriptions
    peer_protocols, connected_peer,
    backoffs, mcache,
    duplicate_cache, published_message_ids, fast_message_id_cache,
    peer_score, promises,
    count_received_ihave, count_sent_iwant,
    control_pool,                       \* peer -> control items
    heartbeat_ticks,
    my_topics,                          \* topic -> the Subscription its sender belongs to
    subs, cancel_rx,                    \* live Subscriptions and the cancellations on their way
    rx,                                 \* peer events posted to the main loop
    opening, writing,                   \* writer tasks before and after their new_stream
    conns, met,                         \* open connections; peers ever connected
    events,                             \* RPCs, connections and extra heartbeats (up to MaxEvents)
    published,                          \* own messages that were sent; ids are random, so each once
    now, beats,                         \* the clock and the heartbeats posted
    running,
    out                                 \* what the step sent

peerVars  == <<topic_peers, peer_topics, peer_protocols, connected_peer>>
meshVars  == <<mesh, fanout, fanout_last_pub, backoffs, control_pool>>
cacheVars == <<mcache, duplicate_cache, published_message_ids, fast_message_id_cache>>
scoreVars == <<peer_score, promises, count_received_ihave, count_sent_iwant>>
appVars   == <<my_topics, subs, cancel_rx>>
envVars   == <<rx, opening, writing, conns, met, events, now, beats>>
vars == <<peerVars, meshVars, cacheVars, scoreVars, appVars, envVars, published, heartbeat_ticks, running, out>>

-----------------------------------------------------------------------------
(* Helpers *)

Put(f, x, v) == [y \in DOMAIN f \union {x} |-> IF y = x THEN v ELSE f[y]]
Drop(f, x)   == [y \in DOMAIN f \ {x} |-> f[y]]
At(f, x, default) == IF x \in DOMAIN f THEN f[x] ELSE default

\* peer_score is an Option: without it nothing is recorded and every score is 0.
ScoreOf(s, p) == IF Scored THEN Score!score(s, p) ELSE 0
IfScored(new, old) == IF Scored THEN new ELSE old

score_below_threshold(p, threshold) == Scored /\ Score!score(peer_score, p) < threshold

IsGossip(p) == At(peer_protocols, p, NONE) \in {"Gossipsub", "Gossipsubv1_1"}

\* The subsets a random choice of n peers may return.
Picks(S, n) == IF Cardinality(S) <= n THEN {S} ELSE {P \in SUBSET S : Cardinality(P) = n}

\* get_random_peers(): n subscribed gossipsub peers among the eligible ones.
get_random_peers(t, n, eligible) ==
    Picks({p \in At(topic_peers, t, {}) : IsGossip(p) /\ p \in eligible}, n)

\* send_message(): a peer without a channel gets nothing.
Sent(items) == {i \in items : i.to \in connected_peer}

control_pool_add(pool, P, item) ==
    [p \in DOMAIN pool \union P |-> At(pool, p, {}) \union (IF p \in P THEN {item} ELSE {})]

PrunedScore(s, pairs) == FoldSet(LAMBDA q, acc : Score!prune(acc, q[2], q[1]), s, pairs)

\* make_prune() of a set of <<topic, peer>>: the score hears of it and, unless the
\* peer speaks gossipsub 1.0, the back-off starts.
make_prune(s, b, pairs) ==
    [score    |-> IfScored(PrunedScore(s, pairs), s),
     backoffs |-> Backoff!update_backoff(b, {q \in pairs : At(peer_protocols, q[2], NONE) # "Gossipsub"},
                                         config.prune_backoff, now)]

Grafted(s, pairs) ==
    IfScored(FoldSet(LAMBDA q, acc : Score!graft(acc, q[2], q[1]), s, pairs), s)

-----------------------------------------------------------------------------
AddedPeers(P) == FoldSet(LAMBDA p, acc : Score!add_peer(acc, p), Score!new, P)

\* P: the peers whose connection and stream are open already.
InitWith(P) ==
    /\ mesh = << >> /\ fanout = << >> /\ fanout_last_pub = << >>
    /\ topic_peers = << >> /\ peer_topics = [p \in P |-> {}]
    /\ peer_protocols = [p \in P |-> KindOf[p]] /\ connected_peer = P
    /\ backoffs = Backoff!new
    /\ mcache = MCache!new
    /\ duplicate_cache = Cache!new /\ published_message_ids = Cache!new
    /\ fast_message_id_cache = Cache!new
    /\ peer_score = IfScored(AddedPeers(P), Score!new)
    /\ promises = << >>
    /\ count_received_ihave = << >> /\ count_sent_iwant = << >>
    /\ control_pool = << >>
    /\ heartbeat_ticks = 0
    /\ my_topics = << >> /\ subs = << >> /\ cancel_rx = << >>
    /\ rx = << >>
    /\ opening = [p \in Peers |-> 0]
    /\ writing = [p \in Peers |-> IF p \in P THEN 1 ELSE 0]
    /\ conns = [p \in Peers |-> IF p \in P THEN 1 ELSE 0]
    /\ met = P /\ events = 0 /\ published = {}
    /\ now = 0 /\ beats = 0
    /\ running = TRUE
    /\ out = {}

-----------------------------------------------------------------------------
(* The tasks around the main loop *)

Post(e) == Len(rx) < MaxQueue /\ rx' = Append(rx, e)

Around == UNCHANGED <<peerVars, meshVars, cacheVars, scoreVars, published, heartbeat_ticks, running>> /\ out' = {}

\* The swarm tells the handler of every connection, not of every peer.
connected(p) ==
    /\ conns[p] < MaxConns
    /\ events < MaxEvents /\ events' = events + 1
    /\ Post([kind |-> "NewPeer", peer |-> p])
    /\ conns' = [conns EXCEPT ![p] = @ + 1]
    /\ met' = met \union {p}
    /\ Around /\ UNCHANGED <<appVars, opening, writing, now, beats>>

disconnected(p) ==
    /\ conns[p] > 0
    /\ Post([kind |-> "DeadPeer", peer |-> p])
    /\ conns' = [conns EXCEPT ![p] = @ - 1]
    /\ Around /\ UNCHANGED <<appVars, opening, writing, met, events, now, beats>>

\* The writer task of handle_new_peer: new_stream, then write until the channel closes.
StreamOpened(p) ==
    /\ opening[p] > 0 /\ conns[p] > 0
    /\ opening' = [opening EXCEPT ![p] = @ - 1]
    /\ writing' = [writing EXCEPT ![p] = @ + 1]
    /\ Post([kind |-> "PeerKind", peer |-> p])
    /\ Around /\ UNCHANGED <<appVars, conns, met, events, now, beats>>

StreamFails(p) ==
    /\ opening[p] > 0
    /\ opening' = [opening EXCEPT ![p] = @ - 1]
    /\ Post([kind |-> "DeadPeer", peer |-> p])
    /\ Around /\ UNCHANGED <<appVars, writing, conns, met, events, now, beats>>

\* The stream may be reset at any time.
WriteFails(p) ==
    /\ writing[p] > 0
    /\ writing' = [writing EXCEPT ![p] = @ - 1]
    /\ Post([kind |-> "DeadPeer", peer |-> p])
    /\ Around /\ UNCHANGED <<appVars, opening, conns, met, events, now, beats>>

\* The channel of a removed or replaced peer is closed: its writer just ends.
WriterEnds(p) ==
    /\ opening[p] + writing[p] > (IF p \in connected_peer THEN 1 ELSE 0)
    /\ writing[p] > 0
    /\ writing' = [writing EXCEPT ![p] = @ - 1]
    /\ Around /\ UNCHANGED <<appVars, rx, opening, conns, met, events, now, beats>>

\* The heartbeat timer.
Tick ==
    /\ running /\ now < MaxTime /\ beats = 0
    /\ now' = now + 1 /\ beats' = beats + 1
    /\ Around /\ UNCHANGED <<appVars, rx, opening, writing, conns, met, events>>

\* Dropping a Subscription cancels it.
DropSubscription(i) ==
    /\ "drop" \in Calls
    /\ i \in DOMAIN subs /\ subs[i].live
    /\ subs' = [subs EXCEPT ![i].live = FALSE]
    /\ cancel_rx' = Append(cancel_rx, subs[i].topic)
    /\ Around /\ UNCHANGED <<my_topics, envVars>>

close ==
    /\ "close" \in Calls /\ running
    /\ running' = FALSE
    /\ out' = {}
    /\ UNCHANGED <<peerVars, meshVars, cacheVars, scoreVars, appVars, envVars, published, heartbeat_ticks>>

-----------------------------------------------------------------------------
(* Peer events *)

handle_new_peer(p) ==
    IF p \in Blacklist
    THEN out' = {} /\ UNCHANGED <<connected_peer, peer_topics, peer_score, opening>>
    ELSE /\ connected_peer' = connected_peer \union {p}
         /\ opening' = [opening EXCEPT ![p] = @ + 1]
         /\ out' = {[to |-> p, kind |-> "subscribe", topic |-> t] : t \in DOMAIN mesh}
         /\ peer_topics' = Put(peer_topics, p, {})
         /\ peer_score' = IfScored(Score!add_peer(peer_score, p), peer_score)

\* Seeded fault: the peer's own entry stays behind.
handle_remove_dead_peer_Keeps(p) ==
    /\ topic_peers' = [t \in DOMAIN topic_peers |-> topic_peers[t] \ {p}]
    /\ connected_peer' = connected_peer \ {p}
    /\ UNCHANGED <<mesh, fanout, peer_topics, peer_protocols, peer_score>>

\* Only the topics the peer had announced are cleaned.
handle_remove_dead_peer(p) ==
    LET topics == At(peer_topics, p, {})
        Without(f) == [t \in DOMAIN f |-> IF t \in topics THEN f[t] \ {p} ELSE f[t]]
    IN  IF p \notin DOMAIN peer_topics
        THEN UNCHANGED <<mesh, topic_peers, fanout, connected_peer, peer_topics, peer_protocols, peer_score>>
        ELSE /\ mesh' = Without(mesh)
             /\ topic_peers' = Without(topic_peers)
             /\ fanout' = Without(fanout)
             /\ connected_peer' = connected_peer \ {p}
             /\ peer_topics' = Drop(peer_topics, p)
             /\ peer_protocols' = Drop(peer_protocols, p)
             /\ peer_score' = IfScored(Score!remove_peer(peer_score, p), peer_score)

handle_peer_event ==
    /\ running /\ rx # << >>
    /\ rx' = Tail(rx)
    /\ LET e == Head(rx) IN
       \/ /\ e.kind = "NewPeer"
          /\ handle_new_peer(e.peer)
          /\ UNCHANGED <<mesh, fanout, topic_peers, peer_protocols>>
       \/ /\ e.kind = "PeerKind"
          /\ peer_protocols' = Put(peer_protocols, e.peer, At(peer_protocols, e.peer, KindOf[e.peer]))
          /\ out' = {}
          /\ UNCHANGED <<mesh, fanout, topic_peers, peer_topics, connected_peer, peer_score, opening>>
       \/ /\ e.kind = "DeadPeer"
          /\ handle_remove_dead_peer(e.peer)
          /\ out' = {}
          /\ UNCHANGED opening
    /\ UNCHANGED <<fanout_last_pub, backoffs, control_pool, cacheVars, promises, count_received_ihave,
                   count_sent_iwant, appVars, published, heartbeat_ticks, writing, conns, met, events, now, beats, running>>

-----------------------------------------------------------------------------
(* RPCs: handle_message_event() *)

Received ==
    /\ events < MaxEvents
    /\ events' = events + 1
    /\ UNCHANGED <<appVars, rx, opening, writing, conns, met, now, beats, published, heartbeat_ticks, running>>

\* Peers below the graylist threshold are heard for their subscriptions only.
Heard(p) ==
    /\ running /\ p \in met
    /\ ~score_below_threshold(p, thresholds.graylist_threshold)

CanBeGrafted(p, t) ==
    /\ IsGossip(p)
    /\ ~score_below_threshold(p, 0)
    /\ ~Backoff!is_backoff_with_slack(backoffs, t, p)

\* remove_peer_from_mesh(): the back-off starts if the peer was in the mesh, or always.
remove_peer_from_mesh(p, t, time, always) ==
    LET inMesh == t \in DOMAIN mesh /\ p \in mesh[t]
    IN  /\ mesh' = IF inMesh THEN [mesh EXCEPT ![t] = @ \ {p}] ELSE mesh
        /\ peer_score' = IF inMesh THEN IfScored(Score!prune(peer_score, p, t), peer_score)
                                   ELSE peer_score
        /\ backoffs' = IF inMesh \/ always
                       THEN Backoff!update_backoff(backoffs, {<<t, p>>}, time, now) ELSE backoffs

handle_received_subscriptions(p, t, action) ==
    /\ running /\ p \in met /\ t \in Allowed
    /\ p \in DOMAIN peer_topics
    /\ \/ LET graft == /\ CanBeGrafted(p, t)
                       /\ t \in DOMAIN mesh
                       /\ Cardinality(mesh[t]) < config.mesh_n_low
                       /\ p \notin mesh[t]
          IN  /\ action = "Subscribe"
              /\ topic_peers' = Put(topic_peers, t, At(topic_peers, t, {}) \union {p})
              /\ peer_topics' = [peer_topics EXCEPT ![p] = @ \union {t}]
              /\ mesh' = IF graft THEN [mesh EXCEPT ![t] = @ \union {p}] ELSE mesh
              /\ peer_score' = IF graft THEN Grafted(peer_score, {<<t, p>>}) ELSE peer_score
              /\ out' = IF graft THEN Sent({[to |-> p, kind |-> "graft", topic |-> t]}) ELSE {}
              /\ UNCHANGED backoffs
       \/ /\ action = "Unsubscribe"
          /\ topic_peers' = Put(topic_peers, t, At(topic_peers, t, {}) \ {p})
          /\ peer_topics' = [peer_topics EXCEPT ![p] = @ \ {t}]
          /\ remove_peer_from_mesh(p, t, config.prune_backoff, FALSE)
          /\ out' = {}
    /\ UNCHANGED <<fanout, fanout_last_pub, control_pool, peer_protocols, connected_peer, promises,
                   count_received_ihave, count_sent_iwant, cacheVars>>
    /\ Received

\* Seeded fault: a GRAFT is taken whatever the back-off says.
GraftVerdict_Trusting(p, t) ==
    IF t \in DOMAIN mesh THEN "ok" ELSE "unknown"

\* What becomes of each topic of a GRAFT.
GraftVerdict(p, t) ==
    CASE t \notin DOMAIN mesh -> "unknown"
      [] t \in DOMAIN mesh /\ p \in mesh[t] -> "already"
      [] OTHER ->
           IF Backoff!is_backoff_with_slack(backoffs, t, p) /\ Backoff!get_backoff_time(backoffs, t, p) > now
           THEN "backoff"
           ELSE IF score_below_threshold(p, 0) THEN "negative"
           ELSE IF Cardinality(mesh[t]) >= config.mesh_n_high THEN "full" ELSE "ok"

\* One penalty for a GRAFT during the back-off, two if it comes soon after the PRUNE.
GraftPenalty(p, t) ==
    IF Backoff!get_backoff_time(backoffs, t, p) + config.graft_flood_threshold - config.prune_backoff > now
    THEN 2 ELSE 1

GraftPenalties(p, T) == MapThenSumSet(LAMBDA t : GraftPenalty(p, t), T)

handle_graft(p, T) ==
    LET With(v) == {t \in T : GraftVerdict(p, t) \in v}
        penalty == GraftPenalties(p, With({"backoff"}))
        ok      == {<<t, p>> : t \in With({"ok"})}
        refused == With({"backoff", "negative", "full"})
        pruned  == make_prune(Grafted(IfScored(Score!add_penalty(peer_score, p, penalty), peer_score), ok),
                              backoffs, {<<t, p>> : t \in refused})
    IN  /\ Heard(p)
        /\ mesh' = [t \in DOMAIN mesh |-> IF <<t, p>> \in ok THEN mesh[t] \union {p} ELSE mesh[t]]
        /\ peer_score' = pruned.score
        /\ backoffs' = pruned.backoffs
        /\ out' = Sent({[to |-> p, kind |-> "prune", topic |-> t] : t \in refused})
        /\ UNCHANGED <<fanout, fanout_last_pub, control_pool, peerVars, promises,
                       count_received_ihave, count_sent_iwant, cacheVars>>
        /\ Received

\* NONE: the PRUNE carries no back-off.
handle_prune(p, t, backoff) ==
    /\ Heard(p)
    /\ remove_peer_from_mesh(p, t, IF backoff = NONE THEN config.prune_backoff ELSE backoff, TRUE)
    /\ out' = {}
    /\ UNCHANGED <<fanout, fanout_last_pub, control_pool, peerVars, promises,
                   count_received_ihave, count_sent_iwant, cacheVars>>
    /\ Received

handle_ihave(p, t, ids) ==
    LET have  == At(count_received_ihave, p, 0) + 1
        asked == At(count_sent_iwant, p, 0)
        wants == {m \in ids : t \in DOMAIN mesh /\ ~Cache!contains_key(duplicate_cache, m)}
        room  == IF asked + Cardinality(wants) > config.max_ihave_length
                 THEN config.max_ihave_length - asked ELSE Cardinality(wants)
        Ignore == UNCHANGED <<count_sent_iwant, promises, control_pool>>
    IN  /\ Heard(p)
        /\ IF score_below_threshold(p, thresholds.gossip_threshold)
           THEN Ignore /\ UNCHANGED count_received_ihave
           ELSE /\ count_received_ihave' = Put(count_received_ihave, p, have)
                /\ IF have > config.max_ihave_messages \/ asked >= config.max_ihave_length \/ wants = {}
                   THEN Ignore
                   ELSE \E ask \in Picks(wants, room) : \E tracked \in ask :
                        /\ count_sent_iwant' = Put(count_sent_iwant, p, asked + room)
                        /\ promises' = IfScored(Score!add_promise(promises, p, tracked,
                                                   now + config.iwant_followup_time), promises)
                        /\ control_pool' = control_pool_add(control_pool, {p}, [kind |-> "iwant", ids |-> ask])
        /\ out' = {}
        /\ UNCHANGED <<mesh, fanout, fanout_last_pub, backoffs, peerVars, peer_score, cacheVars>>
        /\ Received

handle_iwant(p, ids) ==
    LET below == score_below_threshold(p, thresholds.gossip_threshold)
    IN  /\ Heard(p)
        /\ mcache' = IF below THEN mcache
                     ELSE MCache!get_with_iwant_counts(mcache, ids, p)
        /\ out' = IF below THEN {}
                  ELSE Sent({[to |-> p, kind |-> "message", id |-> m, via |-> "iwant"] :
                          m \in {i \in ids : /\ MCache!Gettable(mcache, i)
                                             /\ MCache!Count(mcache, i, p) < config.gossip_retransimission}})
        /\ UNCHANGED <<meshVars, peerVars, scoreVars, duplicate_cache, published_message_ids,
                       fast_message_id_cache>>
        /\ Received

-----------------------------------------------------------------------------
(* Messages *)

\* message_is_valid(): why a message is turned down, or NONE.
RejectReason(p, m) ==
    IF p \in Blacklist THEN "BlackListedPeer"
    ELSE IF SourceOf[m] \in Blacklist THEN "BlackListedSource"
    ELSE IF /\ ~config.allow_self_origin
            /\ IF publish_config \in {"Signing", "Author"}
               THEN SourceOf[m] = Self
               ELSE Cache!contains_key(published_message_ids, m)
         THEN "SelfOrigin" ELSE NONE

Rejected(s, g, p, m, reason) ==
    IF reason = NONE \/ ~Scored THEN [score |-> s, promises |-> g]
    ELSE [score    |-> Score!reject_message(s, p, m, TopicOf[m], reason, now),
          promises |-> Score!promise_rejected(g, m, reason)]

Duplicated(s, p, m) == IfScored(Score!duplicated_message(s, p, m, TopicOf[m], now), s)

\* forward_msg(): the mesh but for the peer it came from and its author.
forward_to(m, from) ==
    IF TopicOf[m] \in DOMAIN mesh THEN mesh[TopicOf[m]] \ {from, SourceOf[m]} ELSE {}

Forwarded(m, from) ==
    Sent({[to |-> q, kind |-> "message", id |-> m, via |-> "forward"] : q \in forward_to(m, from)})

handle_invalid_message(p, m, error) ==
    LET known == UsesFastId /\ Cache!contains_key(fast_message_id_cache, m)
    IN  /\ Heard(p)
        /\ peer_score' = IfScored(IF known
                             THEN Score!reject_message(peer_score, p, m, TopicOf[m], "ValidationError", now)
                             ELSE Score!reject_invalid_message(peer_score, p, TopicOf[m]), peer_score)
        /\ promises' = IF known THEN IfScored(Score!promise_rejected(promises, m, error), promises) ELSE promises
        /\ out' = {}
        /\ UNCHANGED <<meshVars, peerVars, cacheVars, count_received_ihave, count_sent_iwant>>
        /\ Received

\* A message whose fast id is known is a duplicate, whatever the duplicate cache says.
KnownFast(p, m) ==
    LET r == Rejected(peer_score, promises, p, m, RejectReason(p, m))
    IN  /\ peer_score' = Duplicated(r.score, p, m)
        /\ promises' = r.promises
        /\ out' = {}
        /\ UNCHANGED cacheVars

Refused(p, m) ==
    LET r == Rejected(peer_score, promises, p, m, RejectReason(p, m))
    IN  /\ peer_score' = r.score
        /\ promises' = r.promises
        /\ out' = {}
        /\ UNCHANGED cacheVars

Remember(m) ==
    /\ fast_message_id_cache' = IF UsesFastId
           THEN Cache!or_insert_with(fast_message_id_cache, m, m, config.duplicate_cache_time, now)
           ELSE fast_message_id_cache
    /\ duplicate_cache' = Cache!insert(duplicate_cache, m, config.duplicate_cache_time, now)
    /\ UNCHANGED published_message_ids

Repeated(p, m) ==
    /\ Remember(m)
    /\ peer_score' = Duplicated(peer_score, p, m)
    /\ out' = {}
    /\ UNCHANGED <<mcache, promises>>

\* What the subscription's sender takes.
notify_subs(m) ==
    {[to |-> Self, kind |-> "message", id |-> m, via |-> my_topics[t]] : t \in DOMAIN my_topics \intersect {TopicOf[m]}}

\* A new message goes to the subscription, into the caches and to the whole mesh; if the
\* application does not validate it is forwarded (again) at once.
Delivered(p, m) ==
    LET t       == TopicOf[m]
        opened  == IfScored(Score!validate_message(peer_score, p, m, t, now), peer_score)
        forward == t \in DOMAIN mesh /\ ~config.validate_messages
    IN  /\ Remember(m)
        /\ promises' = IfScored(Score!message_delivered(promises, m), promises)
        /\ mcache' = MCache!put(mcache, m, [topic |-> t, validated |-> ~config.validate_messages])
        /\ peer_score' = IF forward THEN IfScored(Score!deliver_message(opened, p, m, t, now), opened)
                                    ELSE opened
        /\ out' = notify_subs(m)
                  \union (IF t \in DOMAIN mesh
                          THEN Sent({[to |-> q, kind |-> "message", id |-> m, via |-> "dispatch"] : q \in mesh[t]})
                          ELSE {})
                  \union (IF forward THEN Forwarded(m, p) ELSE {})

handle_received_message(p, m) ==
    /\ Heard(p)
    /\ IF UsesFastId /\ Cache!contains_key(fast_message_id_cache, m) THEN KnownFast(p, m)
       ELSE IF RejectReason(p, m) # NONE THEN Refused(p, m)
       ELSE IF ~Cache!is_new(duplicate_cache, m, now) THEN Repeated(p, m)
       ELSE Delivered(p, m)
    /\ UNCHANGED <<meshVars, peerVars, count_received_ihave, count_sent_iwant>>
    /\ Received

-----------------------------------------------------------------------------
(* Commands of the application *)

Announce(kind, t) ==
    Sent({[to |-> q, kind |-> kind, topic |-> t] : q \in DOMAIN peer_topics})

\* join(): the fanout's peers first, then random ones, up to mesh_n.
join(t) ==
    LET usable == {p \in Peers : /\ ~score_below_threshold(p, 0)
                                /\ ~Backoff!is_backoff_with_slack(backoffs, t, p)}
    IN  \E kept \in Picks(At(fanout, t, {}) \intersect usable, config.mesh_n) :
        \E more \in get_random_peers(t, config.mesh_n - Cardinality(kept), usable \ kept) :
          /\ mesh' = Put(mesh, t, kept \union more)
          /\ fanout' = Drop(fanout, t)
          /\ fanout_last_pub' = Drop(fanout_last_pub, t)
          /\ peer_score' = Grafted(peer_score, {<<t, p>> : p \in kept \union more})
          /\ control_pool' = control_pool_add(control_pool, kept \union more, [kind |-> "graft", topic |-> t])

\* handle_command(Subscribe): a sender kept from before wins over the new one.
subscribe(t) ==
    /\ "subscribe" \in Calls /\ running /\ t \in Allowed
    /\ t \notin DOMAIN mesh
    /\ Cardinality(DOMAIN subs) < MaxSubs
    /\ LET i == Cardinality(DOMAIN subs) + 1
       IN  /\ subs' = Put(subs, i, [topic |-> t, live |-> TRUE])
           /\ my_topics' = Put(my_topics, t, At(my_topics, t, i))
    /\ join(t)
    /\ out' = Announce("subscribe", t)
    /\ UNCHANGED <<peerVars, backoffs, cacheVars, promises, count_received_ihave, count_sent_iwant,
                   cancel_rx, envVars, published, heartbeat_ticks, running>>

\* leave(): every mesh peer is pruned.
leave(t) ==
    LET pruned == make_prune(peer_score, backoffs, {<<t, p>> : p \in At(mesh, t, {})})
    IN  /\ mesh' = Drop(mesh, t)
        /\ peer_score' = pruned.score
        /\ backoffs' = pruned.backoffs
        /\ control_pool' = control_pool_add(control_pool, At(mesh, t, {}), [kind |-> "prune", topic |-> t])
        /\ out' = IF t \in DOMAIN mesh THEN Announce("unsubscribe", t) ELSE {}
        /\ UNCHANGED <<fanout, fanout_last_pub, peerVars, cacheVars, promises,
                       count_received_ihave, count_sent_iwant, published, heartbeat_ticks, running>>

\* handle_command(Unsubscribed) also closes the sender ...
unsubscribe(t) ==
    /\ "unsubscribe" \in Calls /\ running
    /\ t \in DOMAIN mesh \union DOMAIN my_topics
    /\ leave(t)
    /\ my_topics' = Drop(my_topics, t)
    /\ UNCHANGED <<subs, cancel_rx, envVars>>

\* ... a cancelled Subscription does not.
handle_cancel ==
    /\ running /\ cancel_rx # << >>
    /\ leave(Head(cancel_rx))
    /\ cancel_rx' = Tail(cancel_rx)
    /\ UNCHANGED <<my_topics, subs, envVars>>

\* Who gets a published message besides the mesh; a fanout is made up on the way.
PublishTo(t, new) ==
    IF t \notin DOMAIN topic_peers THEN {}
    ELSE IF config.flood_publish
    THEN {p \in topic_peers[t] : ~score_below_threshold(p, thresholds.publish_threshold)}
    ELSE {p \in DOMAIN peer_protocols :
             /\ peer_protocols[p] = "Floodsub"
             /\ ~score_below_threshold(p, thresholds.publish_threshold)}
         \union (IF t \in DOMAIN mesh THEN {} ELSE new)

FanoutChoices(t) ==
    IF t \in DOMAIN fanout THEN {fanout[t]}
    ELSE get_random_peers(t, config.mesh_n, {p \in Peers : ~score_below_threshold(p, thresholds.publish_threshold)})

publish(m) ==
    LET t          == TopicOf[m]
        usesFanout == t \in DOMAIN topic_peers /\ ~config.flood_publish /\ t \notin DOMAIN mesh
        meshSent   == ~config.flood_publish /\ forward_to(m, NONE) # {}
    IN  /\ "publish" \in Calls /\ running /\ SourceOf[m] = Self
        /\ m \notin published
        /\ \E new \in FanoutChoices(t) :
             LET to == PublishTo(t, new) IN
             /\ fanout' = IF usesFanout THEN Put(fanout, t, new) ELSE fanout
             /\ fanout_last_pub' = IF usesFanout THEN Put(fanout_last_pub, t, now) ELSE fanout_last_pub
             /\ IF to = {} /\ ~meshSent
                THEN UNCHANGED <<duplicate_cache, mcache, published_message_ids, published>>
                ELSE /\ published' = published \union {m}
                     /\ duplicate_cache' = Cache!insert(duplicate_cache, m, config.duplicate_cache_time, now)
                     /\ mcache' = MCache!put(mcache, m, [topic |-> t, validated |-> TRUE])
                     /\ published_message_ids' =
                          IF publish_config \in {"RandomAuthor", "Anonymous"} /\ ~config.allow_self_origin
                          THEN Cache!insert(published_message_ids, m,
                                            config.published_message_ids_cache_time, now)
                          ELSE published_message_ids
             /\ out' = (IF meshSent THEN Forwarded(m, NONE) ELSE {})
                       \union Sent({[to |-> p, kind |-> "message", id |-> m, via |-> "publish"] : p \in to})
        /\ UNCHANGED <<mesh, backoffs, control_pool, peerVars, scoreVars, fast_message_id_cache>>
        /\ UNCHANGED <<appVars, envVars, heartbeat_ticks, running>>

-----------------------------------------------------------------------------
(* heartbeat() *)

\* Any |M| - n of the peers, but for the retain_scores best; s: the scores.
Excess(M, n, s) ==
    {X \in SUBSET M :
        /\ Cardinality(X) = Cardinality(M) - n
        /\ \E W \in SUBSET M : /\ X \subseteq W
                               /\ Cardinality(W) = Cardinality(M) - config.retain_scores
                               /\ \A p \in W, q \in M \ W : s[p] <= s[q]}

\* Twice the median score, which is a whole number.
TwiceMedian(M, s) ==
    LET ranked == SetToSortSeq(M, LAMBDA p, q : s[p] < s[q])
        middle == Len(ranked) \div 2
    IN  IF Len(ranked) % 2 = 0 THEN s[ranked[middle]] + s[ranked[middle + 1]]
                               ELSE 2 * s[ranked[middle + 1]]

\* b: the back-offs after their clean-up; s: the scores.
Fresh(t, b) == {p \in Peers : ~Backoff!is_backoff_with_slack(b, t, p)}

\* Who may fill up a small mesh ...
Fills(t, M, b, s) ==
    IF Cardinality(M) >= config.mesh_n_low THEN {{}}
    ELSE get_random_peers(t, config.mesh_n - Cardinality(M), {p \in Fresh(t, b) \ M : s[p] >= 0})

\* ... who may leave a large one ...
Cuts(M, s) == IF Cardinality(M) <= config.mesh_n_high THEN {{}} ELSE Excess(M, config.mesh_n, s)

\* ... and who may come on top from time to time, if the mesh scores badly.
Tops(t, M, b, s, ticks) ==
    IF /\ ticks % config.opportunistic_graft_ticks = 0
       /\ Cardinality(M) > 1 /\ Scored
       /\ TwiceMedian(M, s) < 2 * thresholds.opportunistic_graft_threshold
    THEN get_random_peers(t, config.opportunistic_graft_peers,
             {p \in Fresh(t, b) \ M : 2 * s[p] > TwiceMedian(M, s)})
    ELSE {{}}

\* The meshes that the maintenance of one topic may lead to, with the peers grafted and
\* pruned on the way; the bad ones leave first.
MaintainMesh(t, b, s, ticks) ==
    LET bad  == {p \in mesh[t] : s[p] < 0}
        good == mesh[t] \ bad
    IN  UNION {UNION {{[peers |-> ((good \union add) \ cut) \union top,
                        graft |-> add \union top, prune |-> bad \union cut] :
                       top \in Tops(t, (good \union add) \ cut, b, s, ticks)} :
                     cut \in Cuts(good \union add, s)} :
              add \in Fills(t, good, b, s)}

\* A fanout loses the peers that left; what is added scores below the threshold.
MaintainFanout(t, s) ==
    LET limit == IF Scored THEN thresholds.publish_threshold ELSE 0
        kept  == {p \in fanout[t] : t \in At(peer_topics, p, {}) /\ s[p] >= limit}
    IN  IF Cardinality(kept) >= config.mesh_n THEN {kept}
        ELSE {kept \union more : more \in get_random_peers(t, config.mesh_n - Cardinality(kept),
                                              {p \in Peers \ kept : s[p] < limit})}

\* The functions that pick one of C[t] for each t.
PickEach(C) == {f \in [DOMAIN C -> UNION {C[t] : t \in DOMAIN C}] : \A t \in DOMAIN C : f[t] \in C[t]}

\* emit_gossip() stops at the first topic without messages: the topics it may serve, the
\* meshes in any order and then the fanouts.
GossipTopics(fan) ==
    LET ids(t)   == MCache!get_gossip_message_ids(mcache, t)
        full(D)  == {t \in D : ids(t) # {}}
        part(D)  == IF full(D) = D THEN {D} ELSE SUBSET full(D)
    IN  IF full(DOMAIN mesh) # DOMAIN mesh THEN part(DOMAIN mesh)
        ELSE {DOMAIN mesh \union F : F \in part(DOMAIN fan)}

\* The IHAVEs for one topic: to peers outside the mesh or fanout, truncated per peer.
EmitGossip(t, members, s) ==
    LET ids    == MCache!get_gossip_message_ids(mcache, t)
        below(p) == Scored /\ Score!score(s, p) < thresholds.gossip_threshold
        others == {p \in At(topic_peers, t, {}) : IsGossip(p) /\ p \notin members /\ ~below(p)}
        lazy   == (config.gossip_factor * Cardinality(others)) \div 100
        n      == IF lazy > config.gossip_lazy THEN lazy ELSE config.gossip_lazy
    IN  UNION {[P -> Picks(ids, config.max_ihave_length)] : P \in Picks(others, n)}

\* apply_iwant_penalties(): for the promises that were broken.
apply_iwant_penalties ==
    LET broken == Score!get_broken_promises(promises, now)
    IN  IfScored(FoldSet(LAMBDA p, acc : Score!add_penalty(acc, p, broken[p]), peer_score, DOMAIN broken), peer_score)

\* send_graft_prune(): the score hears of the grafts first, then the prunes are made.
send_graft_prune(s, b, grafts, prunes) ==
    LET pruned == make_prune(Grafted(s, grafts), b, prunes)
    IN  [score |-> pruned.score, backoffs |-> pruned.backoffs,
         items |-> {[to |-> q[2], kind |-> "graft", topic |-> q[1]] : q \in grafts}
                   \union {[to |-> q[2], kind |-> "prune", topic |-> q[1]] : q \in prunes}]

\* flush_control_pool(): whatever has been collected, however old.
flush_control_pool == UNION {{Put(i, "to", p) : i \in control_pool[p]} : p \in DOMAIN control_pool}

heartbeat ==
    LET ticks    == heartbeat_ticks + 1
        b        == Backoff!heartbeat(backoffs, now)
        s0       == apply_iwant_penalties
        s        == [p \in Peers |-> ScoreOf(s0, p)]
        expired  == {t \in DOMAIN fanout_last_pub : fanout_last_pub[t] + config.fanout_ttl < now}
    IN  \E m \in PickEach([t \in DOMAIN mesh |-> MaintainMesh(t, b, s, ticks)]) :
        \E f \in PickEach([t \in DOMAIN fanout \ expired |-> MaintainFanout(t, s)]) :
        \E G \in GossipTopics(f) :
        \E ihave \in PickEach([t \in G |-> EmitGossip(t, IF t \in DOMAIN m THEN m[t].peers ELSE f[t], s0)]) :
          LET grafts == UNION {{<<t, p>> : p \in m[t].graft} : t \in DOMAIN mesh}
              prunes == UNION {{<<t, p>> : p \in m[t].prune} : t \in DOMAIN mesh}
              sent   == send_graft_prune(s0, b, grafts, prunes)
          IN  /\ heartbeat_ticks' = ticks
              /\ mesh' = [t \in DOMAIN mesh |-> m[t].peers]
              /\ fanout' = f
              /\ fanout_last_pub' = [t \in DOMAIN fanout_last_pub \ expired |-> fanout_last_pub[t]]
              /\ backoffs' = sent.backoffs
              /\ peer_score' = sent.score
              /\ promises' = IfScored(Score!keep_promises(promises, now), promises)
              /\ count_sent_iwant' = << >>
              /\ count_received_ihave' = << >>
              /\ control_pool' = << >>
              /\ mcache' = MCache!shift(mcache)
              /\ out' = Sent(sent.items \union flush_control_pool
                             \union UNION {{[to |-> p, kind |-> "ihave", ids |-> ihave[t][p]] :
                                             p \in DOMAIN ihave[t]} : t \in G})
              /\ UNCHANGED <<peerVars, duplicate_cache, published_message_ids, fast_message_id_cache, appVars,
                             published, running>>

\* The heartbeat that the timer has posted.
TimedHeartbeat ==
    /\ running /\ beats > 0
    /\ beats' = beats - 1
    /\ heartbeat
    /\ UNCHANGED <<rx, opening, writing, conns, met, events, now>>

\* One that the application asks for.
HeartbeatCommand ==
    /\ "heartbeat" \in Calls /\ running
    /\ events < MaxEvents /\ events' = events + 1
    /\ heartbeat
    /\ UNCHANGED <<rx, opening, writing, conns, met, now, beats>>

-----------------------------------------------------------------------------
\* What a remote can know of: its own messages and those of others, ours once they are out.
Known == {m \in Messages : SourceOf[m] = Self => m \in published}

\* One item of an RPC.
handle_message_event(p) ==
    \/ \E t \in Topics :
          \/ \E a \in {"Subscribe", "Unsubscribe"} : handle_received_subscriptions(p, t, a)
          \/ \E b \in RemoteBackoffs : handle_prune(p, t, b)
          \/ \E ids \in SUBSET {m \in Known : TopicOf[m] = t} \ {{}} : handle_ihave(p, t, ids)
    \/ \E T \in SUBSET Topics \ {{}} : handle_graft(p, T)
    \/ \E ids \in SUBSET Known \ {{}} : handle_iwant(p, ids)
    \/ \E m \in Known : handle_received_message(p, m)
    \/ \E m \in Invalid : handle_invalid_message(p, m, "InvalidSignature")

\* handle_event(): what the streams, the swarm's notifiee and the timer post.
handle_event == handle_peer_event \/ TimedHeartbeat \/ \E p \in Peers : handle_message_event(p)

\* handle_command(): what a Control asks for; the queries change nothing.
handle_command ==
    \/ \E t \in Topics : subscribe(t) \/ unsubscribe(t)
    \/ \E m \in Messages : publish(m)
    \/ HeartbeatCommand \/ close

\* A peer's connections and the writer tasks of its streams.
PeerTask(p) ==
    \/ connected(p) \/ disconnected(p)
    \/ StreamOpened(p) \/ StreamFails(p) \/ WriteFails(p) \/ WriterEnds(p)

Next ==
    \/ handle_event \/ handle_command \/ handle_cancel
    \/ Tick \/ \E p \in Churn : PeerTask(p)
    \/ \E i \in DOMAIN subs : DropSubscription(i)

Spec == InitWith({}) /\ [][Next]_vars

-----------------------------------------------------------------------------
(* Properties *)

Maps(f, S, D) == f \in UNION {[X -> S] : X \in SUBSET D}

TypeOK ==
    /\ Maps(mesh, SUBSET Peers, Topics) /\ Maps(fanout, SUBSET Peers, Topics)
    /\ Maps(topic_peers, SUBSET Peers, Topics) /\ Maps(peer_topics, SUBSET Topics, Peers)
    /\ connected_peer \subseteq Peers
    /\ DOMAIN backoffs.backoffs \subseteq Topics \X Peers
    /\ DOMAIN mcache.msgs \subseteq Messages /\ Len(mcache.history) = config.history_length
    /\ DOMAIN promises \subseteq Messages \X Peers

\* backoff.rs: backoffs and the ring backoffs_by_heartbeat describe the same pairs, each
\* pair in the one slot that its entry names.  A pair left in a second slot would end its
\* back-off early; a pair in no slot would never end it.
BackoffRingAgrees ==
    /\ \A q \in DOMAIN backoffs.backoffs : q \in backoffs.ring[backoffs.backoffs[q].slot]
    /\ \A i \in DOMAIN backoffs.ring : \A q \in backoffs.ring[i] :
          q \in DOMAIN backoffs.backoffs /\ backoffs.backoffs[q].slot = i

\* No peer that we prune or that pruned us is in the mesh before its back-off is over:
\* GRAFTs, subscriptions, joins and heartbeats all ask the back-off storage.
NoMeshInBackoff ==
    \A t \in DOMAIN mesh : \A p \in mesh[t] :
        <<t, p>> \in DOMAIN backoffs.backoffs => backoffs.backoffs[<<t, p>>].time <= now

\* A PRUNE is respected: the storage's two views of the back-offs (backoff.rs) agree and no
\* peer whose back-off is running is in a mesh, whichever way it could come in.
PruneIsRespected == BackoffRingAgrees /\ NoMeshInBackoff

\* A back-off that is running never gets shorter and is never forgotten.
BackoffIsKept ==
    \A q \in DOMAIN backoffs.backoffs :
        backoffs.backoffs[q].time > now =>
           /\ q \in DOMAIN backoffs'.backoffs
           /\ backoffs'.backoffs[q].time >= backoffs.backoffs[q].time

\* After a heartbeat a mesh is small only if no peer could be added.
MeshIsRepaired ==
    heartbeat_ticks' # heartbeat_ticks =>
       \A t \in DOMAIN mesh' :
          \/ Cardinality(mesh'[t]) >= config.mesh_n_low
          \/ \A p \in At(topic_peers, t, {}) \ mesh'[t] :
                \/ ~IsGossip(p)
                \/ <<t, p>> \in DOMAIN backoffs'.backoffs
                \/ ScoreOf(peer_score', p) < 0

\* What a step may never do to the mesh and the back-offs: heartbeat(), timed or asked for,
\* leaves a mesh small only if nobody may join it, and neither it nor a PRUNE with a shorter
\* time, a departure or a leave ends a back-off before its time.
HeartbeatRepairs == [][MeshIsRepaired /\ BackoffIsKept]_vars

\* GRAFTs, subscriptions, joins and heartbeats together never let a mesh outgrow its limit.
MeshBounded ==
    \A t \in DOMAIN mesh :
        Cardinality(mesh[t]) <= config.mesh_n_high + (IF Scored THEN config.opportunistic_graft_peers ELSE 0)

\* The tables that publish() and heartbeat() choose from agree over any order of RPCs,
\* departures and commands: a peer's topics are listed under the topics too, a fanout has a
\* time to end, no topic is both joined and fanned out, and no mesh outgrows its limit.
TopicTablesAgree ==
    /\ \A p \in DOMAIN peer_topics : \A t \in peer_topics[p] :
          t \in DOMAIN topic_peers /\ p \in topic_peers[t]
    /\ DOMAIN fanout = DOMAIN fanout_last_pub
    /\ DOMAIN fanout \intersect DOMAIN mesh = {}
    /\ MeshBounded

\* A peer that peer_score takes for a mesh member is one, so that nobody earns or loses mesh
\* deliveries outside the mesh.
ScoredInMesh ==
    \A p \in DOMAIN peer_score.stats : \A t \in DOMAIN peer_score.stats[p].topics :
        peer_score.stats[p].topics[t].mesh => t \in DOMAIN mesh /\ p \in mesh[t]

\* A promise is open only while the message is missing: it has not arrived, by whatever way.
PromiseMeansMissing ==
    \A q \in DOMAIN promises :
        q[1] \in DOMAIN duplicate_cache => duplicate_cache[q[1]].expires <= now

\* The requests for messages that are open towards one peer stay within max_ihave_length
\* per heartbeat, over any number of IHAVEs.
IWantBounded ==
    \A p \in DOMAIN control_pool :
        MapThenSumSet(LAMBDA i : Cardinality(i.ids), {i \in control_pool[p] : i.kind = "iwant"})
            <= config.max_ihave_length


\* Whatever an IHAVE advertises can still be had after the heartbeat that sent it, although
\* the same heartbeat shifts the message cache.
AdvertisedIsHeld ==
    [][\A i \in out' : i.kind = "ihave" => \A m \in i.ids : MCache!Gettable(mcache', m)]_vars
=============================================================================
