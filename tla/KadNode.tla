------------------------------- MODULE KadNode -------------------------------
(***************************************************************************)
(* The main loop of Kademlia (protocols/kad/src/kad.rs) with the routing   *)
(* table, the record store and the peer store it works on, and the tasks   *)
(* around it: the protocol handlers (protocol.rs) and the Swarm, which     *)
(* post events, the API (control.rs), which sends commands, the timers,    *)
(* the health check, the running queries and the walk of a refresh.        *)
(*                                                                         *)
(* The loop takes an event or a command, whichever is there, and handles   *)
(* it without interruption.  Queries are the subject of KadQuery; here a   *)
(* query is under way, reports the peers it meets, and ends.               *)
(*                                                                         *)
(* A peer is its key; this node is the key 0 (see KBuckets).  No peer is   *)
(* at distance 1, where ClosestBucketsIter visits the bucket twice.        *)
(***************************************************************************)
EXTENDS Integers, Sequences, FiniteSets, KBuckets

CONSTANTS Peers,                    \* the keys of the peers
          RecordKeys,               \* the keys of the records
          Callers,                  \* the callers of bootstrap
          k_value, check_kad_peer_interval, record_ttl, provider_ttl, addr_ttl,
          max_records, max_value_bytes, max_providers_per_key,
          Budgets,                  \* how often the environment does what: kind -> number
          MaxTime

Self == 0
Kinds == {"conn", "ident", "addrs", "request", "control", "bootstrap", "timer", "query", "gc", "close"}

ASSUME KadAssumption ==
    /\ Peers \subseteq Keys \ {Self, 1} /\ RecordKeys \subseteq Keys
    /\ NUM_BUCKETS \in Nat \ {0} /\ K_VALUE \in Nat \ {0} /\ IsFiniteSet(Peers)
    /\ k_value \in Nat \ {0} /\ \A b \in Budgets : b \in [Kinds -> Nat]
    /\ MaxTime \in Nat

PS == INSTANCE PeerStore
MS == INSTANCE MemoryStore WITH Distance <- distance

VARIABLES
    kbuckets, connected_peers, local_addrs, refreshing, total_refreshes,
    records, providers,
    peerstore,
    event_rx, control_rx, control_open,
    running,        \* the main loop
    queries,        \* the iterative queries under way: sequence of [purpose, caller]
    walk,           \* the walk of a refresh: [left, asking, caller], or NoWalk
    checks,         \* the health checks under way: sequence of sequences of peers
    conns,          \* peer -> connections to it
    asked,          \* the peers whose request waits for its response
    answer,         \* the last response: [source, key, closer, provider]
    bootstraps,     \* caller -> what became of its bootstrap
    now, budget

tableVars == <<kbuckets, peerstore>>
storeVars == <<records, providers>>
refreshVars == <<refreshing, total_refreshes, queries, walk, bootstraps>>
chanVars == <<event_rx, control_rx, control_open, running>>
envVars == <<conns, now, budget>>
vars == <<tableVars, storeVars, refreshVars, chanVars, envVars, connected_peers, local_addrs, checks, asked, answer>>
-----------------------------------------------------------------------------
\* Events and commands: what it is, about which peer, and up to two numbers.
Msg(type, p, k, v) == [type |-> type, p |-> p, k |-> k, v |-> v]
NoWalk == [left |-> -1, asking |-> FALSE, caller |-> None]
NoAnswer == [source |-> None, key |-> None, closer |-> << >>, provider |-> << >>]

Post(e) == event_rx' = IF running THEN Append(event_rx, e) ELSE event_rx
Spend(kind) == budget[kind] > 0 /\ budget' = [budget EXCEPT ![kind] = @ - 1]

Init ==
    /\ kbuckets = << >> /\ connected_peers = {} /\ local_addrs = 0
    /\ refreshing = FALSE /\ total_refreshes = 0
    /\ records = << >> /\ providers = << >> /\ peerstore = << >>
    /\ event_rx = << >> /\ control_rx = << >> /\ control_open = TRUE /\ running = TRUE
    /\ queries = << >> /\ walk = NoWalk /\ checks = << >>
    /\ conns = [p \in Peers |-> 0] /\ asked = {} /\ answer = NoAnswer
    /\ bootstraps = [c \in Callers |-> "idle"]
    /\ now = 0 /\ budget \in Budgets
-----------------------------------------------------------------------------
(* The routing table. *)

\* Old enough to be replaced or checked.
IsStale(info) == ~info.permanent /\ (info.aliveness = None \/ now - info.aliveness > check_kad_peer_interval)

\* Seeded fault: a peer that has answered lately may go as well.
Candidates_Fresh(p) == {q \in Bucket(kbuckets, ilog2(p)) : ~kbuckets[q].permanent}

\* The peers of the bucket that may go, those heard of the longest ago, or never.
Candidates(p) ==
    LET old == {q \in Bucket(kbuckets, ilog2(p)) : IsStale(kbuckets[q])}
    IN  {q \in old : \A r \in old : kbuckets[q].aliveness <= kbuckets[r].aliveness}

Without(f, S) == [x \in DOMAIN f \ S |-> f[x]]
With(f, x, v) == [y \in DOMAIN f \cup {x} |-> IF y = x THEN v ELSE f[y]]

\* ps is the peer store after what the handler did to it before.
try_add_peer(ps, p, queried, permanent) ==
    LET info == PeerInfo(IF queried THEN now ELSE None, permanent)
    IN  IF p = Self THEN kbuckets' = kbuckets /\ peerstore' = ps
        ELSE IF p \in DOMAIN kbuckets
        THEN /\ kbuckets' = IF queried THEN [kbuckets EXCEPT ![p].aliveness = now] ELSE kbuckets
             /\ peerstore' = ps
        ELSE IF ~is_full(kbuckets, p)
        THEN kbuckets' = With(kbuckets, p, info) /\ peerstore' = PS!pin(ps, p)
        ELSE IF Candidates(p) = {} THEN kbuckets' = kbuckets /\ peerstore' = ps
        ELSE \E q \in Candidates(p) :
                /\ kbuckets' = With(Without(kbuckets, {q}), p, info)
                /\ peerstore' = PS!pin(PS!unpin(ps, q), p)

try_remove_peer(ps, p, forced) ==
    IF p \notin DOMAIN kbuckets THEN kbuckets' = kbuckets /\ peerstore' = ps
    ELSE IF forced THEN kbuckets' = Without(kbuckets, {p}) /\ peerstore' = PS!unpin(ps, p)
    ELSE kbuckets' = [kbuckets EXCEPT ![p].aliveness = None] /\ peerstore' = ps

\* Never the peer that asks.
find_closest(target, source) ==
    IF target = Self THEN <<Self>>
    ELSE FirstOf(k_value, SelectSeq(closest(kbuckets, target), LAMBDA p : p # source))

provider_peers(k, source) ==
    LET list == MS!ProvidersOf(providers, k)
    IN  FirstOf(k_value, SelectSeq([i \in 1 .. Len(list) |-> list[i].provider], LAMBDA p : p # source))
-----------------------------------------------------------------------------
(* The refresh of the routing table. *)

Answered(c, r) == IF c = None THEN bootstraps ELSE [bootstraps EXCEPT ![c] = r]

\* Seeded fault: a refresh under way does not stop another one.
handle_refresh_start_Again(caller, events) ==
    /\ refreshing' = TRUE /\ total_refreshes' = total_refreshes + 1
    /\ queries' = Append(queries, [purpose |-> "refresh", caller |-> caller])
    /\ UNCHANGED <<walk, bootstraps>>
    /\ event_rx' = events

\* Seeded fault: a bootstrap that cannot start is not answered.
handle_refresh_start_Silent(caller, events) ==
    /\ refreshing' = (refreshing \/ num_entries(kbuckets) # 0)
    /\ queries' = IF refreshing \/ num_entries(kbuckets) = 0 THEN queries
                  ELSE Append(queries, [purpose |-> "refresh", caller |-> caller])
    /\ UNCHANGED <<total_refreshes, walk, bootstraps>>
    /\ event_rx' = events

\* The self query is started, with the events after this one.
handle_refresh_start(caller, events) ==
    IF refreshing \/ num_entries(kbuckets) = 0
    THEN /\ bootstraps' = Answered(caller, "Err")
         /\ UNCHANGED <<refreshing, total_refreshes, queries, walk>>
         /\ event_rx' = events
    ELSE /\ refreshing' = TRUE /\ total_refreshes' = total_refreshes + 1
         /\ queries' = Append(queries, [purpose |-> "refresh", caller |-> caller])
         /\ UNCHANGED <<walk, bootstraps>>
         /\ event_rx' = events

\* One random key for every bucket beyond the first that is not empty, 16 at most.
handle_self_query_done(caller) ==
    LET used == {i \in 0 .. NUM_BUCKETS - 1 : Bucket(kbuckets, i) # {}}
        left == IF used = {} THEN 0 ELSE Min({16, NUM_BUCKETS - 1 - Min(used)})
    IN  /\ walk' = [left |-> left, asking |-> FALSE, caller |-> caller]
        /\ UNCHANGED <<refreshing, total_refreshes, queries, bootstraps>>

handle_refresh_completed ==
    /\ refreshing' = FALSE
    /\ UNCHANGED <<total_refreshes, queries, walk, bootstraps>>

\* The walk asks for the next key with a command of its own, and waits.
WalkAsks ==
    /\ walk.left > 0 /\ ~walk.asking
    /\ IF control_open
       THEN control_rx' = Append(control_rx, Msg("WalkLookup", None, None, None)) /\ walk' = [walk EXCEPT !.asking = TRUE]
       ELSE walk' = [walk EXCEPT !.left = @ - 1] /\ UNCHANGED control_rx
    /\ UNCHANGED <<tableVars, storeVars, refreshing, total_refreshes, queries, bootstraps, event_rx, control_open,
                   running, envVars, connected_peers, local_addrs, checks, asked, answer>>

\* The result of a lookup does not matter, and the caller gets Ok.
WalkEnds ==
    /\ walk.left = 0
    /\ Post(Msg("Completed", None, None, None))
    /\ bootstraps' = Answered(walk.caller, "Ok")
    /\ walk' = NoWalk
    /\ UNCHANGED <<tableVars, storeVars, refreshing, total_refreshes, queries, control_rx, control_open, running,
                   envVars, connected_peers, local_addrs, checks, asked, answer>>

\* The callback of a query: a refresh goes on, a walk goes on, or a caller of
\* the API is served.
QueryEnds(i) ==
    /\ i \in 1 .. Len(queries)
    /\ queries' = RemoveAt(queries, i)
    /\ IF queries[i].purpose = "refresh"
       THEN Post(Msg("SelfQueryDone", queries[i].caller, None, None)) /\ UNCHANGED walk
       ELSE IF queries[i].purpose = "walk"
       THEN walk' = [walk EXCEPT !.left = @ - 1, !.asking = FALSE] /\ UNCHANGED event_rx
       ELSE UNCHANGED <<walk, event_rx>>
    /\ UNCHANGED <<tableVars, storeVars, refreshing, total_refreshes, bootstraps, control_rx, control_open, running,
                   envVars, connected_peers, local_addrs, checks, asked, answer>>

\* A peer answered a query and named another one, whose address is kept for a while.
QueryMeets(p, q) ==
    /\ queries # << >> /\ Spend("query")
    /\ peerstore' = PS!add_addrs(peerstore, q, {q}, addr_ttl, now)
    /\ Post(Msg("KadPeerFound", p, None, None))
    /\ UNCHANGED <<kbuckets, storeVars, refreshVars, control_rx, control_open, running, conns, now, connected_peers,
                   local_addrs, checks, asked, answer>>

QueryMisses(p) ==
    /\ queries # << >> /\ Spend("query")
    /\ Post(Msg("KadPeerStopped", p, None, None))
    /\ UNCHANGED <<tableVars, storeVars, refreshVars, control_rx, control_open, running, conns, now, connected_peers,
                   local_addrs, checks, asked, answer>>

\* The health check dials the peers one after the other, then has the table refreshed.
CheckPeer(i, ok) ==
    /\ i \in 1 .. Len(checks) /\ checks[i] # << >>
    /\ checks' = [checks EXCEPT ![i] = Tail(@)]
    /\ IF ok THEN UNCHANGED event_rx ELSE Post(Msg("KadPeerStopped", Head(checks[i]), None, None))
    /\ UNCHANGED <<tableVars, storeVars, refreshVars, control_rx, control_open, running, envVars, connected_peers,
                   local_addrs, asked, answer>>
CheckEnds(i) ==
    /\ i \in 1 .. Len(checks) /\ checks[i] = << >>
    /\ checks' = RemoveAt(checks, i)
    /\ Post(Msg("Start", None, None, None))
    /\ UNCHANGED <<tableVars, storeVars, refreshVars, control_rx, control_open, running, envVars, connected_peers,
                   local_addrs, asked, answer>>
-----------------------------------------------------------------------------
(* The main loop: on_events.  Every handler takes the event at the head.   *)

Event(type) == running /\ event_rx # << >> /\ Head(event_rx).type = type
event == Head(event_rx)
Took == event_rx' = Tail(event_rx) /\ UNCHANGED <<control_rx, control_open, running, envVars>>

handle_peer_connected ==
    /\ Event("PeerConnected") /\ Took
    /\ connected_peers' = connected_peers \cup {event.p}
    /\ UNCHANGED <<tableVars, storeVars, refreshVars, local_addrs, checks, asked, answer>>

\* The first of several connections that closes takes the peer out.
handle_peer_disconnected ==
    /\ Event("PeerDisconnected") /\ Took
    /\ connected_peers' = connected_peers \ {event.p}
    /\ UNCHANGED <<tableVars, storeVars, refreshVars, local_addrs, checks, asked, answer>>

handle_peer_identified ==
    /\ Event("PeerIdentified") /\ Took
    /\ IF PS!first_supported_protocol(peerstore, event.p, "kad") THEN try_add_peer(peerstore, event.p, FALSE, FALSE)
       ELSE UNCHANGED tableVars
    /\ UNCHANGED <<storeVars, refreshVars, connected_peers, local_addrs, checks, asked, answer>>

handle_address_changed ==
    /\ Event("AddressChanged")
    /\ local_addrs' = event.v
    /\ handle_refresh_start(None, Tail(event_rx))
    /\ UNCHANGED <<tableVars, storeVars, control_rx, control_open, running, envVars, connected_peers, checks, asked, answer>>

handle_peer_found ==
    /\ Event("KadPeerFound") /\ Took
    /\ try_add_peer(peerstore, event.p, TRUE, FALSE)
    /\ UNCHANGED <<storeVars, refreshVars, connected_peers, local_addrs, checks, asked, answer>>

handle_peer_stopped ==
    /\ Event("KadPeerStopped") /\ Took
    /\ try_remove_peer(peerstore, event.p, FALSE)
    /\ UNCHANGED <<storeVars, refreshVars, connected_peers, local_addrs, checks, asked, answer>>

\* Ok(None) and errors are responses too: the handler waits for one of them.
Respond(closer, provider) ==
    /\ answer' = [source |-> event.p, key |-> event.k, closer |-> closer, provider |-> provider]
    /\ asked' = asked \ {event.p}

handle_ping ==
    /\ Event("Ping") /\ Took
    /\ Respond(<< >>, << >>)
    /\ UNCHANGED <<tableVars, storeVars, refreshVars, connected_peers, local_addrs, checks>>

\* GetValue adds the record, if the store has one.
handle_find_node ==
    /\ Event("FindNode") \/ Event("GetValue")
    /\ Took
    /\ Respond(find_closest(event.k, event.p), << >>)
    /\ UNCHANGED <<tableVars, storeVars, refreshVars, connected_peers, local_addrs, checks>>

handle_get_providers ==
    /\ Event("GetProviders") /\ Took
    /\ Respond(find_closest(event.k, event.p), provider_peers(event.k, event.p))
    /\ UNCHANGED <<tableVars, storeVars, refreshVars, connected_peers, local_addrs, checks>>

\* Seeded fault: a record that this node published is taken back as another's.
handle_put_record_Takes ==
    /\ Event("PutValue") /\ Took
    /\ records' = MS!put(records, event.k, MS!Record(event.v, 0, FALSE, now))
    /\ Respond(<< >>, << >>)
    /\ UNCHANGED <<tableVars, providers, refreshVars, connected_peers, local_addrs, checks>>

\* event.v is the alleged publisher.
handle_put_record ==
    /\ Event("PutValue") /\ Took
    /\ records' = IF event.v = Self THEN records ELSE MS!put(records, event.k, MS!Record(event.v, 0, FALSE, now))
    /\ Respond(<< >>, << >>)
    /\ UNCHANGED <<tableVars, providers, refreshVars, connected_peers, local_addrs, checks>>

\* event.v is the provider: only the peer that asks, and not this node.
handle_add_provider ==
    /\ Event("AddProvider") /\ Took
    /\ IF event.v = event.p /\ event.v # Self
       THEN /\ peerstore' = PS!add_addrs(peerstore, event.v, {event.v}, addr_ttl, now)
            /\ providers' = MS!add_provider(providers, event.k, MS!ProviderRecord(event.v, FALSE, now))
       ELSE UNCHANGED <<peerstore, providers>>
    /\ Respond(<< >>, << >>)
    /\ UNCHANGED <<kbuckets, records, refreshVars, connected_peers, local_addrs, checks>>

handle_gc_timer ==
    /\ Event("GCTimer") /\ Took
    /\ records' = MS!gc_records(records, record_ttl, now)
    /\ providers' = MS!gc_providers(providers, provider_ttl, now)
    /\ UNCHANGED <<tableVars, refreshVars, connected_peers, local_addrs, checks, asked, answer>>

\* The peers that are stale now are what the health check will dial.
handle_refresh_timer ==
    /\ Event("RefreshTimer") /\ Took
    /\ checks' = Append(checks, SelectSeq(closest(kbuckets, Self), LAMBDA p : IsStale(kbuckets[p])))
    /\ UNCHANGED <<tableVars, storeVars, refreshVars, connected_peers, local_addrs, asked, answer>>

\* The stages of a refresh; event.p is the caller of bootstrap.
handle_refresh_stage ==
    /\ Event("Start") \/ Event("SelfQueryDone") \/ Event("Completed")
    /\ CASE event.type = "Start" -> handle_refresh_start(event.p, Tail(event_rx))
         [] event.type = "SelfQueryDone" -> handle_self_query_done(event.p) /\ event_rx' = Tail(event_rx)
         [] event.type = "Completed" -> handle_refresh_completed /\ event_rx' = Tail(event_rx)
    /\ UNCHANGED <<tableVars, storeVars, control_rx, control_open, running, envVars, connected_peers, local_addrs,
                   checks, asked, answer>>
-----------------------------------------------------------------------------
(* The main loop: on_control_command. *)

Command(type) == running /\ control_rx # << >> /\ Head(control_rx).type = type
cmd == Head(control_rx)
Took2 == control_rx' = Tail(control_rx) /\ UNCHANGED <<control_open, running, envVars>>
Query(purpose) == queries' = Append(queries, [purpose |-> purpose, caller |-> None])

\* add_node: an entry that is there already does not become permanent.
AddNode(p) == try_add_peer(PS!add_addrs(peerstore, p, {p}, addr_ttl, now), p, FALSE, TRUE)

\* cmd.p is the node to start from, if any, cmd.v the caller.
bootstrap ==
    /\ Command("Bootstrap") /\ Took2
    /\ IF cmd.p = None THEN UNCHANGED tableVars ELSE AddNode(cmd.p)
    /\ event_rx' = Append(event_rx, Msg("Start", cmd.v, None, None))
    /\ UNCHANGED <<storeVars, refreshVars, connected_peers, local_addrs, checks, asked, answer>>

add_node ==
    /\ Command("AddNode") /\ Took2
    /\ AddNode(cmd.p)
    /\ UNCHANGED <<event_rx, storeVars, refreshVars, connected_peers, local_addrs, checks, asked, answer>>

remove_node ==
    /\ Command("RemoveNode") /\ Took2
    /\ try_remove_peer(PS!clear_addrs(peerstore, cmd.p), cmd.p, TRUE)
    /\ UNCHANGED <<event_rx, storeVars, refreshVars, connected_peers, local_addrs, checks, asked, answer>>

\* get_closest_peers, for the API or for a walk.
lookup ==
    /\ Command("Lookup") \/ Command("WalkLookup")
    /\ Took2
    /\ Query(IF cmd.type = "WalkLookup" THEN "walk" ELSE "user")
    /\ UNCHANGED <<event_rx, tableVars, storeVars, refreshing, total_refreshes, walk, bootstraps, connected_peers,
                   local_addrs, checks, asked, answer>>

\* Any record of the peer in the peer store is an answer, also one without addresses.
find_peer ==
    /\ Command("FindPeer") /\ Took2
    /\ IF cmd.p \in DOMAIN peerstore THEN UNCHANGED queries ELSE Query("user")
    /\ UNCHANGED <<event_rx, tableVars, storeVars, refreshing, total_refreshes, walk, bootstraps, connected_peers,
                   local_addrs, checks, asked, answer>>

\* cmd.v is the number of providers wanted.
find_providers ==
    /\ Command("FindProviders") /\ Took2
    /\ IF cmd.v # 0 /\ Len(provider_peers(cmd.k, None)) >= cmd.v THEN UNCHANGED queries ELSE Query("user")
    /\ UNCHANGED <<event_rx, tableVars, storeVars, refreshing, total_refreshes, walk, bootstraps, connected_peers,
                   local_addrs, checks, asked, answer>>

get_record ==
    /\ Command("GetRecord") /\ Took2
    /\ IF Cardinality({cmd.k} \cap DOMAIN records) >= k_value THEN UNCHANGED queries ELSE Query("user")
    /\ UNCHANGED <<event_rx, tableVars, storeVars, refreshing, total_refreshes, walk, bootstraps, connected_peers,
                   local_addrs, checks, asked, answer>>

\* cmd.v is the size of the value.  A record that the store refuses is not announced.
put_record ==
    /\ Command("PutRecord") /\ Took2
    /\ LET r == MS!Record(Self, cmd.v, TRUE, now)
       IN  /\ records' = MS!put(records, cmd.k, r)
           /\ IF MS!PutResult(records, cmd.k, r) = "Ok" THEN Query("user") ELSE UNCHANGED queries
    /\ UNCHANGED <<event_rx, tableVars, providers, refreshing, total_refreshes, walk, bootstraps, connected_peers,
                   local_addrs, checks, asked, answer>>

start_providing ==
    /\ Command("Providing") /\ Took2
    /\ providers' = MS!add_provider(providers, cmd.k, MS!ProviderRecord(Self, TRUE, now))
    /\ Query("user")
    /\ UNCHANGED <<event_rx, tableVars, records, refreshing, total_refreshes, walk, bootstraps, connected_peers,
                   local_addrs, checks, asked, answer>>

stop_providing ==
    /\ Command("Unprovide") /\ Took2
    /\ providers' = MS!remove_provider(providers, cmd.k, Self)
    /\ UNCHANGED <<event_rx, tableVars, records, refreshVars, connected_peers, local_addrs, checks, asked, answer>>

\* The control channel is closed and drained.  The timers and the queries are
\* cancelled, the events dropped, and with them the senders of the replies.
LoopEnds ==
    /\ running /\ ~control_open /\ control_rx = << >>
    /\ running' = FALSE
    /\ event_rx' = << >> /\ queries' = << >> /\ asked' = {}
    /\ walk' = IF walk.asking THEN [walk EXCEPT !.left = @ - 1, !.asking = FALSE] ELSE walk
    /\ bootstraps' = [c \in Callers |-> IF bootstraps[c] = "waiting" /\ c # walk.caller THEN "Err" ELSE bootstraps[c]]
    /\ UNCHANGED <<tableVars, storeVars, refreshing, total_refreshes, control_rx, control_open, envVars,
                   connected_peers, local_addrs, checks, answer>>
-----------------------------------------------------------------------------
(* What comes from outside: the Swarm and its protocol handlers, the API,  *)
(* the timers, and time.                                                   *)

EnvOnly == UNCHANGED <<kbuckets, storeVars, refreshing, total_refreshes, queries, walk, control_open, running,
                       connected_peers, local_addrs, checks, answer, now>>

\* One event for every connection.
connected(p) ==
    /\ Spend("conn") /\ conns[p] < 2
    /\ conns' = [conns EXCEPT ![p] = @ + 1]
    /\ Post(Msg("PeerConnected", p, None, None))
    /\ EnvOnly /\ UNCHANGED <<peerstore, control_rx, bootstraps, asked>>
disconnected(p) ==
    /\ Spend("conn") /\ conns[p] > 0
    /\ conns' = [conns EXCEPT ![p] = @ - 1]
    /\ Post(Msg("PeerDisconnected", p, None, None))
    /\ EnvOnly /\ UNCHANGED <<peerstore, control_rx, bootstraps, asked>>

\* The Swarm has put the protocols of the peer into the peer store.
identified(p, protos) ==
    /\ Spend("ident")
    /\ peerstore' = PS!add_protocols(peerstore, p, protos)
    /\ Post(Msg("PeerIdentified", p, None, None))
    /\ EnvOnly /\ UNCHANGED <<control_rx, conns, bootstraps, asked>>

address_changed(v) ==
    /\ Spend("addrs")
    /\ Post(Msg("AddressChanged", None, None, v))
    /\ EnvOnly /\ UNCHANGED <<peerstore, control_rx, conns, bootstraps, asked>>

\* The handler of a stream reads a request, and waits for its response.
handle(p, type, k, v) ==
    /\ running /\ Spend("request") /\ p \notin asked
    /\ asked' = asked \cup {p}
    /\ Post(Msg(type, p, k, v))
    /\ EnvOnly /\ UNCHANGED <<peerstore, control_rx, conns, bootstraps>>

\* An operation of Control other than bootstrap.
Send(type, p, k, v) ==
    /\ control_open /\ Spend("control")
    /\ control_rx' = Append(control_rx, Msg(type, p, k, v))
    /\ EnvOnly /\ UNCHANGED <<peerstore, event_rx, conns, bootstraps, asked>>

SendBootstrap(c, p) ==
    /\ control_open /\ Spend("bootstrap") /\ bootstraps[c] = "idle"
    /\ control_rx' = Append(control_rx, Msg("Bootstrap", p, None, c))
    /\ bootstraps' = [bootstraps EXCEPT ![c] = "waiting"]
    /\ EnvOnly /\ UNCHANGED <<peerstore, event_rx, conns, asked>>

Timer(type) ==
    /\ running /\ Spend("timer")
    /\ Post(Msg(type, None, None, None))
    /\ EnvOnly /\ UNCHANGED <<peerstore, control_rx, conns, bootstraps, asked>>

\* The Swarm collects the addresses that have expired.
PeerStoreGc ==
    /\ Spend("gc")
    /\ peerstore' = PS!remove_expired_addrs(peerstore, now)
    /\ EnvOnly /\ UNCHANGED <<event_rx, control_rx, conns, bootstraps, asked>>

close ==
    /\ control_open /\ Spend("close")
    /\ control_open' = FALSE
    /\ UNCHANGED <<tableVars, storeVars, refreshVars, event_rx, control_rx, running, conns, now, connected_peers,
                   local_addrs, checks, asked, answer>>

Tick ==
    /\ now < MaxTime
    /\ now' = now + 1
    /\ UNCHANGED <<tableVars, storeVars, refreshVars, chanVars, conns, budget, connected_peers, local_addrs, checks,
                   asked, answer>>
-----------------------------------------------------------------------------
on_events ==
    \/ handle_peer_connected \/ handle_peer_disconnected \/ handle_peer_identified \/ handle_address_changed
    \/ handle_peer_found \/ handle_peer_stopped \/ handle_gc_timer \/ handle_refresh_timer \/ handle_refresh_stage
    \/ handle_ping \/ handle_find_node \/ handle_get_providers \/ handle_put_record \/ handle_add_provider

on_control_command ==
    \/ bootstrap \/ add_node \/ remove_node \/ lookup \/ find_peer \/ find_providers \/ get_record \/ put_record
    \/ start_providing \/ stop_providing \/ LoopEnds

Tasks ==
    \/ WalkAsks \/ WalkEnds
    \/ \E i \in 1 .. Len(queries) : QueryEnds(i)
    \/ \E i \in 1 .. Len(checks) : CheckEnds(i) \/ \E ok \in BOOLEAN : CheckPeer(i, ok)

Environment ==
    \/ \E p \in Peers : connected(p) \/ disconnected(p) \/ QueryMisses(p)
    \/ \E p \in Peers, protos \in {{}, {"kad"}} : identified(p, protos)
    \/ \E p, q \in Peers : QueryMeets(p, q)
    \/ address_changed(1 - local_addrs)
    \/ \E p \in Peers, k \in RecordKeys, type \in {"FindNode", "GetValue", "GetProviders"} : handle(p, type, k, None)
    \/ \E p \in Peers : handle(p, "Ping", None, None)
    \/ \E p \in Peers, k \in RecordKeys : \E v \in {p, Self} : handle(p, "PutValue", k, v) \/ handle(p, "AddProvider", k, v)
    \/ \E type \in {"AddNode", "RemoveNode", "FindPeer"}, p \in Peers : Send(type, p, None, None)
    \/ \E type \in {"Lookup", "GetRecord", "Providing", "Unprovide"}, k \in RecordKeys : Send(type, None, k, None)
    \/ \E k \in RecordKeys, v \in {0, max_value_bytes} : Send("PutRecord", None, k, v)
    \/ \E k \in RecordKeys, v \in {0, 1} : Send("FindProviders", None, k, v)
    \/ \E c \in Callers, p \in Peers \cup {None} : SendBootstrap(c, p)
    \/ \E type \in {"GCTimer", "RefreshTimer"} : Timer(type)
    \/ PeerStoreGc \/ close \/ Tick

Next == on_events \/ on_control_command \/ Tasks \/ Environment
Spec == Init /\ [][Next]_vars
\* The loop and the tasks run on; select! serves both channels.
FairSpec == Spec /\ WF_vars(on_events) /\ WF_vars(on_control_command) /\ WF_vars(Tasks)
-----------------------------------------------------------------------------
TypeOK ==
    /\ DOMAIN kbuckets \subseteq Peers /\ \A p \in DOMAIN kbuckets : kbuckets[p].aliveness \in {None} \cup (0 .. MaxTime)
    /\ \A i \in 0 .. NUM_BUCKETS - 1 : Cardinality(Bucket(kbuckets, i)) <= K_VALUE
    /\ connected_peers \subseteq Peers /\ local_addrs \in {0, 1}
    /\ refreshing \in BOOLEAN /\ total_refreshes \in Nat
    /\ DOMAIN records \subseteq RecordKeys /\ DOMAIN providers \subseteq RecordKeys
    /\ DOMAIN peerstore \subseteq Peers
    /\ \A i \in 1 .. Len(queries) : queries[i].purpose \in {"refresh", "walk", "user"}
    /\ walk.left \in -1 .. NUM_BUCKETS /\ asked \subseteq Peers
    /\ bootstraps \in [Callers -> {"idle", "waiting", "Ok", "Err"}]

\* There is one refresh at a time, and the flag says so: a flag that is set has
\* its self query, its walk, or the event between two stages, which will reset it.
RefreshExclusive ==
    running =>
      Cardinality({i \in 1 .. Len(queries) : queries[i].purpose = "refresh"})
      + Cardinality({i \in 1 .. Len(event_rx) : event_rx[i].type \in {"SelfQueryDone", "Completed"}})
      + (IF walk = NoWalk THEN 0 ELSE 1)
      = IF refreshing THEN 1 ELSE 0

\* A peer leaves the routing table because it is removed, or for another one of
\* its bucket when nobody has heard of it for check_kad_peer_interval; a
\* permanent one only because it is removed.
LeavesForAReason ==
    [][\A p \in DOMAIN kbuckets \ DOMAIN kbuckets' :
          \/ Command("RemoveNode") /\ cmd.p = p
          \/ /\ IsStale(kbuckets[p])
             /\ \E q \in DOMAIN kbuckets' \ DOMAIN kbuckets : ilog2(q) = ilog2(p)]_vars

\* A pin of the peer store belongs to an entry of the routing table: an evicted
\* or removed peer can be collected again.
PinsFollowTable == \A p \in DOMAIN peerstore : peerstore[p].pinned => p \in DOMAIN kbuckets

\* handle_refresh_start, try_add_peer and try_remove_peer over any order of answers, timers
\* and disconnects: one refresh at a time, and no pin without an entry of the routing table.
TableMaintained == RefreshExclusive /\ PinsFollowTable

\* What this node published is marked as local, and nothing else is: the
\* collector, which knows only the mark, takes the records of others and never its own.
OwnIsLocal ==
    /\ \A k \in DOMAIN records : (records[k].publisher = Self) <=> (records[k].time_received = MS!NotReceived)
    /\ \A k \in DOMAIN providers : \A i \in 1 .. Len(providers[k]) :
          (providers[k][i].provider = Self) <=> (providers[k][i].time_received = MS!NotReceived)

\* The providers of a key are in the order of their distance to it, none twice,
\* and no more than fit.
ProvidersSorted ==
    \A k \in DOMAIN providers :
        /\ Len(providers[k]) \in 1 .. max_providers_per_key
        /\ \A i, j \in 1 .. Len(providers[k]) :
              i < j => distance(providers[k][i].provider, k) < distance(providers[k][j].provider, k)

\* The record store after any mix of local calls, remote requests and collections: own records
\* are never collected, and providers are sorted, distinct and within their limit.
StoreHolds == OwnIsLocal /\ ProvidersSorted


\* When nobody asks any more, every request has had its response, every caller
\* of bootstrap its result, and no refresh is under way: also when the node is
\* closed in between.
EverybodyIsServed ==
    <>[](/\ asked = {}
         /\ \A c \in Callers : bootstraps[c] # "waiting"
         /\ running => ~refreshing /\ control_rx = << >>)
==============================================================================
