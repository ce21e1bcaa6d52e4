------------------------------ MODULE KadQuery ------------------------------
(***************************************************************************)
(* One operation of the Kademlia API (protocols/kad/src/kad.rs) and the    *)
(* queries it runs (query.rs).  An iterative query walks towards the key:  *)
(* it keeps at most alpha_value requests under way, learns closer peers    *)
(* from the answers, and ends when the beta_value closest peers answered,  *)
(* when nobody is left to ask, when what it looks for is found, or at its  *)
(* deadline.  put_record, start_providing and get_record then send a       *)
(* record to the peers found with a fixed query, through a TaskLimiter.    *)
(*                                                                         *)
(* A peer is its distance to the key, which is how ClosestPeers, a         *)
(* BTreeMap<Distance, _>, knows it: 0 is the target itself, and the order  *)
(* of the map is that of the numbers.                                      *)
(*                                                                         *)
(* Every job is a task of its own.  Requests go over messengers, kept in a *)
(* cache that the jobs, the fixed query and the main loop share; the main  *)
(* loop takes out the messenger of a peer that disconnected, some time     *)
(* after its connection was lost.                                          *)
(***************************************************************************)
EXTENDS Integers, Sequences, FiniteSets, FiniteSetsExt, SequencesExt

CONSTANTS Peers,            \* the peers of the network, by their distance
          Self,             \* this node, by its distance
          alpha_value, beta_value, k_value, max_reuse_count,
          Operations,       \* the operations a run starts, records as in Operation
          Closer,           \* the sets of peers an answer may list
          Listed,           \* the sequences of providers an answer may list
          MaxLost           \* bound on the connections lost

NonZero == Nat \ {0}
ASSUME QueryAssumption ==
    /\ Peers \subseteq Nat /\ Self \in Nat \ Peers
    /\ alpha_value \in NonZero /\ beta_value \in NonZero /\ k_value \in NonZero
    /\ max_reuse_count \in Nat /\ MaxLost \in Nat

VARIABLES
    op,             \* the operation
    phase,          \* "idle", "iterating", "announcing", "done"
    closest_peers,  \* distance -> PeerState
    query_results,
    rx,             \* the updates sent to the query
    posted,         \* the events posted to the main loop
    reply,          \* what the callback was called with, in order
    tasks,          \* <<kind, peer>> -> the QueryJob or the announcement
    todo,           \* the peers of the fixed query whose task has not begun
    cache,          \* MessengerManager: peer -> messenger
    lost,           \* connections lost whose event the main loop has not handled
    losses,         \* how many were lost so far
    stats

queryVars == <<op, phase, closest_peers, query_results, rx, posted, reply>>
netVars   == <<cache, lost, losses>>
vars == <<queryVars, tasks, todo, netVars, stats>>
-----------------------------------------------------------------------------
(* The types of query.rs. *)

PeerState == {"NotContacted", "Waiting", "Unreachable", "Succeeded"}

\* What is wanted, how much of it, and what the local store has of it.
Operation == [type : {"FindPeer", "GetClosestPeers", "GetProviders", "GetRecord", "PutRecord", "AddProvider"},
              count : Nat, seeds : SUBSET Peers, local : Seq(Peers \cup {Self})]

\* A network is finite, and an answer is about its peers.
ASSUME InputAssumption ==
    /\ IsFiniteSet(Peers)
    /\ Operations \subseteq Operation
    /\ Closer \subseteq SUBSET (Peers \cup {Self})
    /\ Listed \subseteq Seq(Peers \cup {Self})

\* The names of the replies.
Errors == {"NoKnownPeers", "Timeout", "NotFound"}

QueryResult == [closest_peers : SUBSET Peers, found_peer : BOOLEAN, providers : Seq(Peers \cup {Self}),
                records : Seq(Peers \cup {Self}), cache_peers : SUBSET Peers]
NoResult == [closest_peers |-> {}, found_peer |-> FALSE, providers |-> << >>, records |-> << >>,
             cache_peers |-> {}]

Queried(p, closer, provider, has) ==
    [kind |-> "Queried", source |-> p, closer |-> closer, provider |-> provider, record |-> has]
Unreachable(p) ==
    [kind |-> "Unreachable", source |-> p, closer |-> {}, provider |-> << >>, record |-> FALSE]

IterativeStats == {"requests", "success", "failure"}
QueryStats == IterativeStats \cup
    {"fixed_query_executed", "fixed_query_completed", "iter_query_executed", "iter_query_completed",
     "iter_query_timeout", "fixed_tx_error"}
Bump(S) == [f \in QueryStats |-> stats[f] + IF f \in S THEN 1 ELSE 0]
-----------------------------------------------------------------------------
(* ClosestPeers. *)

\* The first num of a set of distances, in the order of the BTreeMap.
Take(num, S) == {d \in S : Cardinality({e \in S : e < d}) < num}

InStates(c, states) == {d \in DOMAIN c : c[d] \in states}
peers_in_states(c, states, num) == Take(num, InStates(c, states))
num_of_states(c, states) == Cardinality(InStates(c, states))

\* A peer that is known keeps its state.
add_peers(c, S) == [d \in DOMAIN c \cup S |-> IF d \in DOMAIN c THEN c[d] ELSE "NotContacted"]

has_target(c) == 0 \in DOMAIN c

set_peer_state(c, d, s) == IF d \in DOMAIN c THEN [c EXCEPT ![d] = s] ELSE c

is_starved(c) == num_of_states(c, {"NotContacted", "Waiting"}) = 0

\* Seeded fault: one answer among the closest is enough.
can_terminate_Any(c) ==
    \E d \in peers_in_states(c, {"NotContacted", "Waiting", "Succeeded"}, beta_value) : c[d] = "Succeeded"

can_terminate(c) ==
    \A d \in peers_in_states(c, {"NotContacted", "Waiting", "Succeeded"}, beta_value) : c[d] = "Succeeded"
-----------------------------------------------------------------------------
(* MessengerManager.  A messenger is known by the task that opened its     *)
(* stream; it is live until the connection is lost.                        *)

TaskIds == {"query", "announce"} \X Peers
KadMessenger == [stream : TaskIds, reuse : 0 .. max_reuse_count, live : BOOLEAN]
build(t) == [stream |-> t, reuse |-> 0, live |-> TRUE]

Without(f, p) == [q \in DOMAIN f \ {p} |-> f[q]]

\* Into the cache, unless it was used often enough or the peer has one there.
put_messenger(c, p, ms) ==
    IF ms.reuse + 1 < max_reuse_count /\ p \notin DOMAIN c
    THEN [q \in DOMAIN c \cup {p} |-> IF q = p THEN [ms EXCEPT !.reuse = @ + 1] ELSE c[q]]
    ELSE c

\* Seeded fault: the messenger stays in the cache.
get_messenger_Stays(c, t) ==
    [ms |-> IF t[2] \in DOMAIN c THEN c[t[2]] ELSE build(t), cache |-> c]

\* The messenger of the cache, which leaves it, or else a new stream.
get_messenger(c, t) ==
    LET p == t[2]
    IN  IF p \in DOMAIN c THEN [ms |-> c[p], cache |-> Without(c, p)]
                          ELSE [ms |-> build(t), cache |-> c]

clear_messengers(c, p) == Without(c, p)

\* The connection to p, which has streams, is lost: every stream on it is, at once.
ConnectionLost(p) ==
    /\ losses < MaxLost
    /\ p \in DOMAIN cache \/ \E t \in DOMAIN tasks : t[2] = p /\ tasks[t].st \in {"sending", "answered"}
    /\ losses' = losses + 1
    /\ lost' = lost \cup {p}
    /\ cache' = [q \in DOMAIN cache |-> IF q = p THEN [cache[q] EXCEPT !.live = FALSE] ELSE cache[q]]
    /\ tasks' = [t \in DOMAIN tasks |-> IF t[2] = p THEN [tasks[t] EXCEPT !.ms.live = FALSE] ELSE tasks[t]]
    /\ UNCHANGED <<queryVars, todo, stats>>

\* The part of the main loop's handler that touches the messengers.
handle_peer_disconnected(p) ==
    /\ p \in lost
    /\ lost' = lost \ {p}
    /\ cache' = clear_messengers(cache, p)
    /\ UNCHANGED <<queryVars, tasks, todo, losses, stats>>
-----------------------------------------------------------------------------
(* Starting an operation. *)

Init ==
    /\ op \in Operations /\ phase = "idle"
    /\ closest_peers = << >> /\ query_results = NoResult /\ rx = << >>
    /\ posted = {} /\ reply = << >> /\ tasks = << >> /\ todo = {}
    /\ cache = << >> /\ lost = {} /\ losses = 0
    /\ stats = [f \in QueryStats |-> 0]

Reply(r) == reply' = Append(reply, r)

\* run(): no seed, no query.  The local records are part of the result, and the
\* seeds are delivered as an answer of this node.
run ==
    IF op.seeds = {}
    THEN /\ phase' = "done" /\ Reply("NoKnownPeers")
         /\ UNCHANGED <<query_results, rx, stats>>
    ELSE /\ phase' = "iterating"
         /\ query_results' = [NoResult EXCEPT !.providers = IF op.type = "GetProviders" THEN op.local ELSE << >>,
                                              !.records = IF op.type = "GetRecord" THEN op.local ELSE << >>]
         /\ rx' = <<Queried(Self, op.seeds, << >>, FALSE)>>
         /\ stats' = Bump({"iter_query_executed"})
         /\ UNCHANGED reply

LocalAnswer ==
    /\ phase' = "done" /\ Reply("Ok")
    /\ UNCHANGED <<query_results, rx, stats>>

\* find_providers and get_record look into the local store first; a lookup for
\* closest peers, also the one before a fixed query, always runs.  (find_peer
\* gets here when the peer store has no address.)
find_providers == op.type = "GetProviders" /\ IF op.count # 0 /\ Len(op.local) >= op.count THEN LocalAnswer ELSE run
get_record == op.type = "GetRecord" /\ IF Len(op.local) >= op.count THEN LocalAnswer ELSE run
find_peer == op.type = "FindPeer" /\ run
get_closest_peers == op.type \in {"GetClosestPeers", "PutRecord", "AddProvider"} /\ run

Start ==
    /\ phase = "idle"
    /\ find_providers \/ get_record \/ find_peer \/ get_closest_peers
    /\ UNCHANGED <<op, closest_peers, posted, tasks, todo, netVars>>
-----------------------------------------------------------------------------
(* handle_update: what an update does to closest_peers and to the result,  *)
(* and whether the query found what it looks for.                          *)

ClosestAfter(u) ==
    IF u.kind = "Queried"
    THEN set_peer_state(add_peers(closest_peers, u.closer \ {Self}), u.source, "Succeeded")
    ELSE set_peer_state(closest_peers, u.source, "Unreachable")

\* Sorted and without duplicates, but only when there were some before.
ProvidersAfter(u) ==
    IF query_results.providers = << >> THEN u.provider
    ELSE IF u.provider = << >> THEN query_results.providers
    ELSE SetToSortSeq(ToSet(query_results.providers \o u.provider), <)

RecordsAfter(u) == IF u.record THEN Append(query_results.records, u.source) ELSE query_results.records

\* The peers of the result that are not known to have the value.
CachePeers(c, records) ==
    Take(k_value, InStates(c, PeerState \ {"Unreachable"}) \ ToSet(records))

QuorumMet(u) == u.record /\ Len(RecordsAfter(u)) > op.count

ResultAfter(u, c) ==
    CASE op.type = "FindPeer" /\ u.kind = "Queried" -> [query_results EXCEPT !.found_peer = has_target(c)]
      [] op.type = "GetProviders" -> [query_results EXCEPT !.providers = ProvidersAfter(u)]
      [] op.type = "GetRecord" ->
            [query_results EXCEPT !.records = RecordsAfter(u),
                                  !.cache_peers = IF QuorumMet(u) THEN CachePeers(c, RecordsAfter(u)) ELSE @]
      [] OTHER -> query_results

IsCompleted(u, c) ==
    CASE op.type = "FindPeer" -> u.kind = "Queried" /\ has_target(c)
      [] op.type = "GetProviders" -> u.provider # << >> /\ op.count # 0 /\ Len(ProvidersAfter(u)) >= op.count
      [] op.type = "GetRecord" -> QuorumMet(u)
      [] OTHER -> FALSE

\* The result of the query, and what the operation makes of it: the value that
\* was asked for, or the announcement to the peers found.  get_record replies
\* and announces.
Finish(c, r) ==
    LET found == peers_in_states(c, {"NotContacted", "Waiting", "Succeeded"}, k_value)
        good == CASE op.type = "FindPeer" -> r.found_peer
                  [] op.type = "GetProviders" -> r.providers # << >>
                  [] op.type = "GetRecord" -> r.records # << >>
                  [] OTHER -> found # {}
        targets == CASE op.type = "GetRecord" -> r.cache_peers
                     [] op.type \in {"PutRecord", "AddProvider"} -> found
                     [] OTHER -> {}
    IN  /\ query_results' = [r EXCEPT !.closest_peers = found]
        /\ rx' = << >>
        /\ todo' = targets
        /\ phase' = IF targets = {} THEN "done" ELSE "announcing"
        /\ IF op.type \in {"PutRecord", "AddProvider"} /\ good THEN UNCHANGED reply
           ELSE Reply(IF good THEN "Ok" ELSE "NotFound")
        /\ stats' = Bump({"iter_query_completed"} \cup IF targets = {} THEN {} ELSE {"fixed_query_executed"})
        /\ UNCHANGED tasks

\* A job for each of the closest peers that were not contacted, as many as are
\* allowed besides those under way.
SpawnJobs(c, r) ==
    LET num_jobs == alpha_value - num_of_states(c, {"Waiting"})
        chosen == peers_in_states(c, {"NotContacted"}, num_jobs)
    IN  /\ closest_peers' = [d \in DOMAIN c |-> IF d \in chosen THEN "Waiting" ELSE c[d]]
        /\ tasks' = [t \in DOMAIN tasks \cup ({"query"} \X chosen) |->
                        IF t[1] = "query" /\ t[2] \in chosen THEN [st |-> "spawned", ms |-> build(t)] ELSE tasks[t]]
        /\ query_results' = r
        /\ rx' = Tail(rx)
        /\ stats' = [stats EXCEPT !["requests"] = @ + Cardinality(chosen)]
        /\ UNCHANGED <<phase, reply, todo>>

\* One turn of the loop of the query: an update, the tests whether to stop, and
\* the next jobs.
Iterate ==
    /\ phase = "iterating" /\ rx # << >>
    /\ LET u == Head(rx)
           c == ClosestAfter(u)
           r == ResultAfter(u, c)
       IN  /\ posted' = posted \cup {<<IF u.kind = "Queried" THEN "KadPeerFound" ELSE "KadPeerStopped", u.source>>}
           /\ IF IsCompleted(u, c) \/ is_starved(c) \/ can_terminate(c)
              THEN closest_peers' = c /\ Finish(c, r)
              ELSE SpawnJobs(c, r)
    /\ UNCHANGED <<op, netVars>>

\* The deadline won the select: the query is dropped, its jobs are not.
Deadline ==
    /\ phase = "iterating"
    /\ phase' = "done" /\ Reply("Timeout")
    /\ stats' = Bump({"iter_query_timeout"})
    /\ rx' = << >>
    /\ UNCHANGED <<op, closest_peers, query_results, posted, tasks, todo, netVars>>
-----------------------------------------------------------------------------
(* A QueryJob, and a task of the fixed query.  The updates of a job whose  *)
(* query has ended go nowhere.                                             *)

Goto(t, s) == tasks' = [tasks EXCEPT ![t].st = s]
Deliver(u) == rx' = IF phase = "iterating" THEN Append(rx, u) ELSE rx

\* The messenger is there, or its stream could be opened.
TaskConnects(t) ==
    /\ t \in DOMAIN tasks /\ tasks[t].st = "spawned"
    /\ LET g == get_messenger(cache, t)
       IN  tasks' = [tasks EXCEPT ![t] = [st |-> "sending", ms |-> g.ms]] /\ cache' = g.cache
    /\ UNCHANGED <<queryVars, todo, lost, losses, stats>>

\* send_find_node, send_get_providers, send_get_value.
JobAnswered(p, closer, provider, has) ==
    LET t == <<"query", p>>
    IN  /\ t \in DOMAIN tasks /\ tasks[t].st = "sending" /\ tasks[t].ms.live
        /\ op.type # "GetProviders" => provider = << >>
        /\ op.type # "GetRecord" => ~has
        /\ Deliver(Queried(p, closer, provider, has))
        /\ Goto(t, "answered")
        /\ UNCHANGED <<op, phase, closest_peers, query_results, posted, reply, todo, netVars, stats>>

\* The messenger goes back, and the job is counted.
JobEnds(p) ==
    LET t == <<"query", p>>
    IN  /\ t \in DOMAIN tasks /\ tasks[t].st = "answered"
        /\ cache' = put_messenger(cache, p, tasks[t].ms)
        /\ Goto(t, "ended")
        /\ stats' = Bump({"success"})
        /\ UNCHANGED <<queryVars, todo, lost, losses>>


\* No stream, a dead one, a timeout or an answer that makes no sense.
JobFails(p) ==
    LET t == <<"query", p>>
    IN  /\ t \in DOMAIN tasks
        /\ \/ tasks[t].st = "spawned" /\ p \notin DOMAIN cache
           \/ tasks[t].st = "sending"
        /\ Deliver(Unreachable(p))
        /\ Goto(t, "ended")
        /\ stats' = Bump({"failure"})
        /\ UNCHANGED <<op, phase, closest_peers, query_results, posted, reply, todo, netVars>>

\* The limiter runs alpha_value tasks at a time, in the order of the peers.
Running(kind) == {t \in DOMAIN tasks : t[1] = kind /\ tasks[t].st \in {"spawned", "sending"}}
AnnounceSpawn ==
    /\ phase = "announcing" /\ todo # {} /\ Cardinality(Running("announce")) < alpha_value
    /\ LET t == <<"announce", Min(todo)>>
       IN  tasks' = [x \in DOMAIN tasks \cup {t} |-> IF x = t THEN [st |-> "spawned", ms |-> build(t)] ELSE tasks[x]]
    /\ todo' = todo \ {Min(todo)}
    /\ UNCHANGED <<queryVars, netVars, stats>>

\* send_put_value, send_add_provider, and the messenger goes back.
AnnounceSent(p) ==
    LET t == <<"announce", p>>
    IN  /\ t \in DOMAIN tasks /\ tasks[t].st = "sending" /\ tasks[t].ms.live
        /\ cache' = put_messenger(cache, p, tasks[t].ms)
        /\ Goto(t, "ended")
        /\ UNCHANGED <<queryVars, todo, lost, losses, stats>>

AnnounceFails(p) ==
    LET t == <<"announce", p>>
    IN  /\ t \in DOMAIN tasks
        /\ \/ tasks[t].st = "spawned" /\ p \notin DOMAIN cache
           \/ tasks[t].st = "sending"
        /\ Goto(t, "failed")
        /\ UNCHANGED <<queryVars, todo, netVars, stats>>

\* limiter.wait() has returned.  Whoever failed, the callback gets Ok.
AnnounceDone ==
    /\ phase = "announcing" /\ todo = {} /\ Running("announce") = {}
    /\ phase' = "done"
    /\ stats' = [Bump({"fixed_query_completed"}) EXCEPT !["fixed_tx_error"] =
                    @ + Cardinality({t \in DOMAIN tasks : t[1] = "announce" /\ tasks[t].st = "failed"})]
    /\ IF op.type = "GetRecord" THEN UNCHANGED reply ELSE Reply("Ok")
    /\ UNCHANGED <<op, closest_peers, query_results, rx, posted, tasks, todo, netVars>>
-----------------------------------------------------------------------------
TaskStep(p) ==
    \/ \E k \in {"query", "announce"} : TaskConnects(<<k, p>>)
    \/ \E closer \in Closer, provider \in Listed, has \in BOOLEAN : JobAnswered(p, closer, provider, has)
    \/ JobEnds(p) \/ JobFails(p) \/ AnnounceSent(p) \/ AnnounceFails(p)

Next ==
    \/ Start \/ Iterate \/ Deadline \/ AnnounceSpawn \/ AnnounceDone
    \/ \E p \in Peers : TaskStep(p) \/ ConnectionLost(p) \/ handle_peer_disconnected(p)

Spec == Init /\ [][Next]_vars

\* The query and its tasks keep running: dialling, reading and writing have
\* timeouts.  Nothing makes the deadline come.
FairSpec ==
    /\ Spec
    /\ WF_vars(Start) /\ WF_vars(Iterate) /\ WF_vars(AnnounceSpawn) /\ WF_vars(AnnounceDone)
    /\ \A p \in Peers : WF_vars(TaskStep(p))
-----------------------------------------------------------------------------
TypeOK ==
    /\ op \in Operation /\ phase \in {"idle", "iterating", "announcing", "done"}
    /\ DOMAIN closest_peers \subseteq Peers /\ \A d \in DOMAIN closest_peers : closest_peers[d] \in PeerState
    /\ query_results \in QueryResult
    /\ posted \subseteq ({"KadPeerFound", "KadPeerStopped"} \X (Peers \cup {Self}))
    /\ \A i \in 1 .. Len(reply) : reply[i] \in Errors \cup {"Ok"}
    /\ DOMAIN tasks \subseteq TaskIds /\ todo \subseteq Peers
    /\ \A t \in DOMAIN tasks : tasks[t].st \in {"spawned", "sending", "answered", "ended", "failed"}
                               /\ tasks[t].ms \in KadMessenger
    /\ DOMAIN cache \subseteq Peers /\ \A p \in DOMAIN cache : cache[p] \in KadMessenger
    /\ lost \subseteq Peers /\ losses \in 0 .. MaxLost
    /\ stats \in [QueryStats -> Nat]

\* A query has at most alpha_value requests under way, and so has an
\* announcement; the checked_sub().unwrap() of the loop never panics.
RequestsBounded ==
    /\ phase = "iterating" => Cardinality(Running("query")) <= alpha_value
    /\ num_of_states(closest_peers, {"Waiting"}) <= alpha_value
    /\ Cardinality(Running("announce")) <= alpha_value

\* No peer is asked twice, however often the answers name it, and every request
\* is counted once as a success or as a failure, also those that outlive the query.
StatsAddUp ==
    LET QueryTasks == {t \in DOMAIN tasks : t[1] = "query"}
    IN  /\ stats["requests"] = Cardinality(QueryTasks)
        /\ stats["success"] + stats["failure"] = Cardinality({t \in QueryTasks : tasks[t].st = "ended"})

\* A stream carries the requests of one task at a time: a cached messenger is
\* nobody's, and no two tasks hold the same one.
ExclusiveStream ==
    LET Holding == {t \in DOMAIN tasks : tasks[t].st \in {"sending", "answered"}}
    IN  /\ \A t, u \in Holding : t # u => tasks[t].ms.stream # tasks[u].ms.stream
        /\ \A t \in Holding, p \in DOMAIN cache : cache[p].stream # tasks[t].ms.stream

\* The tasks that a query spawns are accounted for: at most alpha_value at a time, each peer
\* asked and counted once, each on a stream of its own, also after the query has ended.
TasksAccounted == RequestsBounded /\ StatsAddUp /\ ExclusiveStream

\* What a lookup returns, and where a record is announced: no peer that was
\* reported dead, no peer passed over for one that is farther, and the beta
\* closest ones have answered and were reported alive.
LookupConverges ==
    stats["iter_query_completed"] = 1 /\ op.type \in {"GetClosestPeers", "PutRecord", "AddProvider"}
    => LET found == query_results.closest_peers
       IN  /\ \A p \in found : <<"KadPeerStopped", p>> \notin posted
           /\ \A p \in found, q \in DOMAIN closest_peers \ found : q < p => <<"KadPeerStopped", q>> \in posted
           /\ \A p \in Take(beta_value, found) : <<"KadPeerFound", p>> \in posted


=============================================================================
