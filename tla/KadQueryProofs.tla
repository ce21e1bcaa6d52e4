-------------------------- MODULE KadQueryProofs --------------------------
(***************************************************************************)
(* What holds of KadQuery for every network, every operation and all       *)
(* values of alpha, beta and k: the tasks of a query are bounded, counted  *)
(* and each on its own stream, and a lookup returns the closest peers that *)
(* are alive.                                                              *)
(***************************************************************************)
EXTENDS KadQuery, FiniteSetTheorems, WellFoundedInduction, TLAPS

USE DEF queryVars, netVars

\* The states of a task; those in which it asks, and in which it has a stream.
TaskStates == {"spawned", "sending", "answered", "ended", "failed"}
Asking == {"spawned", "sending"}
Holds == {"sending", "answered"}
Task == [st : TaskStates, ms : KadMessenger]

Update == [kind : {"Queried", "Unreachable"}, source : Peers \cup {Self},
           closer : SUBSET (Peers \cup {Self}), provider : Seq(Peers \cup {Self}),
           record : BOOLEAN]

QueryTypes ==
    /\ op \in Operation
    /\ phase \in {"idle", "iterating", "announcing", "done"}
    /\ closest_peers \in [DOMAIN closest_peers -> PeerState]
    /\ DOMAIN closest_peers \subseteq Peers
    /\ rx \in Seq(Update)
    /\ stats \in [QueryStats -> Nat]
TaskTypes ==
    /\ tasks \in [DOMAIN tasks -> Task]
    /\ DOMAIN tasks \subseteq TaskIds
    /\ cache \in [DOMAIN cache -> KadMessenger]
    /\ DOMAIN cache \subseteq Peers
    /\ todo \subseteq Peers
ResultTypes ==
    /\ DOMAIN query_results = DOMAIN NoResult
    /\ query_results.cache_peers \subseteq Peers

TypeInv == QueryTypes /\ TaskTypes /\ ResultTypes

QueryTasks == {t \in DOMAIN tasks : t[1] = "query"}
AnnounceTasks == {t \in DOMAIN tasks : t[1] = "announce"}

\* How far an operation is.
PhaseInv ==
    /\ phase = "idle" => DOMAIN tasks = {} /\ rx = << >>
    /\ phase \in {"idle", "iterating"} =>
          todo = {} /\ AnnounceTasks = {} /\ stats["iter_query_completed"] = 0
    /\ \A p \in todo : <<"announce", p>> \notin DOMAIN tasks

\* A peer is asked when it is in closest_peers and was not asked before.
AskedInv ==
    \A t \in QueryTasks :
        t[2] \in DOMAIN closest_peers /\ closest_peers[t[2]] # "NotContacted"

\* A peer is Waiting from its request until its one update is handled.
UpdateInv ==
    phase = "iterating" =>
      /\ \A t \in Running("query") : closest_peers[t[2]] = "Waiting"
      /\ \A i \in DOMAIN rx : rx[i].source # Self =>
            /\ <<"query", rx[i].source>> \in DOMAIN tasks
            /\ tasks[<<"query", rx[i].source>>].st \in {"answered", "ended"}
            /\ closest_peers[rx[i].source] = "Waiting"
            /\ \A j \in DOMAIN rx : rx[j].source = rx[i].source => i = j

\* At most alpha_value peers are Waiting, and as many announced to.
BoundInv ==
    /\ num_of_states(closest_peers, {"Waiting"}) <= alpha_value
    /\ Cardinality(Running("announce")) <= alpha_value

\* A stream in use is that of a task that has begun, and of the right peer.
StreamInv ==
    /\ \A t \in DOMAIN tasks : tasks[t].st \in Holds =>
          /\ tasks[t].ms.stream \in DOMAIN tasks
          /\ tasks[tasks[t].ms.stream].st # "spawned"
          /\ tasks[t].ms.stream[2] = t[2]
    /\ \A p \in DOMAIN cache :
          /\ cache[p].stream \in DOMAIN tasks
          /\ tasks[cache[p].stream].st # "spawned"
          /\ cache[p].stream[2] = p

\* The main loop was told of a peer what the query knows of it.
PostedInv ==
    /\ \A p \in Peers : <<"KadPeerStopped", p>> \in posted <=>
          p \in DOMAIN closest_peers /\ closest_peers[p] = "Unreachable"
    /\ \A p \in DOMAIN closest_peers :
          closest_peers[p] = "Succeeded" => <<"KadPeerFound", p>> \in posted

\* What a lookup returned, and why it stopped.
Alive == InStates(closest_peers, {"NotContacted", "Waiting", "Succeeded"})
LookupInv ==
    /\ stats["iter_query_completed"] = 1
    /\ op.type \in {"GetClosestPeers", "PutRecord", "AddProvider"}
    => /\ query_results.closest_peers = Take(k_value, Alive)
       /\ \A p \in Take(beta_value, Alive) : closest_peers[p] = "Succeeded"

QueryInv ==
    /\ TypeInv /\ PhaseInv /\ AskedInv /\ UpdateInv /\ BoundInv /\ StatsAddUp
    /\ StreamInv /\ ExclusiveStream /\ PostedInv /\ LookupInv
-----------------------------------------------------------------------------
(* The first of a set of distances. *)

Below(S, d) == {x \in S : x < d}

LEMMA TakeIsBelow ==
    ASSUME NEW n, NEW S, NEW d
    PROVE  d \in Take(n, S) <=> d \in S /\ Cardinality(Below(S, d)) < n
  BY DEF Take, Below

LEMMA BelowFinite ==
    ASSUME NEW S, IsFiniteSet(S), NEW d
    PROVE  IsFiniteSet(Below(S, d)) /\ Cardinality(Below(S, d)) \in Nat
  <1>1. Below(S, d) \in SUBSET S
    BY DEF Below
  <1> QED
    BY <1>1, FS_Subset, FS_CardinalityType

\* The smaller of two elements has fewer elements below it.
LEMMA FewerBelow ==
    ASSUME NEW S, S \subseteq Nat, IsFiniteSet(S), NEW d \in S, NEW e \in S, e < d
    PROVE  Cardinality(Below(S, e)) < Cardinality(Below(S, d))
  <1>0. \A x \in S : (x < e => x < d) /\ ~(e < e)
    OBVIOUS
  <1>1. Below(S, e) \in SUBSET Below(S, d) /\ e \in Below(S, d) /\ e \notin Below(S, e)
    BY <1>0, Zenon DEF Below
  <1>2. /\ IsFiniteSet(Below(S, d)) /\ Cardinality(Below(S, d)) \in Nat
        /\ Cardinality(Below(S, e)) \in Nat
    BY BelowFinite
  <1>3. /\ Cardinality(Below(S, e)) <= Cardinality(Below(S, d))
        /\ Cardinality(Below(S, d)) = Cardinality(Below(S, e)) => Below(S, d) = Below(S, e)
    BY <1>1, <1>2, FS_Subset
  <1> QED
    BY <1>1, <1>2, <1>3

\* peers_in_states gives no more peers than it was asked for.
LEMMA TakeCount ==
    ASSUME NEW S, S \subseteq Nat, IsFiniteSet(S), NEW n \in Nat
    PROVE  IsFiniteSet(Take(n, S)) /\ Cardinality(Take(n, S)) <= n
  <1> DEFINE below == [d \in Take(n, S) |-> Cardinality(Below(S, d))]
  <1>1. below \in [Take(n, S) -> 0..(n - 1)]
    BY TakeIsBelow, BelowFinite
  <1>2. ASSUME NEW d \in Take(n, S), NEW e \in Take(n, S), below[d] = below[e]
        PROVE  d = e
    <2>1. d \in S /\ e \in S /\ Cardinality(Below(S, d)) = Cardinality(Below(S, e))
      BY <1>2, TakeIsBelow
    <2>2. Cardinality(Below(S, d)) \in Nat
      BY BelowFinite
    <2>3. CASE d < e
      <3>1. Cardinality(Below(S, d)) < Cardinality(Below(S, e))
        BY <2>1, <2>3, FewerBelow
      <3> QED
        BY <2>1, <2>2, <3>1
    <2>4. CASE e < d
      <3>1. Cardinality(Below(S, e)) < Cardinality(Below(S, d))
        BY <2>1, <2>4, FewerBelow
      <3> QED
        BY <2>1, <2>2, <3>1
    <2> QED
      BY <2>1, <2>3, <2>4
  <1> HIDE DEF below
  <1>3. below \in Injection(Take(n, S), 0..(n - 1))
    BY <1>1, <1>2 DEF Injection, IsInjective
  <1>4. IsFiniteSet(0..(n - 1)) /\ Cardinality(0..(n - 1)) = n
    BY FS_Interval
  <1> QED
    BY <1>3, <1>4, FS_Injection

\* They are the closest: nobody is passed over for one that is farther.
LEMMA TakeClosest ==
    ASSUME NEW S, S \subseteq Nat, IsFiniteSet(S), NEW n \in Nat,
           NEW d \in Take(n, S), NEW e \in S, e < d
    PROVE  e \in Take(n, S)
  <1>1. d \in S /\ Cardinality(Below(S, d)) < n
    BY TakeIsBelow
  <1>2. Cardinality(Below(S, e)) < Cardinality(Below(S, d))
    BY <1>1, FewerBelow
  <1>3. Cardinality(Below(S, e)) < n
    BY <1>1, <1>2, BelowFinite
  <1> QED
    BY <1>3, TakeIsBelow

\* The first of the first are the first.
LEMMA TakeOfTake ==
    ASSUME NEW S, S \subseteq Nat, IsFiniteSet(S), NEW m \in Nat, NEW n \in Nat,
           NEW d \in Take(m, Take(n, S))
    PROVE  d \in Take(m, S)
  <1>1. d \in Take(n, S) /\ Cardinality(Below(Take(n, S), d)) < m
    BY TakeIsBelow
  <1>2. Below(Take(n, S), d) = Below(S, d)
    <2>1. Take(n, S) \subseteq S
      BY TakeIsBelow
    <2>2. \A e \in S : e < d => e \in Take(n, S)
      BY <1>1, TakeClosest
    <2> QED
      BY <2>1, <2>2 DEF Below
  <1> QED
    BY <1>1, <1>2, TakeIsBelow

\* The announcements have a next peer as long as there is one left.
LEMMA MinIsMember ==
    ASSUME NEW S, S \subseteq Nat, S # {}
    PROVE  Min(S) \in S
  <1>1. \E x \in S : \A y \in S : ~(<<y, x>> \in OpToRel(<, Nat))
    BY NatLessThanWellFounded, WFMin
  <1>2. \E x \in S : \A y \in S : ~(y < x)
    BY <1>1 DEF OpToRel
  <1>3. \E x \in S : \A y \in S : x =< y
    BY <1>2
  <1> QED
    BY <1>3 DEF Min
-----------------------------------------------------------------------------
(* What an update does to closest_peers. *)

LEMMA FirstUpdate ==
    ASSUME QueryTypes, rx # << >>
    PROVE  /\ Head(rx) \in Update /\ Head(rx) = rx[1] /\ 1 \in DOMAIN rx
           /\ Tail(rx) \in Seq(Update)
           /\ DOMAIN rx \subseteq Nat /\ DOMAIN Tail(rx) \subseteq Nat \ {0}
           /\ \A i \in DOMAIN Tail(rx) : i + 1 \in DOMAIN rx /\ Tail(rx)[i] = rx[i + 1]
  BY DEF QueryTypes

\* The source of an update has a new state, who is new is not contacted, and
\* all others stay as they are.
LEMMA ClosestAfterIs ==
    ASSUME QueryTypes, NEW u \in Update, u.source # Self => u.source \in DOMAIN closest_peers
    PROVE  LET c == ClosestAfter(u) IN
           /\ c \in [DOMAIN c -> PeerState]
           /\ DOMAIN closest_peers \subseteq DOMAIN c /\ DOMAIN c \subseteq Peers
           /\ \A d \in DOMAIN closest_peers : d # u.source => c[d] = closest_peers[d]
           /\ \A d \in DOMAIN c \ DOMAIN closest_peers : c[d] = "NotContacted"
           /\ u.source # Self =>
                 c[u.source] = IF u.kind = "Queried" THEN "Succeeded" ELSE "Unreachable"
  <1> DEFINE c == ClosestAfter(u)
             more == add_peers(closest_peers, u.closer \ {Self})
  <1>1. Self \notin Peers
    BY QueryAssumption
  <1>2. /\ more \in [DOMAIN more -> PeerState]
        /\ DOMAIN more = DOMAIN closest_peers \cup (u.closer \ {Self})
        /\ DOMAIN more \subseteq Peers
        /\ \A d \in DOMAIN closest_peers : more[d] = closest_peers[d]
        /\ \A d \in DOMAIN more \ DOMAIN closest_peers : more[d] = "NotContacted"
    BY DEF add_peers, QueryTypes, Update, PeerState
  <1> HIDE DEF more
  <1>3. CASE u.kind = "Queried"
    <2>1. c = set_peer_state(more, u.source, "Succeeded")
      BY <1>3 DEF ClosestAfter, more
    <2>2. CASE u.source = Self
      <3>1. c = more
        BY <1>1, <1>2, <2>1, <2>2 DEF set_peer_state
      <3> QED
        BY <1>1, <1>2, <2>2, <3>1 DEF QueryTypes
    <2>3. CASE u.source # Self
      <3>1. c = [more EXCEPT ![u.source] = "Succeeded"]
        BY <1>2, <2>1, <2>3 DEF set_peer_state
      <3> HIDE DEF c
      <3>2. c \in [DOMAIN c -> PeerState] /\ DOMAIN c = DOMAIN more
        BY <1>2, <3>1 DEF PeerState
      <3> QED
        BY <1>2, <1>3, <2>3, <3>1, <3>2 DEF c
    <2> QED
      BY <2>2, <2>3
  <1>4. CASE u.kind # "Queried"
    <2>1. c = set_peer_state(closest_peers, u.source, "Unreachable")
      BY <1>4 DEF ClosestAfter
    <2>2. CASE u.source = Self
      <3>1. c = closest_peers
        BY <1>1, <2>1, <2>2 DEF set_peer_state, QueryTypes
      <3> QED
        BY <1>1, <2>2, <3>1 DEF QueryTypes
    <2>3. CASE u.source # Self
      <3>1. c = [closest_peers EXCEPT ![u.source] = "Unreachable"]
        BY <2>1, <2>3 DEF set_peer_state
      <3> HIDE DEF c
      <3>2. c \in [DOMAIN c -> PeerState] /\ DOMAIN c = DOMAIN closest_peers
        BY <3>1 DEF PeerState, QueryTypes
      <3> QED
        BY <1>4, <2>3, <3>1, <3>2 DEF c, QueryTypes
    <2> QED
      BY <2>2, <2>3
  <1> QED
    BY <1>3, <1>4

\* Sets of peers are finite sets of numbers.
LEMMA PeersFinite ==
    ASSUME NEW S, S \subseteq Peers
    PROVE  S \subseteq Nat /\ IsFiniteSet(S) /\ Cardinality(S) \in Nat
  BY QueryAssumption, InputAssumption, FS_Subset, FS_CardinalityType

LEMMA StatesAre ==
    ASSUME NEW c, NEW states, NEW d
    PROVE  d \in InStates(c, states) <=> d \in DOMAIN c /\ c[d] \in states
  BY DEF InStates

\* The result keeps its fields.
LEMMA ResultAfterIs ==
    ASSUME ResultTypes, NEW u \in Update, NEW c, DOMAIN c \subseteq Peers
    PROVE  /\ DOMAIN ResultAfter(u, c) = DOMAIN NoResult
           /\ ResultAfter(u, c).cache_peers \subseteq Peers
  <1>1. CachePeers(c, RecordsAfter(u)) \subseteq Peers
    BY DEF CachePeers, Take, InStates
  <1>2. DOMAIN query_results = {"closest_peers", "found_peer", "providers", "records",
                                "cache_peers"}
    BY DEF ResultTypes, NoResult
  <1> QED
    BY <1>1, <1>2 DEF ResultAfter, ResultTypes
-----------------------------------------------------------------------------
(* Counting. *)

EndedTasks == {t \in QueryTasks : tasks[t].st = "ended"}

LEMMA StatsAre ==
    StatsAddUp <=> /\ stats["requests"] = Cardinality(QueryTasks)
                   /\ stats["success"] + stats["failure"] = Cardinality(EndedTasks)
  BY DEF StatsAddUp, QueryTasks, EndedTasks

LEMMA BumpIs ==
    ASSUME stats \in [QueryStats -> Nat], NEW S
    PROVE  /\ Bump(S) \in [QueryStats -> Nat]
           /\ \A f \in QueryStats :
                 Bump(S)[f] = IF f \in S THEN stats[f] + 1 ELSE stats[f]
  BY DEF Bump

\* Sets of tasks are finite.
LEMMA TasksFinite ==
    ASSUME NEW S, S \subseteq TaskIds
    PROVE  IsFiniteSet(S) /\ Cardinality(S) \in Nat
  <1>1. IsFiniteSet({"query", "announce"})
    <2>1. {"query", "announce"} = {"query"} \cup {"announce"}
      OBVIOUS
    <2>2. IsFiniteSet({"query"})
      BY FS_Singleton
    <2>3. IsFiniteSet({"query"} \cup {"announce"})
      BY <2>2, FS_AddElement
    <2> QED
      BY <2>1, <2>3
  <1>2. IsFiniteSet(TaskIds)
    BY <1>1, InputAssumption, FS_Product DEF TaskIds
  <1> QED
    BY <1>2, FS_Subset, FS_CardinalityType

LEMMA FewerTasks ==
    ASSUME NEW S, NEW T, T \subseteq TaskIds, S \subseteq T
    PROVE  Cardinality(S) <= Cardinality(T)
  BY TasksFinite, FS_Subset

LEMMA OneMoreTask ==
    ASSUME NEW S, S \subseteq TaskIds, NEW t, t \notin S
    PROVE  Cardinality(S \cup {t}) = Cardinality(S) + 1
  BY TasksFinite, FS_AddElement

\* A step that moves no query task keeps the counts.
LEMMA StatsKept ==
    ASSUME StatsAddUp, \A f \in IterativeStats : stats'[f] = stats[f],
           QueryTasks' = QueryTasks, EndedTasks' = EndedTasks
    PROVE  StatsAddUp'
  BY StatsAre DEF StatsAddUp, QueryTasks, EndedTasks, IterativeStats
-----------------------------------------------------------------------------
(* Starting an operation, and its deadline. *)

LEMMA StartIs ==
    ASSUME Start
    PROVE  \/ phase' = "done" /\ UNCHANGED <<query_results, rx, stats>>
           \/ /\ phase' = "iterating"
              /\ rx' = <<Queried(Self, op.seeds, << >>, FALSE)>>
              /\ stats' = Bump({"iter_query_executed"})
              /\ DOMAIN query_results' = DOMAIN NoResult
              /\ query_results'.cache_peers = {}
  <1>1. \/ phase' = "done" /\ UNCHANGED <<query_results, rx, stats>>
        \/ run
    BY DEF Start, find_providers, get_record, find_peer, get_closest_peers, LocalAnswer
  <1> QED
    BY <1>1 DEF run, NoResult

LEMMA QueryStart ==
    ASSUME QueryInv, Start
    PROVE  QueryInv'
  <1> DEFINE u == Queried(Self, op.seeds, << >>, FALSE)
  <1>1. phase = "idle" /\ UNCHANGED <<op, closest_peers, posted, tasks, todo, netVars>>
    BY DEF Start
  <1>2. \/ phase' = "done" /\ UNCHANGED <<query_results, rx, stats>>
        \/ /\ phase' = "iterating" /\ rx' = <<u>>
           /\ stats' = Bump({"iter_query_executed"})
           /\ DOMAIN query_results' = DOMAIN NoResult
           /\ query_results'.cache_peers = {}
    BY StartIs
  <1>3. u \in Update /\ u.source = Self
    BY DEF Queried, Update, QueryInv, TypeInv, QueryTypes, Operation
  <1> HIDE DEF u
  <1>4. /\ stats' \in [QueryStats -> Nat]
        /\ \A f \in IterativeStats : stats'[f] = stats[f]
        /\ stats'["iter_query_completed"] = stats["iter_query_completed"]
    <2>1. CASE UNCHANGED stats
      BY <2>1 DEF QueryInv, TypeInv, QueryTypes
    <2>2. CASE stats' = Bump({"iter_query_executed"})
      BY <2>2, BumpIs DEF QueryInv, TypeInv, QueryTypes, QueryStats, IterativeStats
    <2> QED
      BY <1>2, <2>1, <2>2
  <1>5. TypeInv'
    <2>1. phase' \in {"iterating", "done"} /\ rx' \in Seq(Update) /\ ResultTypes'
      <3>1. <<u>> \in Seq(Update)
        BY <1>3
      <3> QED
        BY <1>2, <3>1 DEF QueryInv, TypeInv, QueryTypes, ResultTypes
    <2> QED
      BY <1>1, <1>4, <2>1 DEF QueryInv, TypeInv, QueryTypes, TaskTypes
  <1>6. DOMAIN tasks = {} /\ todo = {} /\ stats["iter_query_completed"] = 0
    BY <1>1 DEF QueryInv, PhaseInv
  <1>7. PhaseInv'
    BY <1>1, <1>2, <1>4, <1>6 DEF PhaseInv, AnnounceTasks
  <1>8. UpdateInv'
    <2>1. DOMAIN <<u>> = {1} /\ <<u>>[1] = u
      OBVIOUS
    <2> QED
      BY <1>1, <1>2, <1>3, <1>6, <2>1 DEF UpdateInv, Running
  <1>9. StatsAddUp'
    BY <1>1, <1>4, StatsKept DEF QueryInv, QueryTasks, EndedTasks
  <1>10. LookupInv'
    BY <1>4, <1>6 DEF LookupInv
  <1>11. AskedInv' /\ BoundInv' /\ StreamInv' /\ ExclusiveStream' /\ PostedInv'
    BY <1>1 DEF QueryInv, AskedInv, QueryTasks, BoundInv, Running, StreamInv,
                ExclusiveStream, PostedInv
  <1> QED
    BY <1>5, <1>7, <1>8, <1>9, <1>10, <1>11 DEF QueryInv

LEMMA QueryDeadline ==
    ASSUME QueryInv, Deadline
    PROVE  QueryInv'
  <1>1. /\ phase = "iterating" /\ phase' = "done" /\ rx' = << >>
        /\ stats' = Bump({"iter_query_timeout"})
        /\ UNCHANGED <<op, closest_peers, query_results, posted, tasks, todo, netVars>>
    BY DEF Deadline
  <1>2. /\ stats' \in [QueryStats -> Nat]
        /\ \A f \in IterativeStats : stats'[f] = stats[f]
        /\ stats'["iter_query_completed"] = stats["iter_query_completed"]
    BY <1>1, BumpIs DEF QueryInv, TypeInv, QueryTypes, QueryStats, IterativeStats
  <1>3. TypeInv'
    BY <1>1, <1>2 DEF QueryInv, TypeInv, QueryTypes, TaskTypes, ResultTypes
  <1>4. PhaseInv' /\ UpdateInv'
    BY <1>1 DEF QueryInv, PhaseInv, UpdateInv
  <1>5. StatsAddUp'
    BY <1>1, <1>2, StatsKept DEF QueryInv, QueryTasks, EndedTasks
  <1>6. LookupInv'
    BY <1>1, <1>2 DEF QueryInv, LookupInv, PhaseInv
  <1>7. AskedInv' /\ BoundInv' /\ StreamInv' /\ ExclusiveStream' /\ PostedInv'
    BY <1>1 DEF QueryInv, AskedInv, QueryTasks, BoundInv, Running, StreamInv,
                ExclusiveStream, PostedInv
  <1> QED
    BY <1>3, <1>4, <1>5, <1>6, <1>7 DEF QueryInv
-----------------------------------------------------------------------------
(* The steps of the tasks. *)

\* Task t goes on to another state; no other task moves.
Moves(t, old, new) ==
    /\ t \in DOMAIN tasks /\ tasks[t].st \in old
    /\ DOMAIN tasks' = DOMAIN tasks
    /\ \A x \in DOMAIN tasks \ {t} : tasks'[x] = tasks[x]
    /\ tasks'[t].st = new

LEMMA GotoMoves ==
    ASSUME TaskTypes, NEW t \in DOMAIN tasks, NEW s \in TaskStates, Goto(t, s)
    PROVE  /\ tasks' \in [DOMAIN tasks' -> Task]
           /\ Moves(t, {tasks[t].st}, s)
           /\ \A x \in DOMAIN tasks : tasks'[x].ms = tasks[x].ms
  <1>1. \A x \in DOMAIN tasks : tasks[x] \in Task
    BY DEF TaskTypes
  <1> QED
    BY <1>1 DEF Goto, Moves, TaskTypes, Task

\* The fixed query and the counts of a query only see which tasks run and end.
LEMMA MovesBound ==
    ASSUME TaskTypes, NEW t, NEW old, NEW new, Moves(t, old, new),
           UNCHANGED closest_peers, BoundInv, t[1] = "query" \/ new \notin Asking
    PROVE  BoundInv'
  <1>1. Running("announce")' \subseteq Running("announce")
    BY DEF Running, Moves, Asking
  <1>2. Running("announce") \subseteq TaskIds /\ Running("announce")' \subseteq TaskIds
    BY <1>1 DEF TaskTypes, Running
  <1>3. Cardinality(Running("announce")') <= Cardinality(Running("announce"))
    BY <1>1, <1>2, FewerTasks
  <1>4. /\ Cardinality(Running("announce")') \in Nat
        /\ Cardinality(Running("announce")) \in Nat /\ alpha_value \in Nat
    BY <1>2, TasksFinite, QueryAssumption DEF NonZero
  <1> QED
    BY <1>3, <1>4 DEF BoundInv

LEMMA MovesAsked ==
    ASSUME NEW t, NEW old, NEW new, Moves(t, old, new), UNCHANGED <<closest_peers, todo, phase>>,
           stats'["iter_query_completed"] = stats["iter_query_completed"],
           phase = "idle" => UNCHANGED rx,
           AskedInv, PhaseInv
    PROVE  AskedInv' /\ PhaseInv'
  BY DEF Moves, AskedInv, PhaseInv, QueryTasks, AnnounceTasks

\* A query task ends and is counted, once.
LEMMA MovesCounted ==
    ASSUME TypeInv, StatsAddUp, NEW t, NEW old, Moves(t, old, "ended"), t[1] = "query",
           "ended" \notin old, NEW f \in {"success", "failure"}, stats' = Bump({f})
    PROVE  /\ StatsAddUp' /\ stats' \in [QueryStats -> Nat]
           /\ stats'["iter_query_completed"] = stats["iter_query_completed"]
  <1>1. QueryTasks' = QueryTasks /\ EndedTasks' = EndedTasks \cup {t} /\ t \notin EndedTasks
    BY DEF Moves, QueryTasks, EndedTasks
  <1>2. EndedTasks \subseteq TaskIds
    BY DEF TypeInv, TaskTypes, EndedTasks, QueryTasks
  <1>3. Cardinality(EndedTasks') = Cardinality(EndedTasks) + 1
    BY <1>1, <1>2, OneMoreTask
  <1>4. stats \in [QueryStats -> Nat]
    BY DEF TypeInv, QueryTypes
  <1>5. /\ stats' \in [QueryStats -> Nat]
        /\ stats'["requests"] = stats["requests"]
        /\ stats'["iter_query_completed"] = stats["iter_query_completed"]
        /\ stats'["success"] + stats'["failure"] = stats["success"] + stats["failure"] + 1
    BY <1>4, BumpIs DEF QueryStats, IterativeStats
  <1>6. /\ stats["requests"] = Cardinality(QueryTasks)
        /\ stats["success"] + stats["failure"] = Cardinality(EndedTasks)
    BY StatsAre
  <1> QED
    BY <1>1, <1>3, <1>5, <1>6 DEF StatsAddUp, QueryTasks, EndedTasks

\* The messenger of a task that ends may go to the cache.
LEMMA PutTypes ==
    ASSUME TaskTypes, NEW p \in Peers, NEW ms \in KadMessenger,
           cache' = put_messenger(cache, p, ms)
    PROVE  /\ cache' \in [DOMAIN cache' -> KadMessenger] /\ DOMAIN cache' \subseteq Peers
           /\ DOMAIN cache \subseteq DOMAIN cache'
           /\ \A q \in DOMAIN cache : cache'[q] = cache[q]
           /\ \A q \in DOMAIN cache' \ DOMAIN cache : q = p /\ cache'[q].stream = ms.stream
  <1>1. CASE ~(ms.reuse + 1 < max_reuse_count /\ p \notin DOMAIN cache)
    BY <1>1 DEF put_messenger, TaskTypes
  <1>2. CASE ms.reuse + 1 < max_reuse_count /\ p \notin DOMAIN cache
    <2> DEFINE new == [ms EXCEPT !.reuse = @ + 1]
    <2>1. new \in KadMessenger /\ new.stream = ms.stream
      BY <1>2, QueryAssumption DEF KadMessenger
    <2>2. cache' = [q \in DOMAIN cache \cup {p} |-> IF q = p THEN new ELSE cache[q]]
      BY <1>2 DEF put_messenger
    <2> HIDE DEF new
    <2> QED
      BY <1>2, <2>1, <2>2 DEF TaskTypes
  <1> QED
    BY <1>1, <1>2

\* A task lets go of its stream, which nobody else has; it may be cached then.
LEMMA StreamReleased ==
    ASSUME TypeInv, StreamInv, ExclusiveStream, NEW t, NEW new \in {"ended", "failed"},
           Moves(t, TaskStates, new),
           \A x \in DOMAIN tasks : tasks'[x].ms = tasks[x].ms,
           DOMAIN cache \subseteq DOMAIN cache',
           \A q \in DOMAIN cache : cache'[q] = cache[q],
           \A q \in DOMAIN cache' \ DOMAIN cache :
              /\ tasks[t].st \in Holds
              /\ q = t[2] /\ cache'[q].stream = tasks[t].ms.stream
    PROVE  StreamInv' /\ ExclusiveStream'
  <1>1. \A x \in DOMAIN tasks : tasks'[x].st \in Holds => tasks[x].st \in Holds /\ x # t
    BY DEF Moves, Holds
  <1>2. \A x \in DOMAIN tasks : tasks[x].st # "spawned" => tasks'[x].st # "spawned"
    BY DEF Moves
  <1>3. StreamInv'
    BY <1>1, <1>2 DEF StreamInv, Moves
  <1>4. ExclusiveStream'
    BY <1>1 DEF ExclusiveStream, Moves, Holds
  <1> QED
    BY <1>3, <1>4

\* No update comes of the step.
LEMMA UpdatesKept ==
    ASSUME UpdateInv, NEW t, NEW old, NEW new, Moves(t, old, new),
           UNCHANGED <<phase, closest_peers, rx>>,
           t[1] = "query" => \/ old \subseteq Asking /\ new \in Asking
                             \/ old = {"answered"} /\ new = "ended"
    PROVE  UpdateInv'
  <1> SUFFICES ASSUME phase = "iterating" PROVE UpdateInv'
    BY DEF UpdateInv
  <1>1. Running("query")' \subseteq Running("query")
    BY DEF Running, Moves, Asking
  <1>2. \A p : <<"query", p>>[1] = "query"
    OBVIOUS
  <1>3. \A p : /\ <<"query", p>> \in DOMAIN tasks
               /\ tasks[<<"query", p>>].st \in {"answered", "ended"}
               => tasks'[<<"query", p>>].st \in {"answered", "ended"}
    BY <1>2 DEF Moves, Asking
  <1> QED
    BY <1>1, <1>3 DEF UpdateInv, Moves

\* The one update of a job.
LEMMA UpdateDelivered ==
    ASSUME TypeInv, UpdateInv, NEW p \in Peers, NEW new \in {"answered", "ended"},
           Moves(<<"query", p>>, Asking, new), NEW u \in Update, u.source = p, Deliver(u),
           UNCHANGED <<phase, closest_peers>>
    PROVE  UpdateInv' /\ rx' \in Seq(Update) /\ (phase = "idle" => UNCHANGED rx)
  <1> DEFINE t == <<"query", p>>
  <1>1. rx' \in Seq(Update) /\ (phase # "iterating" => UNCHANGED rx)
    BY DEF Deliver, TypeInv, QueryTypes
  <1> SUFFICES ASSUME phase = "iterating" PROVE UpdateInv'
    BY <1>1 DEF UpdateInv
  <1>2. /\ t \in DOMAIN tasks /\ tasks[t].st \in Asking /\ DOMAIN tasks' = DOMAIN tasks
        /\ \A x \in DOMAIN tasks \ {t} : tasks'[x] = tasks[x]
        /\ tasks'[t].st = new /\ t \in Running("query") /\ t[2] = p
    BY DEF Moves, Running, Asking
  <1>3. closest_peers[p] = "Waiting"
    BY <1>2 DEF UpdateInv
  <1>4. p # Self /\ \A i \in DOMAIN rx : rx[i].source # p
    BY <1>2, QueryAssumption DEF UpdateInv, Asking
  <1>5. Running("query")' \subseteq Running("query")
    BY <1>2 DEF Running
  <1>6. PICK n : /\ DOMAIN rx' = DOMAIN rx \cup {n} /\ n \notin DOMAIN rx
                 /\ \A i \in DOMAIN rx : rx'[i] = rx[i]
                 /\ rx'[n] = u
    <2>1. rx' = Append(rx, u) /\ rx \in Seq(Update)
      BY DEF Deliver, TypeInv, QueryTypes
    <2>2. /\ DOMAIN rx' = DOMAIN rx \cup {Len(rx) + 1} /\ Len(rx) + 1 \notin DOMAIN rx
          /\ \A i \in DOMAIN rx : rx'[i] = rx[i]
          /\ rx'[Len(rx) + 1] = u
      BY <2>1
    <2> QED
      BY <2>2
  <1>7. \A x \in Running("query")' : closest_peers[x[2]] = "Waiting"
    BY <1>5 DEF UpdateInv
  <1>8. \A q : q # p => <<"query", q>> # t
    OBVIOUS
  <1> HIDE DEF t
  <1>9. ASSUME NEW i \in DOMAIN rx', rx'[i].source # Self
        PROVE  /\ <<"query", rx'[i].source>> \in DOMAIN tasks'
               /\ tasks'[<<"query", rx'[i].source>>].st \in {"answered", "ended"}
               /\ closest_peers[rx'[i].source] = "Waiting"
               /\ \A j \in DOMAIN rx' : rx'[j].source = rx'[i].source => i = j
    <2>1. CASE i = n
      BY <1>2, <1>3, <1>4, <1>6, <2>1 DEF t
    <2>2. CASE i \in DOMAIN rx
      <3>1. rx'[i].source = rx[i].source /\ rx[i].source # p
        BY <1>4, <1>6, <2>2
      <3>2. <<"query", rx[i].source>> # t
        BY <1>8, <3>1
      <3> QED
        BY <1>2, <1>6, <1>9, <2>2, <3>1, <3>2 DEF UpdateInv
    <2> QED
      BY <1>6, <2>1, <2>2
  <1> QED
    BY <1>7, <1>9 DEF UpdateInv

LEMMA QueryJobEnds ==
    ASSUME QueryInv, NEW p \in Peers, JobEnds(p)
    PROVE  QueryInv'
  <1> DEFINE t == <<"query", p>>
  <1>0. t[1] = "query" /\ t[2] = p
    OBVIOUS
  <1>1. /\ t \in DOMAIN tasks /\ tasks[t].st = "answered"
        /\ cache' = put_messenger(cache, p, tasks[t].ms)
        /\ Goto(t, "ended") /\ stats' = Bump({"success"})
        /\ UNCHANGED <<queryVars, todo, lost, losses>>
    BY DEF JobEnds
  <1> HIDE DEF t
  <1>2. TaskTypes /\ tasks[t].ms \in KadMessenger
    BY <1>1 DEF QueryInv, TypeInv, TaskTypes, Task
  <1>3. /\ tasks' \in [DOMAIN tasks' -> Task] /\ Moves(t, {"answered"}, "ended")
        /\ \A x \in DOMAIN tasks : tasks'[x].ms = tasks[x].ms
    BY <1>1, <1>2, GotoMoves DEF TaskStates
  <1>4. /\ cache' \in [DOMAIN cache' -> KadMessenger] /\ DOMAIN cache' \subseteq Peers
        /\ DOMAIN cache \subseteq DOMAIN cache'
        /\ \A q \in DOMAIN cache : cache'[q] = cache[q]
        /\ \A q \in DOMAIN cache' \ DOMAIN cache :
              q = p /\ cache'[q].stream = tasks[t].ms.stream
    BY <1>1, <1>2, PutTypes
  <1>5. /\ StatsAddUp' /\ stats' \in [QueryStats -> Nat]
        /\ stats'["iter_query_completed"] = stats["iter_query_completed"]
    BY <1>0, <1>1, <1>3, MovesCounted DEF QueryInv
  <1>6. TypeInv'
    BY <1>1, <1>3, <1>4, <1>5
    DEF QueryInv, TypeInv, QueryTypes, TaskTypes, ResultTypes, Moves
  <1>7. BoundInv'
    BY <1>0, <1>1, <1>2, <1>3, MovesBound DEF QueryInv
  <1>8. AskedInv' /\ PhaseInv'
    BY <1>1, <1>3, <1>5, MovesAsked DEF QueryInv
  <1>9. UpdateInv'
    BY <1>1, <1>3, UpdatesKept DEF QueryInv
  <1>10. StreamInv' /\ ExclusiveStream'
    <2>1. Moves(t, TaskStates, "ended") /\ tasks[t].st \in Holds
      BY <1>1, <1>3 DEF Moves, TaskStates, Holds
    <2> QED
      BY <1>0, <1>3, <1>4, <2>1, StreamReleased DEF QueryInv
  <1>11. PostedInv' /\ LookupInv'
    BY <1>1, <1>5 DEF QueryInv, PostedInv, LookupInv, Alive
  <1> QED
    BY <1>5, <1>6, <1>7, <1>8, <1>9, <1>10, <1>11 DEF QueryInv

LEMMA QueryJobFails ==
    ASSUME QueryInv, NEW p \in Peers, JobFails(p)
    PROVE  QueryInv'
  <1> DEFINE t == <<"query", p>>
  <1>0. t[1] = "query" /\ t[2] = p
    OBVIOUS
  <1>1. /\ t \in DOMAIN tasks /\ tasks[t].st \in Asking
        /\ Deliver(Unreachable(p)) /\ Goto(t, "ended") /\ stats' = Bump({"failure"})
        /\ UNCHANGED <<op, phase, closest_peers, query_results, posted, reply, todo, netVars>>
    BY DEF JobFails, Asking
  <1>2. TaskTypes
    BY DEF QueryInv, TypeInv
  <1>3. /\ tasks' \in [DOMAIN tasks' -> Task]
        /\ \A x \in DOMAIN tasks : tasks'[x].ms = tasks[x].ms
        /\ Moves(t, Asking, "ended") /\ Moves(t, TaskStates, "ended")
    <2>1. /\ tasks' \in [DOMAIN tasks' -> Task]
          /\ \A x \in DOMAIN tasks : tasks'[x].ms = tasks[x].ms
          /\ Moves(t, {tasks[t].st}, "ended")
      BY <1>1, <1>2, GotoMoves DEF TaskStates
    <2> QED
      BY <1>1, <2>1 DEF Moves, Asking, TaskStates
  <1>4. UpdateInv' /\ rx' \in Seq(Update) /\ (phase = "idle" => UNCHANGED rx)
    <2>1. Unreachable(p) \in Update /\ Unreachable(p).source = p
      BY DEF Unreachable, Update
    <2> HIDE DEF Unreachable
    <2> QED
      BY <1>1, <1>3, <2>1, UpdateDelivered DEF QueryInv, t
  <1> HIDE DEF t
  <1>5. /\ StatsAddUp' /\ stats' \in [QueryStats -> Nat]
        /\ stats'["iter_query_completed"] = stats["iter_query_completed"]
    BY <1>0, <1>1, <1>3, MovesCounted DEF QueryInv, Asking
  <1>6. TypeInv'
    BY <1>1, <1>3, <1>4, <1>5
    DEF QueryInv, TypeInv, QueryTypes, TaskTypes, ResultTypes, Moves
  <1>7. BoundInv'
    BY <1>0, <1>1, <1>2, <1>3, MovesBound DEF QueryInv
  <1>8. AskedInv' /\ PhaseInv'
    BY <1>1, <1>3, <1>4, <1>5, MovesAsked DEF QueryInv
  <1>9. StreamInv' /\ ExclusiveStream'
    BY <1>1, <1>3, StreamReleased DEF QueryInv
  <1>10. PostedInv' /\ LookupInv'
    BY <1>1, <1>5 DEF QueryInv, PostedInv, LookupInv, Alive
  <1> QED
    BY <1>4, <1>5, <1>6, <1>7, <1>8, <1>9, <1>10 DEF QueryInv

LEMMA QueryJobAnswered ==
    ASSUME QueryInv, NEW p \in Peers, NEW closer \in Closer, NEW provider \in Listed,
           NEW has \in BOOLEAN, JobAnswered(p, closer, provider, has)
    PROVE  QueryInv'
  <1> DEFINE t == <<"query", p>>
  <1>0. t[1] = "query" /\ t[2] = p
    OBVIOUS
  <1>1. /\ t \in DOMAIN tasks /\ tasks[t].st = "sending"
        /\ Deliver(Queried(p, closer, provider, has)) /\ Goto(t, "answered")
        /\ UNCHANGED <<op, phase, closest_peers, query_results, posted, reply, todo,
                       netVars, stats>>
    BY DEF JobAnswered
  <1>2. TaskTypes
    BY DEF QueryInv, TypeInv
  <1>3. /\ tasks' \in [DOMAIN tasks' -> Task]
        /\ \A x \in DOMAIN tasks : tasks'[x].ms = tasks[x].ms
        /\ Moves(t, Asking, "answered")
    <2>1. /\ tasks' \in [DOMAIN tasks' -> Task]
          /\ \A x \in DOMAIN tasks : tasks'[x].ms = tasks[x].ms
          /\ Moves(t, {tasks[t].st}, "answered")
      BY <1>1, <1>2, GotoMoves DEF TaskStates
    <2> QED
      BY <1>1, <2>1 DEF Moves, Asking
  <1>4. UpdateInv' /\ rx' \in Seq(Update) /\ (phase = "idle" => UNCHANGED rx)
    <2> DEFINE u == Queried(p, closer, provider, has)
    <2>1. u \in Update /\ u.source = p
      BY InputAssumption DEF Queried, Update
    <2>2. Deliver(u)
      BY <1>1
    <2> HIDE DEF u
    <2> QED
      BY <1>1, <1>3, <2>1, <2>2, UpdateDelivered DEF QueryInv, t
  <1> HIDE DEF t
  <1>5. StatsAddUp'
    <2>1. QueryTasks' = QueryTasks /\ EndedTasks' = EndedTasks
      BY <1>1, <1>3 DEF Moves, QueryTasks, EndedTasks, Asking
    <2> QED
      BY <1>1, <2>1, StatsKept DEF QueryInv
  <1>6. TypeInv'
    BY <1>1, <1>3, <1>4
    DEF QueryInv, TypeInv, QueryTypes, TaskTypes, ResultTypes, Moves
  <1>7. BoundInv'
    BY <1>0, <1>1, <1>2, <1>3, MovesBound DEF QueryInv
  <1>8. AskedInv' /\ PhaseInv'
    BY <1>1, <1>3, <1>4, MovesAsked DEF QueryInv
  <1>9. StreamInv' /\ ExclusiveStream'
    <2>1. \A x \in DOMAIN tasks : /\ tasks'[x].st \in Holds <=> tasks[x].st \in Holds
                                  /\ tasks'[x].st = "spawned" => tasks[x].st = "spawned"
      BY <1>1, <1>3 DEF Moves, Holds
    <2>2. UNCHANGED cache /\ DOMAIN tasks' = DOMAIN tasks
      BY <1>1, <1>3 DEF Moves
    <2>3. StreamInv'
      BY <1>3, <2>1, <2>2 DEF QueryInv, StreamInv
    <2>4. ExclusiveStream'
      BY <1>3, <2>1, <2>2 DEF QueryInv, ExclusiveStream, Holds
    <2> QED
      BY <2>3, <2>4
  <1>10. PostedInv' /\ LookupInv'
    BY <1>1 DEF QueryInv, PostedInv, LookupInv, Alive
  <1> QED
    BY <1>4, <1>5, <1>6, <1>7, <1>8, <1>9, <1>10 DEF QueryInv

LEMMA QueryAnnounceEnds ==
    ASSUME QueryInv, NEW p \in Peers, AnnounceSent(p) \/ AnnounceFails(p)
    PROVE  QueryInv'
  <1> DEFINE t == <<"announce", p>>
  <1>0. t[1] = "announce" /\ t[2] = p
    OBVIOUS
  <1>1. /\ t \in DOMAIN tasks /\ tasks[t].st \in Asking
        /\ Goto(t, "ended") \/ Goto(t, "failed")
        /\ \/ UNCHANGED cache
           \/ cache' = put_messenger(cache, p, tasks[t].ms) /\ tasks[t].st \in Holds
        /\ UNCHANGED <<queryVars, todo, stats>>
    BY DEF AnnounceSent, AnnounceFails, Asking, Holds
  <1> HIDE DEF t
  <1>2. TaskTypes /\ tasks[t].ms \in KadMessenger
    BY <1>1 DEF QueryInv, TypeInv, TaskTypes, Task
  <1>3. PICK new \in {"ended", "failed"} :
           /\ tasks' \in [DOMAIN tasks' -> Task]
           /\ \A x \in DOMAIN tasks : tasks'[x].ms = tasks[x].ms
           /\ Moves(t, TaskStates, new)
    <2>1. ASSUME NEW new \in {"ended", "failed"}, Goto(t, new)
          PROVE  /\ tasks' \in [DOMAIN tasks' -> Task]
                 /\ \A x \in DOMAIN tasks : tasks'[x].ms = tasks[x].ms
                 /\ Moves(t, TaskStates, new)
      <3>1. /\ tasks' \in [DOMAIN tasks' -> Task]
            /\ \A x \in DOMAIN tasks : tasks'[x].ms = tasks[x].ms
            /\ Moves(t, {tasks[t].st}, new)
        BY <1>1, <1>2, <2>1, GotoMoves DEF TaskStates
      <3> QED
        BY <1>1, <3>1 DEF Moves, Asking, TaskStates
    <2> QED
      BY <1>1, <2>1
  <1>4. /\ cache' \in [DOMAIN cache' -> KadMessenger] /\ DOMAIN cache' \subseteq Peers
        /\ DOMAIN cache \subseteq DOMAIN cache'
        /\ \A q \in DOMAIN cache : cache'[q] = cache[q]
        /\ \A q \in DOMAIN cache' \ DOMAIN cache :
              /\ tasks[t].st \in Holds
              /\ q = t[2] /\ cache'[q].stream = tasks[t].ms.stream
    <2>1. CASE UNCHANGED cache
      BY <1>2, <2>1 DEF TaskTypes
    <2>2. CASE cache' = put_messenger(cache, p, tasks[t].ms) /\ tasks[t].st \in Holds
      BY <1>0, <1>2, <2>2, PutTypes
    <2> QED
      BY <1>1, <2>1, <2>2
  <1>5. StatsAddUp'
    <2>1. QueryTasks' = QueryTasks /\ EndedTasks' = EndedTasks
      BY <1>0, <1>3 DEF Moves, QueryTasks, EndedTasks
    <2> QED
      BY <1>1, <2>1, StatsKept DEF QueryInv
  <1>6. TypeInv'
    BY <1>1, <1>3, <1>4
    DEF QueryInv, TypeInv, QueryTypes, TaskTypes, ResultTypes, Moves
  <1>7. BoundInv'
    BY <1>1, <1>2, <1>3, MovesBound DEF QueryInv, Asking
  <1>8. AskedInv' /\ PhaseInv'
    BY <1>1, <1>3, MovesAsked DEF QueryInv
  <1>9. UpdateInv'
    BY <1>0, <1>1, <1>3, UpdatesKept DEF QueryInv
  <1>10. StreamInv' /\ ExclusiveStream'
    BY <1>3, <1>4, StreamReleased DEF QueryInv
  <1>11. PostedInv' /\ LookupInv'
    BY <1>1 DEF QueryInv, PostedInv, LookupInv, Alive
  <1> QED
    BY <1>5, <1>6, <1>7, <1>8, <1>9, <1>10, <1>11 DEF QueryInv

\* A task takes the messenger of the cache, or opens a stream of its own.
LEMMA QueryTaskConnects ==
    ASSUME QueryInv, NEW p \in Peers, NEW k \in {"query", "announce"},
           TaskConnects(<<k, p>>)
    PROVE  QueryInv'
  <1> DEFINE t == <<k, p>>  g == get_messenger(cache, t)
  <1>0. t[1] = k /\ t[2] = p /\ t \in TaskIds
    BY DEF TaskIds
  <1>1. /\ t \in DOMAIN tasks /\ tasks[t].st = "spawned"
        /\ tasks' = [tasks EXCEPT ![t] = [st |-> "sending", ms |-> g.ms]]
        /\ cache' = g.cache
        /\ UNCHANGED <<queryVars, todo, lost, losses, stats>>
    BY DEF TaskConnects
  <1>2. TypeInv /\ StreamInv /\ ExclusiveStream
    BY DEF QueryInv
  <1>3. \/ p \in DOMAIN cache /\ g.ms = cache[p] /\ g.cache = Without(cache, p)
        \/ p \notin DOMAIN cache /\ g.ms = build(t) /\ g.cache = cache
    BY <1>0 DEF get_messenger
  <1>4. build(t) \in KadMessenger /\ build(t).stream = t
    BY <1>0, QueryAssumption DEF build, KadMessenger
  <1> HIDE DEF t, g, build
  <1>5. /\ g.ms \in KadMessenger
        /\ cache' \in [DOMAIN cache' -> KadMessenger] /\ DOMAIN cache' \subseteq DOMAIN cache
        /\ \A q \in DOMAIN cache' : cache'[q] = cache[q]
        /\ p \notin DOMAIN cache'
    BY <1>1, <1>2, <1>3, <1>4 DEF TypeInv, TaskTypes, Without
  <1>6. /\ tasks' \in [DOMAIN tasks' -> Task]
        /\ Moves(t, {"spawned"}, "sending") /\ tasks'[t].ms = g.ms
    BY <1>1, <1>2, <1>5 DEF TypeInv, TaskTypes, Task, TaskStates, Moves
  <1>7. TypeInv'
    BY <1>1, <1>2, <1>5, <1>6
    DEF TypeInv, QueryTypes, TaskTypes, ResultTypes, Moves
  <1>8. AskedInv' /\ PhaseInv'
    BY <1>1, <1>6, MovesAsked DEF QueryInv
  <1>9. UpdateInv'
    BY <1>1, <1>6, UpdatesKept DEF QueryInv, Asking
  <1>10. StatsAddUp'
    <2>1. QueryTasks' = QueryTasks /\ EndedTasks' = EndedTasks
      BY <1>6 DEF Moves, QueryTasks, EndedTasks
    <2> QED
      BY <1>1, <2>1, StatsKept DEF QueryInv
  <1>11. BoundInv'
    <2>1. Running("announce")' = Running("announce")
      BY <1>6 DEF Running, Moves
    <2> QED
      BY <1>1, <2>1 DEF QueryInv, BoundInv
  <1>12. /\ g.ms.stream[2] = p
         /\ g.ms.stream = t \/ (g.ms.stream \in DOMAIN tasks
                                  /\ tasks[g.ms.stream].st # "spawned")
         /\ \A x \in DOMAIN tasks : tasks[x].st \in Holds => tasks[x].ms.stream # g.ms.stream
         /\ \A q \in DOMAIN cache' : cache'[q].stream # g.ms.stream
    <2>1. CASE p \in DOMAIN cache /\ g.ms = cache[p]
      <3>1. \A q \in DOMAIN cache' : q # p
        BY <1>5
      <3> QED
        BY <1>2, <1>5, <2>1, <3>1 DEF StreamInv, ExclusiveStream, Holds
    <2>2. CASE g.ms = build(t)
      <3>1. g.ms.stream = t
        BY <1>4, <2>2
      <3>2. \A x \in DOMAIN tasks : tasks[x].st \in Holds => tasks[x].ms.stream # t
        BY <1>1, <1>2 DEF StreamInv
      <3>3. \A q \in DOMAIN cache' : cache'[q].stream # t
        BY <1>1, <1>2, <1>5 DEF StreamInv
      <3> QED
        BY <1>0, <3>1, <3>2, <3>3
    <2> QED
      BY <1>3, <2>1, <2>2
  <1>13. StreamInv'
    <2>1. \A x \in DOMAIN tasks : tasks[x].st # "spawned" => tasks'[x].st # "spawned"
      BY <1>6 DEF Moves
    <2>2. tasks'[t].st # "spawned" /\ t \in DOMAIN tasks'
      BY <1>1, <1>6 DEF Moves
    <2> QED
      BY <1>0, <1>2, <1>5, <1>6, <1>12, <2>1, <2>2 DEF StreamInv, Moves
  <1>14. ExclusiveStream'
    BY <1>2, <1>5, <1>6, <1>12 DEF ExclusiveStream, Moves, Holds
  <1>15. PostedInv' /\ LookupInv'
    BY <1>1 DEF QueryInv, PostedInv, LookupInv, Alive
  <1> QED
    BY <1>7, <1>8, <1>9, <1>10, <1>11, <1>13, <1>14, <1>15 DEF QueryInv

\* A lost connection kills streams and moves nothing.
LEMMA QueryConnections ==
    ASSUME QueryInv, NEW p \in Peers, ConnectionLost(p) \/ handle_peer_disconnected(p)
    PROVE  QueryInv'
  <1>0. \A x \in DOMAIN tasks : tasks[x] \in Task
    BY DEF QueryInv, TypeInv, TaskTypes
  <1>1. UNCHANGED <<queryVars, todo, stats>>
    BY DEF ConnectionLost, handle_peer_disconnected
  <1>2. /\ tasks' \in [DOMAIN tasks' -> Task] /\ DOMAIN tasks' = DOMAIN tasks
        /\ \A x \in DOMAIN tasks : /\ tasks'[x].st = tasks[x].st
                                   /\ tasks'[x].ms.stream = tasks[x].ms.stream
    <2>1. CASE UNCHANGED tasks
      BY <2>1 DEF QueryInv, TypeInv, TaskTypes
    <2>2. CASE ConnectionLost(p)
      BY <1>0, <2>2 DEF ConnectionLost, Task, KadMessenger
    <2> QED
      BY <2>1, <2>2 DEF handle_peer_disconnected
  <1>3. /\ cache' \in [DOMAIN cache' -> KadMessenger] /\ DOMAIN cache' \subseteq DOMAIN cache
        /\ \A q \in DOMAIN cache' : cache'[q].stream = cache[q].stream
    <2>1. CASE ConnectionLost(p)
      BY <2>1 DEF ConnectionLost, QueryInv, TypeInv, TaskTypes, KadMessenger
    <2>2. CASE handle_peer_disconnected(p)
      BY <2>2 DEF handle_peer_disconnected, clear_messengers, Without, QueryInv, TypeInv,
                  TaskTypes
    <2> QED
      BY <2>1, <2>2
  <1>4. TypeInv'
    BY <1>1, <1>2, <1>3 DEF QueryInv, TypeInv, QueryTypes, TaskTypes, ResultTypes
  <1>5. /\ QueryTasks' = QueryTasks /\ EndedTasks' = EndedTasks
        /\ AnnounceTasks' = AnnounceTasks
    BY <1>2 DEF QueryTasks, EndedTasks, AnnounceTasks
  <1>6. Running("query")' = Running("query") /\ Running("announce")' = Running("announce")
    BY <1>2 DEF Running
  <1>7. StatsAddUp'
    BY <1>1, <1>5, StatsKept DEF QueryInv
  <1>8. PhaseInv' /\ AskedInv' /\ BoundInv'
    BY <1>1, <1>2, <1>5, <1>6 DEF QueryInv, PhaseInv, AskedInv, BoundInv
  <1>9. UpdateInv'
    BY <1>1, <1>2, <1>6 DEF QueryInv, UpdateInv
  <1>10. StreamInv'
    BY <1>2, <1>3 DEF QueryInv, StreamInv
  <1>11. ExclusiveStream'
    BY <1>2, <1>3 DEF QueryInv, ExclusiveStream
  <1>12. PostedInv' /\ LookupInv'
    BY <1>1 DEF QueryInv, PostedInv, LookupInv, Alive
  <1> QED
    BY <1>4, <1>7, <1>8, <1>9, <1>10, <1>11, <1>12 DEF QueryInv
-----------------------------------------------------------------------------
(* Tasks begin. *)

Spawned(S) ==
    /\ S \subseteq TaskIds /\ S \cap DOMAIN tasks = {}
    /\ DOMAIN tasks' = DOMAIN tasks \cup S
    /\ \A x \in DOMAIN tasks : tasks'[x] = tasks[x]
    /\ \A x \in S : tasks'[x] \in Task /\ tasks'[x].st = "spawned"
    /\ tasks' \in [DOMAIN tasks' -> Task]

LEMMA SpawnedIs ==
    ASSUME TaskTypes, NEW S, S \subseteq TaskIds, S \cap DOMAIN tasks = {},
           tasks' = [x \in DOMAIN tasks \cup S |->
                        IF x \in S THEN [st |-> "spawned", ms |-> build(x)] ELSE tasks[x]]
    PROVE  Spawned(S)
  <1>1. \A x \in S : build(x) \in KadMessenger
    BY QueryAssumption DEF build, KadMessenger
  <1> HIDE DEF build
  <1>2. \A x \in S : [st |-> "spawned", ms |-> build(x)] \in Task
    BY <1>1 DEF Task, TaskStates
  <1> QED
    BY <1>2 DEF Spawned, TaskTypes

\* A task that begins has no stream yet.
LEMMA SpawnedStreams ==
    ASSUME StreamInv, ExclusiveStream, NEW S, Spawned(S), UNCHANGED cache
    PROVE  StreamInv' /\ ExclusiveStream'
  <1>1. \A x \in DOMAIN tasks' : tasks'[x].st \in Holds =>
           x \in DOMAIN tasks /\ tasks[x].st \in Holds /\ tasks'[x] = tasks[x]
    BY DEF Spawned, Holds
  <1>2. StreamInv'
    BY <1>1 DEF StreamInv, Spawned
  <1>3. ExclusiveStream'
    BY <1>1 DEF ExclusiveStream, Holds
  <1> QED
    BY <1>2, <1>3

LEMMA QueryAnnounceSpawn ==
    ASSUME QueryInv, AnnounceSpawn
    PROVE  QueryInv'
  <1> DEFINE p == Min(todo)  t == <<"announce", p>>
  <1>1. /\ phase = "announcing" /\ todo # {} /\ Cardinality(Running("announce")) < alpha_value
        /\ tasks' = [x \in DOMAIN tasks \cup {t} |->
                        IF x = t THEN [st |-> "spawned", ms |-> build(t)] ELSE tasks[x]]
        /\ todo' = todo \ {p} /\ UNCHANGED <<queryVars, netVars, stats>>
    BY DEF AnnounceSpawn
  <1>2. p \in todo
    <2>1. todo \subseteq Nat
      BY PeersFinite DEF QueryInv, TypeInv, TaskTypes
    <2> QED
      BY <1>1, <2>1, MinIsMember
  <1> HIDE DEF p
  <1>3. t \in TaskIds /\ t[1] = "announce" /\ t[2] = p /\ t \notin DOMAIN tasks
    BY <1>2 DEF QueryInv, TypeInv, TaskTypes, TaskIds, PhaseInv
  <1>3a. \A q : q # p => <<"announce", q>> # t
    OBVIOUS
  <1> HIDE DEF t
  <1>4. Spawned({t})
    <2>1. tasks' = [x \in DOMAIN tasks \cup {t} |->
                      IF x \in {t} THEN [st |-> "spawned", ms |-> build(x)] ELSE tasks[x]]
      BY <1>1
    <2> QED
      BY <1>3, <2>1, SpawnedIs DEF QueryInv, TypeInv
  <1>5. TypeInv'
    BY <1>1, <1>4 DEF QueryInv, TypeInv, QueryTypes, TaskTypes, ResultTypes, Spawned
  <1>6. PhaseInv'
    <2>1. \A q \in todo' : <<"announce", q>> # t /\ q \in todo
      BY <1>1, <1>3a
    <2>2. \A q \in todo' : <<"announce", q>> \notin DOMAIN tasks'
      BY <2>1, <1>4 DEF QueryInv, PhaseInv, Spawned
    <2> QED
      BY <1>1, <2>2 DEF PhaseInv
  <1>7. QueryTasks' = QueryTasks /\ EndedTasks' = EndedTasks
    BY <1>3, <1>4 DEF Spawned, QueryTasks, EndedTasks
  <1>8. AskedInv' /\ UpdateInv' /\ StatsAddUp'
    <2>1. StatsAddUp'
      BY <1>1, <1>7, StatsKept DEF QueryInv
    <2> QED
      BY <1>1, <1>7, <2>1 DEF QueryInv, AskedInv, UpdateInv
  <1>9. BoundInv'
    <2>1. /\ Running("announce")' = Running("announce") \cup {t}
          /\ t \notin Running("announce") /\ Running("announce") \subseteq TaskIds
      BY <1>3, <1>4 DEF Running, Spawned, QueryInv, TypeInv, TaskTypes
    <2>2. Cardinality(Running("announce")') = Cardinality(Running("announce")) + 1
      BY <2>1, OneMoreTask
    <2>3. Cardinality(Running("announce")) \in Nat /\ alpha_value \in Nat
      BY <2>1, TasksFinite, QueryAssumption DEF NonZero
    <2>4. Cardinality(Running("announce")') <= alpha_value
      BY <1>1, <2>2, <2>3
    <2> QED
      BY <1>1, <2>4 DEF QueryInv, BoundInv
  <1>10. StreamInv' /\ ExclusiveStream'
    BY <1>1, <1>4, SpawnedStreams DEF QueryInv
  <1>11. PostedInv' /\ LookupInv'
    BY <1>1 DEF QueryInv, PostedInv, LookupInv, Alive
  <1> QED
    BY <1>5, <1>6, <1>8, <1>9, <1>10, <1>11 DEF QueryInv

LEMMA QueryAnnounceDone ==
    ASSUME QueryInv, AnnounceDone
    PROVE  QueryInv'
  <1> DEFINE b == Bump({"fixed_query_completed"})
             failed == {t \in DOMAIN tasks : t[1] = "announce" /\ tasks[t].st = "failed"}
  <1>1. /\ phase = "announcing" /\ phase' = "done"
        /\ stats' = [b EXCEPT !["fixed_tx_error"] = @ + Cardinality(failed)]
        /\ UNCHANGED <<op, closest_peers, query_results, rx, posted, tasks, todo, netVars>>
    BY DEF AnnounceDone
  <1>2. Cardinality(failed) \in Nat
    BY TasksFinite DEF QueryInv, TypeInv, TaskTypes
  <1>3. /\ b \in [QueryStats -> Nat]
        /\ \A f \in QueryStats : f # "fixed_query_completed" => b[f] = stats[f]
    BY BumpIs DEF QueryInv, TypeInv, QueryTypes
  <1> HIDE DEF b, failed
  <1>4. /\ stats' \in [QueryStats -> Nat]
        /\ \A f \in IterativeStats : stats'[f] = stats[f]
        /\ stats'["iter_query_completed"] = stats["iter_query_completed"]
    BY <1>1, <1>2, <1>3 DEF QueryStats, IterativeStats
  <1>5. TypeInv'
    BY <1>1, <1>4 DEF QueryInv, TypeInv, QueryTypes, TaskTypes, ResultTypes
  <1>6. PhaseInv' /\ UpdateInv'
    BY <1>1 DEF QueryInv, PhaseInv, UpdateInv
  <1>7. StatsAddUp'
    BY <1>1, <1>4, StatsKept DEF QueryInv, QueryTasks, EndedTasks
  <1>8. AskedInv' /\ BoundInv' /\ StreamInv' /\ ExclusiveStream' /\ PostedInv'
    BY <1>1 DEF QueryInv, AskedInv, QueryTasks, BoundInv, Running, StreamInv,
                ExclusiveStream, PostedInv
  <1>9. LookupInv'
    BY <1>1, <1>4 DEF QueryInv, LookupInv, Alive
  <1> QED
    BY <1>5, <1>6, <1>7, <1>8, <1>9 DEF QueryInv
-----------------------------------------------------------------------------
(* A turn of the loop. *)

LEMMA HandledUpdate ==
    ASSUME QueryInv, phase = "iterating", rx # << >>, NEW u, u = Head(rx)
    PROVE  /\ u \in Update
           /\ u.source # Self =>
                 /\ u.source \in DOMAIN closest_peers /\ closest_peers[u.source] = "Waiting"
                 /\ <<"query", u.source>> \notin Running("query")
                 /\ \A i \in DOMAIN Tail(rx) : Tail(rx)[i].source # u.source
  <1>1. QueryTypes
    BY DEF QueryInv, TypeInv
  <1>2. /\ u \in Update /\ u = rx[1] /\ 1 \in DOMAIN rx
        /\ DOMAIN rx \subseteq Nat /\ DOMAIN Tail(rx) \subseteq Nat \ {0}
        /\ \A i \in DOMAIN Tail(rx) : i + 1 \in DOMAIN rx /\ Tail(rx)[i] = rx[i + 1]
    BY <1>1, FirstUpdate
  <1>3. ASSUME u.source # Self
        PROVE  /\ <<"query", u.source>> \in DOMAIN tasks
               /\ tasks[<<"query", u.source>>].st \in {"answered", "ended"}
               /\ closest_peers[u.source] = "Waiting"
               /\ \A j \in DOMAIN rx : rx[j].source = u.source => 1 = j
    BY <1>2, <1>3 DEF QueryInv, UpdateInv
  <1>4. ASSUME u.source # Self
        PROVE  /\ u.source \in DOMAIN closest_peers
               /\ <<"query", u.source>> \notin Running("query")
    BY <1>3, <1>4 DEF QueryInv, AskedInv, QueryTasks, Running
  <1>5. ASSUME u.source # Self, NEW i \in DOMAIN Tail(rx)
        PROVE  Tail(rx)[i].source # u.source
    <2>1. i \in Nat \ {0} /\ i + 1 \in DOMAIN rx /\ Tail(rx)[i] = rx[i + 1]
      BY <1>2, <1>5
    <2>2. i + 1 # 1
      BY <2>1
    <2> QED
      BY <1>3, <1>5, <2>1, <2>2
  <1> QED
    BY <1>2, <1>3, <1>4, <1>5

LEMMA HandledClosest ==
    ASSUME QueryInv, phase = "iterating", rx # << >>, NEW u, u = Head(rx),
           NEW c, c = ClosestAfter(u)
    PROVE  /\ c \in [DOMAIN c -> PeerState]
           /\ DOMAIN closest_peers \subseteq DOMAIN c /\ DOMAIN c \subseteq Peers
           /\ \A d \in DOMAIN closest_peers : d # u.source => c[d] = closest_peers[d]
           /\ \A d \in DOMAIN c \ DOMAIN closest_peers : c[d] = "NotContacted"
           /\ u.source # Self =>
                 c[u.source] = IF u.kind = "Queried" THEN "Succeeded" ELSE "Unreachable"
  <1>1. QueryTypes /\ u \in Update /\ (u.source # Self => u.source \in DOMAIN closest_peers)
    BY HandledUpdate DEF QueryInv, TypeInv
  <1> QED
    BY <1>1, ClosestAfterIs

\* Handling an update leaves room for new jobs: checked_sub() has a value.
LEMMA HandledWaiting ==
    ASSUME QueryInv, phase = "iterating", rx # << >>, NEW u, u = Head(rx),
           NEW c, c = ClosestAfter(u)
    PROVE  num_of_states(c, {"Waiting"}) \in Nat /\ num_of_states(c, {"Waiting"}) <= alpha_value
  <1> DEFINE W == InStates(c, {"Waiting"})  V == InStates(closest_peers, {"Waiting"})
  <1>1. DOMAIN closest_peers \subseteq DOMAIN c /\ DOMAIN c \subseteq Peers
    BY HandledClosest
  <1>2. W \subseteq V
    <2>1. \A d \in DOMAIN c : c[d] = "Waiting" =>
             d \in DOMAIN closest_peers /\ closest_peers[d] = "Waiting"
      BY HandledClosest, HandledUpdate, QueryAssumption
    <2> QED
      BY <2>1 DEF InStates
  <1>3. V \subseteq Peers
    BY <1>1 DEF InStates
  <1> HIDE DEF W, V
  <1>4. Cardinality(W) \in Nat /\ Cardinality(V) \in Nat /\ Cardinality(W) <= Cardinality(V)
    BY <1>2, <1>3, PeersFinite, FS_Subset
  <1>5. Cardinality(V) <= alpha_value
    BY DEF QueryInv, BoundInv, num_of_states, V
  <1>6. alpha_value \in Nat
    BY QueryAssumption DEF NonZero
  <1> QED
    BY <1>4, <1>5, <1>6 DEF num_of_states, W

\* The events posted agree with the new states.
LEMMA HandledPosted ==
    ASSUME QueryInv, phase = "iterating", rx # << >>, NEW u, u = Head(rx),
           NEW c, c = ClosestAfter(u),
           posted' = posted \cup {<<IF u.kind = "Queried" THEN "KadPeerFound"
                                    ELSE "KadPeerStopped", u.source>>}
    PROVE  /\ \A p \in Peers : <<"KadPeerStopped", p>> \in posted' <=>
                 p \in DOMAIN c /\ c[p] = "Unreachable"
           /\ \A p \in DOMAIN c : c[p] = "Succeeded" => <<"KadPeerFound", p>> \in posted'
  <1>1. Self \notin Peers
    BY QueryAssumption
  <1>2. PostedInv
    BY DEF QueryInv
  <1>3. ASSUME NEW p \in Peers
        PROVE  <<"KadPeerStopped", p>> \in posted' <=>
                 <<"KadPeerStopped", p>> \in posted \/ (p = u.source /\ u.kind # "Queried")
    <2>1. CASE u.kind = "Queried"
      BY <2>1
    <2>2. CASE u.kind # "Queried"
      BY <2>2
    <2> QED
      BY <2>1, <2>2
  <1>4. ASSUME NEW p \in Peers
        PROVE  <<"KadPeerFound", p>> \in posted' <=>
                 <<"KadPeerFound", p>> \in posted \/ (p = u.source /\ u.kind = "Queried")
    <2>1. CASE u.kind = "Queried"
      BY <2>1
    <2>2. CASE u.kind # "Queried"
      BY <2>2
    <2> QED
      BY <2>1, <2>2
  <1>5. ASSUME NEW p \in Peers
        PROVE  /\ <<"KadPeerStopped", p>> \in posted' <=> p \in DOMAIN c /\ c[p] = "Unreachable"
               /\ p \in DOMAIN c /\ c[p] = "Succeeded" => <<"KadPeerFound", p>> \in posted'
    <2>1. CASE p = u.source
      BY <1>1, <1>2, <1>3, <1>4, <2>1, HandledUpdate, HandledClosest DEF PostedInv
    <2>2. CASE p # u.source
      BY <1>2, <1>3, <1>4, <2>2, HandledClosest DEF PostedInv
    <2> QED
      BY <2>1, <2>2
  <1> QED
    BY <1>5, HandledClosest

\* The test of is_starved and can_terminate: the closest peers alive have answered.
LEMMA StopsWhenAnswered ==
    ASSUME NEW c, DOMAIN c \subseteq Peers, is_starved(c) \/ can_terminate(c),
           NEW p \in Take(beta_value, InStates(c, {"NotContacted", "Waiting", "Succeeded"}))
    PROVE  c[p] = "Succeeded"
  <1>1. CASE can_terminate(c)
    BY <1>1 DEF can_terminate, peers_in_states
  <1>2. CASE is_starved(c)
    <2> DEFINE open == InStates(c, {"NotContacted", "Waiting"})
    <2>1. open \subseteq Peers /\ Cardinality(open) = 0
      BY <1>2 DEF is_starved, num_of_states, InStates
    <2>2. open = {}
      BY <2>1, PeersFinite, FS_EmptySet
    <2>3. p \in DOMAIN c /\ c[p] \in {"NotContacted", "Waiting", "Succeeded"}
      BY TakeIsBelow, StatesAre
    <2> QED
      BY <2>2, <2>3, StatesAre
  <1> QED
    BY <1>1, <1>2

LEMMA QueryFinishes ==
    ASSUME QueryInv, phase = "iterating", rx # << >>, NEW u, u = Head(rx),
           NEW c, c = ClosestAfter(u), NEW r, r = ResultAfter(u, c),
           posted' = posted \cup {<<IF u.kind = "Queried" THEN "KadPeerFound"
                                    ELSE "KadPeerStopped", u.source>>},
           IsCompleted(u, c) \/ is_starved(c) \/ can_terminate(c),
           closest_peers' = c, Finish(c, r), UNCHANGED <<op, netVars>>
    PROVE  QueryInv'
  <1> DEFINE found == peers_in_states(c, {"NotContacted", "Waiting", "Succeeded"}, k_value)
  <1>0. u \in Update /\ DOMAIN c \subseteq Peers /\ c \in [DOMAIN c -> PeerState]
    BY HandledUpdate, HandledClosest
  <1>1. found \subseteq Peers
    BY <1>0 DEF peers_in_states, Take, InStates
  <1>2. DOMAIN r = DOMAIN NoResult /\ r.cache_peers \subseteq Peers
    BY <1>0, ResultAfterIs DEF QueryInv, TypeInv
  <1>3. PICK targets \in SUBSET Peers :
           /\ query_results' = [r EXCEPT !.closest_peers = found]
           /\ rx' = << >> /\ todo' = targets /\ UNCHANGED tasks
           /\ phase' = IF targets = {} THEN "done" ELSE "announcing"
           /\ stats' = Bump({"iter_query_completed"} \cup
                              IF targets = {} THEN {} ELSE {"fixed_query_executed"})
    <2>1. CASE op.type = "GetRecord"
      BY <1>2, <2>1 DEF Finish
    <2>2. CASE op.type \in {"PutRecord", "AddProvider"}
      BY <1>1, <2>2 DEF Finish
    <2>3. CASE op.type \notin {"GetRecord", "PutRecord", "AddProvider"}
      BY <2>3 DEF Finish
    <2> QED
      BY <2>1, <2>2, <2>3
  <1>4. /\ stats' \in [QueryStats -> Nat]
        /\ \A f \in IterativeStats : stats'[f] = stats[f]
    <2> DEFINE D == {"iter_query_completed"} \cup
                      IF targets = {} THEN {} ELSE {"fixed_query_executed"}
    <2>1. stats' = Bump(D) /\ \A f \in IterativeStats : f \notin D
      BY <1>3 DEF IterativeStats
    <2> HIDE DEF D
    <2> QED
      BY <2>1, BumpIs DEF QueryInv, TypeInv, QueryTypes, QueryStats
  <1> HIDE DEF found
  <1>5. TypeInv'
    <2>1. ResultTypes'
      BY <1>2, <1>3 DEF ResultTypes, NoResult
    <2>2. phase' \in {"done", "announcing"} /\ rx' \in Seq(Update)
      BY <1>3
    <2> QED
      BY <1>0, <1>3, <1>4, <2>1, <2>2 DEF QueryInv, TypeInv, QueryTypes, TaskTypes
  <1>6. PhaseInv'
    <2>1. AnnounceTasks = {}
      BY DEF QueryInv, PhaseInv
    <2>2. \A p : <<"announce", p>> \notin DOMAIN tasks
      BY <2>1 DEF AnnounceTasks
    <2> QED
      BY <1>3, <2>2 DEF PhaseInv
  <1>7. AskedInv'
    <2>1. \A t \in QueryTasks : t[2] \in DOMAIN c /\ c[t[2]] # "NotContacted"
      BY <1>0, HandledClosest, QueryAssumption DEF QueryInv, AskedInv
    <2> QED
      BY <1>3, <2>1 DEF AskedInv, QueryTasks
  <1>8. UpdateInv'
    BY <1>3 DEF UpdateInv
  <1>9. BoundInv'
    BY <1>3, HandledWaiting DEF QueryInv, BoundInv, Running
  <1>10. StatsAddUp'
    BY <1>3, <1>4, StatsKept DEF QueryInv, QueryTasks, EndedTasks
  <1>11. StreamInv' /\ ExclusiveStream'
    BY <1>3 DEF QueryInv, StreamInv, ExclusiveStream
  <1>12. PostedInv'
    BY HandledPosted DEF PostedInv
  <1>13. LookupInv'
    <2> SUFFICES ASSUME op.type \in {"GetClosestPeers", "PutRecord", "AddProvider"}
                 PROVE  LookupInv'
      BY DEF LookupInv
    <2>1. is_starved(c) \/ can_terminate(c)
      BY DEF IsCompleted
    <2>2. query_results'.closest_peers = found
      BY <1>2, <1>3 DEF NoResult
    <2>3. Alive' = InStates(c, {"NotContacted", "Waiting", "Succeeded"})
      BY DEF Alive, InStates
    <2>4. found = Take(k_value, Alive')
      BY <2>3 DEF found, peers_in_states
    <2>5. \A p \in Take(beta_value, Alive') : c[p] = "Succeeded"
      BY <1>0, <2>1, <2>3, StopsWhenAnswered
    <2>6. Take(k_value, Alive)' = Take(k_value, Alive') /\ Take(beta_value, Alive)' = Take(beta_value, Alive')
      BY DEF Take
    <2> QED
      BY <2>2, <2>4, <2>5, <2>6 DEF LookupInv
  <1> QED
    BY <1>5, <1>6, <1>7, <1>8, <1>9, <1>10, <1>11, <1>12, <1>13 DEF QueryInv

LEMMA DisjointCount ==
    ASSUME NEW S, NEW T, IsFiniteSet(S), IsFiniteSet(T), S \cap T = {}
    PROVE  Cardinality(S \cup T) = Cardinality(S) + Cardinality(T)
  <1>1. Cardinality(S \cap T) = 0
    BY FS_EmptySet
  <1>2. Cardinality(S \cup T) = Cardinality(S) + Cardinality(T) - Cardinality(S \cap T)
    BY FS_Union
  <1>3. Cardinality(S) \in Nat /\ Cardinality(T) \in Nat
    BY FS_CardinalityType
  <1> QED
    BY <1>1, <1>2, <1>3

\* A pair for each of a set of peers.
LEMMA JobsCount ==
    ASSUME NEW S, S \subseteq Peers
    PROVE  /\ {"query"} \X S \subseteq TaskIds
           /\ Cardinality({"query"} \X S) = Cardinality(S)
  <1>1. IsFiniteSet(S) /\ Cardinality(S) \in Nat
    BY PeersFinite
  <1>2. IsFiniteSet({"query"}) /\ Cardinality({"query"}) = 1
    BY FS_Singleton
  <1>3. Cardinality({"query"} \X S) = Cardinality({"query"}) * Cardinality(S)
    BY <1>1, <1>2, FS_Product
  <1> QED
    BY <1>1, <1>2, <1>3 DEF TaskIds

LEMMA QuerySpawns ==
    ASSUME QueryInv, phase = "iterating", rx # << >>, NEW u, u = Head(rx),
           NEW c, c = ClosestAfter(u), NEW r, r = ResultAfter(u, c),
           posted' = posted \cup {<<IF u.kind = "Queried" THEN "KadPeerFound"
                                    ELSE "KadPeerStopped", u.source>>},
           SpawnJobs(c, r), UNCHANGED <<op, netVars>>
    PROVE  QueryInv'
  <1> DEFINE waiting == InStates(c, {"Waiting"})
             num_jobs == alpha_value - num_of_states(c, {"Waiting"})
             chosen == peers_in_states(c, {"NotContacted"}, num_jobs)
             jobs == {"query"} \X chosen
  <1>0. u \in Update /\ DOMAIN c \subseteq Peers /\ c \in [DOMAIN c -> PeerState]
    BY HandledUpdate, HandledClosest
  <1>1. /\ closest_peers' = [d \in DOMAIN c |-> IF d \in chosen THEN "Waiting" ELSE c[d]]
        /\ tasks' = [t \in DOMAIN tasks \cup jobs |->
                        IF t[1] = "query" /\ t[2] \in chosen
                        THEN [st |-> "spawned", ms |-> build(t)] ELSE tasks[t]]
        /\ query_results' = r /\ rx' = Tail(rx)
        /\ stats' = [stats EXCEPT !["requests"] = @ + Cardinality(chosen)]
        /\ UNCHANGED <<phase, reply, todo>>
    BY DEF SpawnJobs
  <1>2. /\ num_jobs \in Nat /\ num_of_states(c, {"Waiting"}) \in Nat
        /\ num_of_states(c, {"Waiting"}) + num_jobs = alpha_value
    BY HandledWaiting, QueryAssumption DEF NonZero
  <1> HIDE DEF num_jobs
  <1>3. /\ chosen \subseteq Peers
        /\ \A d \in chosen : d \in DOMAIN c /\ c[d] = "NotContacted"
    BY <1>0, TakeIsBelow DEF peers_in_states, InStates
  <1>4. /\ IsFiniteSet(chosen) /\ Cardinality(chosen) \in Nat
        /\ Cardinality(chosen) <= num_jobs
    <2>1. InStates(c, {"NotContacted"}) \subseteq Peers
      BY <1>0 DEF InStates
    <2>2. Cardinality(chosen) <= num_jobs
      BY <1>2, <2>1, PeersFinite, TakeCount DEF peers_in_states
    <2> QED
      BY <1>3, <2>2, PeersFinite
  <1> HIDE DEF chosen
  <1>5. jobs \subseteq TaskIds /\ Cardinality(jobs) = Cardinality(chosen)
    BY <1>3, JobsCount
  <1>6. /\ \A t \in jobs : t[1] = "query" /\ t[2] \in chosen
        /\ \A t \in TaskIds : t[1] = "query" /\ t[2] \in chosen => t \in jobs
    BY DEF TaskIds
  <1> HIDE DEF jobs
  <1>7. \A t \in QueryTasks : t[2] \in DOMAIN c /\ c[t[2]] # "NotContacted"
    BY <1>0, HandledClosest, QueryAssumption DEF QueryInv, AskedInv
  <1>8. jobs \cap DOMAIN tasks = {}
    BY <1>3, <1>6, <1>7 DEF QueryTasks
  <1>9. Spawned(jobs)
    <2>0. TaskTypes
      BY DEF QueryInv, TypeInv
    <2>1. \A t \in DOMAIN tasks \cup jobs : (t[1] = "query" /\ t[2] \in chosen) <=> t \in jobs
      BY <1>5, <1>6, <2>0 DEF TaskTypes
    <2>2. tasks' = [t \in DOMAIN tasks \cup jobs |->
                      IF t \in jobs THEN [st |-> "spawned", ms |-> build(t)] ELSE tasks[t]]
      BY <1>1, <2>1
    <2> QED
      BY <1>5, <1>8, <2>0, <2>2, SpawnedIs
  <1>10. /\ closest_peers' \in [DOMAIN closest_peers' -> PeerState]
         /\ DOMAIN closest_peers' = DOMAIN c
         /\ \A d \in chosen : closest_peers'[d] = "Waiting"
         /\ \A d \in DOMAIN c \ chosen : closest_peers'[d] = c[d]
    BY <1>0, <1>1, <1>3 DEF PeerState
  <1>11. /\ stats' \in [QueryStats -> Nat]
         /\ stats'["requests"] = stats["requests"] + Cardinality(chosen)
         /\ \A f \in QueryStats \ {"requests"} : stats'[f] = stats[f]
    BY <1>1, <1>4 DEF QueryInv, TypeInv, QueryTypes, QueryStats, IterativeStats
  <1>12. TypeInv'
    <2>1. DOMAIN r = DOMAIN NoResult /\ r.cache_peers \subseteq Peers
      BY <1>0, ResultAfterIs DEF QueryInv, TypeInv
    <2>2. rx' \in Seq(Update)
      BY <1>1, FirstUpdate DEF QueryInv, TypeInv
    <2>3. QueryTypes'
      BY <1>0, <1>1, <1>10, <1>11, <2>2 DEF QueryInv, TypeInv, QueryTypes
    <2>4. TaskTypes'
      BY <1>1, <1>9 DEF QueryInv, TypeInv, TaskTypes, Spawned
    <2> QED
      BY <1>1, <2>1, <2>3, <2>4 DEF TypeInv, ResultTypes
  <1>13. PhaseInv'
    <2>1. todo = {} /\ AnnounceTasks = {} /\ stats["iter_query_completed"] = 0
      BY DEF QueryInv, PhaseInv
    <2>2. AnnounceTasks' = {}
      BY <1>6, <1>9, <2>1 DEF AnnounceTasks, Spawned
    <2>3. stats'["iter_query_completed"] = 0
      BY <1>11, <2>1 DEF QueryStats
    <2> QED
      BY <1>1, <2>1, <2>2, <2>3 DEF PhaseInv
  <1>14. QueryTasks' = QueryTasks \cup jobs /\ EndedTasks' = EndedTasks
    BY <1>6, <1>8, <1>9 DEF QueryTasks, EndedTasks, Spawned
  <1>15. AskedInv'
    BY <1>3, <1>6, <1>7, <1>10, <1>14 DEF AskedInv
  <1>16. StatsAddUp'
    <2>1. QueryTasks \subseteq TaskIds /\ QueryTasks \cap jobs = {}
      BY <1>8 DEF QueryTasks, QueryInv, TypeInv, TaskTypes
    <2>2. /\ IsFiniteSet(QueryTasks) /\ IsFiniteSet(jobs)
          /\ Cardinality(QueryTasks) \in Nat /\ Cardinality(jobs) \in Nat
      BY <1>5, <2>1, TasksFinite
    <2>3. Cardinality(QueryTasks \cup jobs) = Cardinality(QueryTasks) + Cardinality(jobs)
      BY <2>1, <2>2, DisjointCount
    <2>4. /\ stats["requests"] = Cardinality(QueryTasks)
          /\ stats["success"] + stats["failure"] = Cardinality(EndedTasks)
      BY StatsAre DEF QueryInv
    <2>5. stats'["success"] = stats["success"] /\ stats'["failure"] = stats["failure"]
      BY <1>11 DEF QueryStats, IterativeStats
    <2>6. /\ stats'["requests"] = Cardinality(QueryTasks')
          /\ stats'["success"] + stats'["failure"] = Cardinality(EndedTasks')
      BY <1>5, <1>11, <1>14, <2>3, <2>4, <2>5
    <2> QED
      BY <2>6 DEF StatsAddUp, QueryTasks, EndedTasks
  <1>17. BoundInv'
    <2>1. InStates(closest_peers', {"Waiting"}) = waiting \cup chosen
      BY <1>3, <1>10 DEF InStates
    <2>2. waiting \subseteq Peers /\ waiting \cap chosen = {}
      BY <1>0, <1>3 DEF InStates
    <2>3. Cardinality(waiting) = num_of_states(c, {"Waiting"})
      BY DEF num_of_states
    <2> HIDE DEF waiting
    <2>4. Cardinality(waiting \cup chosen) = Cardinality(waiting) + Cardinality(chosen)
      BY <1>4, <2>2, PeersFinite, DisjointCount
    <2>5. Cardinality(waiting \cup chosen) <= alpha_value
      BY <1>2, <1>4, <2>3, <2>4
    <2>6. Running("announce")' = Running("announce")
      BY <1>6, <1>9 DEF Running, Spawned
    <2> QED
      BY <2>1, <2>5, <2>6 DEF QueryInv, BoundInv, num_of_states, InStates
  <1>18. UpdateInv'
    <2>1. \A p : p # u.source => (c[p] = closest_peers[p] \/ p \notin DOMAIN closest_peers)
      BY HandledClosest
    <2>2. ASSUME NEW t \in Running("query")'
          PROVE  closest_peers'[t[2]] = "Waiting"
      <3>1. CASE t \in jobs
        BY <1>6, <1>10, <3>1
      <3>2. CASE t \in Running("query")
        <4>1. t \in QueryTasks /\ closest_peers[t[2]] = "Waiting" /\ t[2] \in DOMAIN closest_peers
          BY <3>2 DEF QueryInv, UpdateInv, AskedInv, Running, QueryTasks
        <4>2. t[2] # u.source
          <5>1. t = <<"query", t[2]>> /\ t[2] # Self
            BY <3>2, QueryAssumption DEF Running, TaskIds, QueryInv, TypeInv, TaskTypes
          <5> QED
            BY <3>2, <5>1, HandledUpdate
        <4>3. c[t[2]] = "Waiting" /\ t[2] \in DOMAIN c /\ t[2] \notin chosen
          BY <1>3, <1>7, <2>1, <4>1, <4>2
        <4> QED
          BY <1>10, <4>3
      <3> QED
        BY <1>9, <2>2, <3>1, <3>2 DEF Running, Spawned
    <2>3. /\ DOMAIN Tail(rx) \subseteq Nat \ {0} /\ DOMAIN rx \subseteq Nat
          /\ \A i \in DOMAIN Tail(rx) : i + 1 \in DOMAIN rx /\ Tail(rx)[i] = rx[i + 1]
      BY FirstUpdate DEF QueryInv, TypeInv
    <2>4. ASSUME NEW i \in DOMAIN Tail(rx), Tail(rx)[i].source # Self
          PROVE  LET p == Tail(rx)[i].source
                 IN  /\ <<"query", p>> \in DOMAIN tasks'
                     /\ tasks'[<<"query", p>>].st \in {"answered", "ended"}
                     /\ closest_peers'[p] = "Waiting"
                     /\ \A j \in DOMAIN Tail(rx) : Tail(rx)[j].source = p => i = j
      <3> DEFINE p == Tail(rx)[i].source
      <3>1. i + 1 \in DOMAIN rx /\ p = rx[i + 1].source /\ i \in Nat
        BY <2>3
      <3>2. /\ <<"query", p>> \in DOMAIN tasks
            /\ tasks[<<"query", p>>].st \in {"answered", "ended"}
            /\ closest_peers[p] = "Waiting"
            /\ \A j \in DOMAIN rx : rx[j].source = p => i + 1 = j
        BY <2>4, <3>1 DEF QueryInv, UpdateInv
      <3>3. ASSUME NEW j \in DOMAIN Tail(rx), Tail(rx)[j].source = p
            PROVE  i = j
        <4>1. j \in Nat /\ j + 1 \in DOMAIN rx /\ rx[j + 1].source = p
          BY <2>3, <3>3
        <4>2. i + 1 = j + 1
          BY <3>2, <4>1
        <4> QED
          BY <3>1, <4>1, <4>2
      <3>4. p # u.source
        BY <2>4, HandledUpdate
      <3> HIDE DEF p
      <3>5. <<"query", p>> \in QueryTasks /\ p \in DOMAIN closest_peers
        BY <3>2 DEF QueryTasks, QueryInv, AskedInv
      <3>6. c[p] = "Waiting" /\ p \in DOMAIN c /\ p \notin chosen
        BY <1>3, <1>7, <2>1, <3>2, <3>4, <3>5
      <3>7. /\ <<"query", p>> \in DOMAIN tasks'
            /\ tasks'[<<"query", p>>].st \in {"answered", "ended"}
            /\ closest_peers'[p] = "Waiting"
        BY <1>9, <1>10, <3>2, <3>6 DEF Spawned
      <3> QED
        BY <3>3, <3>7 DEF p
    <2> QED
      BY <1>1, <2>2, <2>4 DEF UpdateInv
  <1>19. StreamInv' /\ ExclusiveStream'
    BY <1>9, SpawnedStreams DEF QueryInv
  <1>20. PostedInv'
    <2>1. /\ \A p \in Peers : <<"KadPeerStopped", p>> \in posted' <=>
                 p \in DOMAIN c /\ c[p] = "Unreachable"
          /\ \A p \in DOMAIN c : c[p] = "Succeeded" => <<"KadPeerFound", p>> \in posted'
      BY HandledPosted
    <2>2. \A d \in DOMAIN c : /\ closest_peers'[d] = "Unreachable" <=> c[d] = "Unreachable"
                              /\ closest_peers'[d] = "Succeeded" <=> c[d] = "Succeeded"
      BY <1>3, <1>10
    <2> QED
      BY <1>10, <2>1, <2>2 DEF PostedInv
  <1>21. LookupInv'
    BY <1>1, <1>13 DEF LookupInv, PhaseInv
  <1> QED
    BY <1>12, <1>13, <1>15, <1>16, <1>17, <1>18, <1>19, <1>20, <1>21 DEF QueryInv

LEMMA QueryIterate ==
    ASSUME QueryInv, Iterate
    PROVE  QueryInv'
  <1>1. PICK u, c, r :
           /\ phase = "iterating" /\ rx # << >>
           /\ u = Head(rx) /\ c = ClosestAfter(u) /\ r = ResultAfter(u, c)
           /\ posted' = posted \cup {<<IF u.kind = "Queried" THEN "KadPeerFound"
                                       ELSE "KadPeerStopped", u.source>>}
           /\ \/ /\ IsCompleted(u, c) \/ is_starved(c) \/ can_terminate(c)
                 /\ closest_peers' = c /\ Finish(c, r)
              \/ SpawnJobs(c, r)
           /\ UNCHANGED <<op, netVars>>
    <2> DEFINE u == Head(rx)  c == ClosestAfter(u)  r == ResultAfter(u, c)
    <2> WITNESS u, c, r
    <2> QED
      BY Zenon DEF Iterate
  <1>2. CASE closest_peers' = c /\ Finish(c, r)
             /\ (IsCompleted(u, c) \/ is_starved(c) \/ can_terminate(c))
    BY <1>1, <1>2, QueryFinishes
  <1>3. CASE SpawnJobs(c, r)
    BY <1>1, <1>3, QuerySpawns
  <1> QED
    BY <1>1, <1>2, <1>3
-----------------------------------------------------------------------------
(* The theorems. *)

LEMMA QueryInit ==
    ASSUME Init
    PROVE  QueryInv
  <1>1. DOMAIN tasks = {} /\ DOMAIN cache = {} /\ DOMAIN closest_peers = {} /\ DOMAIN rx = {}
    BY DEF Init
  <1>2. stats \in [QueryStats -> Nat] /\ \A f \in QueryStats : stats[f] = 0
    BY DEF Init
  <1>3. TypeInv
    <2>1. op \in Operation /\ rx \in Seq(Update)
      BY InputAssumption DEF Init
    <2>2. closest_peers \in [{} -> PeerState] /\ tasks \in [{} -> Task]
          /\ cache \in [{} -> KadMessenger]
      BY DEF Init
    <2>3. ResultTypes
      BY DEF ResultTypes, Init, NoResult
    <2> QED
      BY <1>1, <1>2, <2>1, <2>2, <2>3 DEF Init, TypeInv, QueryTypes, TaskTypes
  <1>4. Cardinality({}) = 0 /\ alpha_value \in Nat \ {0}
    BY FS_EmptySet, QueryAssumption DEF NonZero
  <1>5. PhaseInv /\ AskedInv /\ UpdateInv
    BY <1>1, <1>2 DEF Init, PhaseInv, AskedInv, UpdateInv, AnnounceTasks, QueryTasks,
                      Running, QueryStats
  <1>6. BoundInv
    <2>1. InStates(closest_peers, {"Waiting"}) = {} /\ Running("announce") = {}
      BY <1>1 DEF InStates, Running
    <2> QED
      BY <1>4, <2>1 DEF BoundInv, num_of_states
  <1>7. StatsAddUp
    <2>1. QueryTasks = {} /\ EndedTasks = {}
      BY <1>1 DEF QueryTasks, EndedTasks
    <2>2. stats["requests"] = 0 /\ stats["success"] = 0 /\ stats["failure"] = 0
      BY <1>2 DEF QueryStats, IterativeStats
    <2> QED
      BY <1>4, <2>1, <2>2, StatsAre
  <1>8. StreamInv /\ ExclusiveStream /\ PostedInv
    BY <1>1 DEF Init, StreamInv, ExclusiveStream, PostedInv
  <1>9. LookupInv
    BY <1>2 DEF LookupInv, QueryStats
  <1> QED
    BY <1>3, <1>5, <1>6, <1>7, <1>8, <1>9 DEF QueryInv

LEMMA QueryNext ==
    ASSUME QueryInv, [Next]_vars
    PROVE  QueryInv'
  <1>1. CASE Start
    BY <1>1, QueryStart
  <1>2. CASE Iterate
    BY <1>2, QueryIterate
  <1>3. CASE Deadline
    BY <1>3, QueryDeadline
  <1>4. CASE AnnounceSpawn
    BY <1>4, QueryAnnounceSpawn
  <1>5. CASE AnnounceDone
    BY <1>5, QueryAnnounceDone
  <1>6. ASSUME NEW p \in Peers, TaskStep(p)
        PROVE  QueryInv'
    <2>1. CASE \E k \in {"query", "announce"} : TaskConnects(<<k, p>>)
      BY <2>1, QueryTaskConnects
    <2>2. CASE \E closer \in Closer, provider \in Listed, has \in BOOLEAN :
                  JobAnswered(p, closer, provider, has)
      BY <2>2, QueryJobAnswered
    <2>3. CASE JobEnds(p)
      BY <2>3, QueryJobEnds
    <2>4. CASE JobFails(p)
      BY <2>4, QueryJobFails
    <2>5. CASE AnnounceSent(p) \/ AnnounceFails(p)
      BY <2>5, QueryAnnounceEnds
    <2> QED
      BY <1>6, <2>1, <2>2, <2>3, <2>4, <2>5, Zenon DEF TaskStep
  <1>7. ASSUME NEW p \in Peers, ConnectionLost(p) \/ handle_peer_disconnected(p)
        PROVE  QueryInv'
    BY <1>7, QueryConnections
  <1>8. CASE UNCHANGED vars
    <2>1. UNCHANGED <<op, phase, closest_peers, query_results, rx, posted, reply, tasks, todo,
                      cache, lost, losses, stats>>
      BY <1>8 DEF vars
    <2> QED
      BY <2>1 DEF QueryInv, TypeInv, QueryTypes, TaskTypes, ResultTypes, PhaseInv, AskedInv,
                  UpdateInv, BoundInv, StatsAddUp, StreamInv, ExclusiveStream, PostedInv,
                  LookupInv, Alive, Running, QueryTasks, AnnounceTasks
  <1> QED
    BY <1>1, <1>2, <1>3, <1>4, <1>5, <1>6, <1>7, <1>8, Zenon DEF Next

\* The conjunction of the parts is inductive.
THEOREM KadQueryInvariant == Spec => []QueryInv
  BY QueryInit, QueryNext, PTL DEF Spec

\* Every running job waits at a peer of its own, so the jobs are no more than
\* the peers that are Waiting.
LEMMA JobsBounded ==
    ASSUME QueryInv, phase = "iterating"
    PROVE  Cardinality(Running("query")) <= alpha_value
  <1> DEFINE R == Running("query")  W == InStates(closest_peers, {"Waiting"})
             peer == [t \in R |-> t[2]]
  <1>1. R \subseteq TaskIds /\ \A t \in R : t[1] = "query" /\ t[2] \in W
    BY DEF Running, QueryInv, TypeInv, TaskTypes, UpdateInv, AskedInv, QueryTasks, InStates
  <1>2. \A t \in R : t = <<"query", t[2]>>
    BY <1>1 DEF TaskIds
  <1>3. W \subseteq Peers
    BY DEF QueryInv, TypeInv, QueryTypes, InStates
  <1> HIDE DEF R, W
  <1>4. peer \in Injection(R, W)
    BY <1>1, <1>2 DEF Injection, IsInjective
  <1>5. Cardinality(R) <= Cardinality(W)
    BY <1>3, <1>4, PeersFinite, FS_Injection
  <1>6. Cardinality(W) <= alpha_value
    BY DEF QueryInv, BoundInv, num_of_states, W
  <1>7. Cardinality(R) \in Nat /\ Cardinality(W) \in Nat /\ alpha_value \in Nat
    BY <1>1, <1>3, TasksFinite, PeersFinite, QueryAssumption DEF NonZero
  <1>8. Cardinality(R) <= alpha_value
    BY <1>5, <1>6, <1>7
  <1> QED
    BY <1>8 DEF R

\* The tasks of a query are accounted for, whatever the network answers and
\* whenever it ends: at most alpha_value under way, every peer asked and counted
\* once, and each task on a stream that no other task and no cache has.
THEOREM KadQueryTasksAccounted == Spec => []TasksAccounted
  <1>1. QueryInv => TasksAccounted
    <2> SUFFICES ASSUME QueryInv PROVE TasksAccounted
      OBVIOUS
    <2>1. RequestsBounded
      BY JobsBounded DEF QueryInv, BoundInv, RequestsBounded
    <2> QED
      BY <2>1 DEF QueryInv, TasksAccounted
  <1> QED
    BY <1>1, KadQueryInvariant, PTL

\* A lookup that ends on its own returns the closest peers that are alive, of
\* all it has heard of, and the beta closest of them have answered.
THEOREM KadQueryLookupConverges == Spec => []LookupConverges
  <1>1. QueryInv => LookupConverges
    <2> SUFFICES ASSUME QueryInv, stats["iter_query_completed"] = 1,
                        op.type \in {"GetClosestPeers", "PutRecord", "AddProvider"}
                 PROVE  LET found == query_results.closest_peers
                        IN  /\ \A p \in found : <<"KadPeerStopped", p>> \notin posted
                            /\ \A p \in found, q \in DOMAIN closest_peers \ found :
                                  q < p => <<"KadPeerStopped", q>> \in posted
                            /\ \A p \in Take(beta_value, found) : <<"KadPeerFound", p>> \in posted
      BY DEF LookupConverges
    <2> DEFINE found == query_results.closest_peers
    <2>1. found = Take(k_value, Alive) /\ \A p \in Take(beta_value, Alive) :
             closest_peers[p] = "Succeeded"
      BY DEF QueryInv, LookupInv
    <2>2. Alive \subseteq Peers /\ Alive \subseteq Nat /\ IsFiniteSet(Alive)
      <3>1. Alive \subseteq Peers
        BY DEF Alive, InStates, QueryInv, TypeInv, QueryTypes
      <3> QED
        BY <3>1, PeersFinite
    <2>3. \A p : p \in Alive <=> p \in DOMAIN closest_peers /\ closest_peers[p] # "Unreachable"
      BY DEF Alive, InStates, QueryInv, TypeInv, QueryTypes, PeerState
    <2>4. k_value \in Nat /\ beta_value \in Nat /\ DOMAIN closest_peers \subseteq Peers
      BY QueryAssumption DEF NonZero, QueryInv, TypeInv, QueryTypes
    <2> HIDE DEF found
    <2>5. ASSUME NEW p \in found
          PROVE  <<"KadPeerStopped", p>> \notin posted
      <3>1. p \in Alive
        BY <2>1, <2>5, TakeIsBelow
      <3> QED
        BY <2>2, <2>3, <3>1 DEF QueryInv, PostedInv
    <2>6. ASSUME NEW p \in found, NEW q \in DOMAIN closest_peers \ found, q < p
          PROVE  <<"KadPeerStopped", q>> \in posted
      <3>1. q \notin Alive
        <4> SUFFICES ASSUME q \in Alive PROVE FALSE
          OBVIOUS
        <4>1. q \in Take(k_value, Alive)
          BY <2>1, <2>2, <2>4, <2>6, TakeClosest
        <4> QED
          BY <2>1, <2>6, <4>1
      <3> QED
        BY <2>3, <2>4, <2>6, <3>1 DEF QueryInv, PostedInv
    <2>7. ASSUME NEW p \in Take(beta_value, found)
          PROVE  <<"KadPeerFound", p>> \in posted
      <3>1. p \in Take(beta_value, Alive)
        BY <2>1, <2>2, <2>4, <2>7, TakeOfTake
      <3>2. p \in Alive /\ closest_peers[p] = "Succeeded"
        BY <2>1, <3>1, TakeIsBelow
      <3> QED
        BY <2>3, <3>2 DEF QueryInv, PostedInv
    <2> QED
      BY <2>5, <2>6, <2>7 DEF found
  <1> QED
    BY <1>1, KadQueryInvariant, PTL
=============================================================================
