------------------------------- MODULE Dialer -------------------------------
(***************************************************************************)
(* AsyncDialer, DialLimiter and DialBackoff (swarm/src/dial.rs).           *)
(*                                                                         *)
(* Every call of dial spawns a task that resolves the addresses of a peer, *)
(* skips the ones in back-off, spawns one job per address and collects the *)
(* results until one is good; it starts over while it has attempts left.   *)
(* The jobs of all the dials share the token counter of the DialLimiter;   *)
(* the tasks share the back-off entries, which a background task cleans    *)
(* up.  A step is what happens between two awaits, with two exceptions     *)
(* that are split: load and fetch_add of the token counter, and the two    *)
(* lock sections of do_cleanup.                                            *)
(*                                                                         *)
(* Time is relative: until and sleep hold what is left of a deadline, and  *)
(* Tick takes one unit from all of them.                                   *)
(***************************************************************************)
EXTENDS Integers, Sequences, FiniteSets

CONSTANTS Dials,           \* the calls of dial, by transaction id
          Peers,           \* the remote peers
          Addrs,           \* the multiaddresses
          Private,         \* those with is_private_addr
          Loopback,        \* those with is_loopback_addr
          NoTransport,     \* those without a transport in lookup_by_addr
          FilterPrivate, FilterLoopback,
          UseDHT,          \* the dials are given the routing, not addresses
          Attempts,        \* LIBP2P_SWARM_DIAL_ATTEMPTS
          DialLimit,       \* LIBP2P_SWARM_DIAL_LIMIT
          BackoffBase, BackoffCoef, BackoffMax

ASSUME AddrsAssumption ==
    /\ IsFiniteSet(Addrs) /\ IsFiniteSet(Dials)
    /\ Loopback \subseteq Private /\ Private \subseteq Addrs
    /\ NoTransport \subseteq Addrs
ASSUME ConfigAssumption ==
    /\ FilterPrivate \in BOOLEAN /\ FilterLoopback \in BOOLEAN /\ UseDHT \in BOOLEAN
    /\ Attempts \in Nat /\ DialLimit \in Nat
ASSUME BackoffAssumption ==
    /\ BackoffBase \in Nat /\ BackoffCoef \in Nat /\ BackoffMax \in Nat
    /\ BackoffBase <= BackoffMax

VARIABLES
    peer_id,         \* of the dials that were called
    pc,              \* where the task of a dial is
    dial_count,
    given,           \* the addresses of EitherDialAddr::Addresses
    to_check,        \* addrs_origin, without what was looked up in the back-off
    addrs,           \* the ones that are not in back-off
    rx,              \* the result channel of the attempt: addresses of ended jobs
    waiting,         \* how many results collect_dialing_result still waits for
    sleep,           \* what is left of sleep(BACKOFF_BASE)
    result,          \* of start_dialing
    job,             \* the job tasks, by dial, attempt and address
    outcome,         \* what a job sent
    dial_consuming,
    backoff,         \* entries: <<peer, address>> to tries and until
    cleanup, stale,  \* the clean-up task and its clean_peer_ids
    stats,
    events           \* the SwarmEvents sent

taskVars == <<peer_id, pc, dial_count, given, to_check, addrs, rx, waiting,
              sleep, result>>
jobVars  == <<job, outcome, dial_consuming>>
backVars == <<backoff, cleanup, stale>>
vars == <<taskVars, jobVars, backVars, stats, events>>
-----------------------------------------------------------------------------
(* Data. *)

Counts == 1..(IF Attempts = 0 THEN 1 ELSE Attempts)
JobIds == Dials \X Counts \X Addrs
Jobs(d) == {j \in JobIds : j[1] = d /\ j[2] = dial_count[d]}

\* The result of a job is a muxer, of which only remote_peer matters, or an
\* error; so is the result of start_dialing.
JobErrors == {"transport", "timeout", "limit"}
DialErrors == {"NoAddress", "DialBackoff", "DialNoTransport", "AllDialsFailed",
               "MaxDialAttempts"}
ASSUME PeersAssumption == Peers \cap (JobErrors \cup DialErrors \cup {"none"}) = {}
DialerStats == {"total_attempts", "total_success", "no_address", "no_transport",
                "dialing_backoff", "total_jobs", "dialing_success",
                "dialing_limit", "dialing_timeout", "mismatch_peer_id",
                "transport_error"}

Insert(f, k, v) == [x \in DOMAIN f \cup {k} |-> IF x = k THEN v ELSE f[x]]
MinOf(a, b) == IF a < b THEN a ELSE b
Count(f, n) == stats' = [stats EXCEPT ![f] = @ + n]

\* What the filters of dial_addrs take out.
Filtered == (IF FilterPrivate THEN Private ELSE {})
               \cup (IF FilterLoopback THEN Loopback ELSE {})

Init ==
    /\ peer_id = [d \in {} |-> d]
    /\ pc = [d \in Dials |-> "idle"]
    /\ dial_count = [d \in Dials |-> 1]
    /\ given = [d \in Dials |-> {}]
    /\ to_check = [d \in Dials |-> {}] /\ addrs = [d \in Dials |-> {}]
    /\ rx = [d \in Dials |-> <<>>] /\ waiting = [d \in Dials |-> 0]
    /\ sleep = [d \in Dials |-> 0]
    /\ result = [d \in Dials |-> "none"]
    /\ job = [j \in JobIds |-> "none"] /\ outcome = [j \in JobIds |-> "none"]
    /\ dial_consuming = 0
    /\ backoff = [k \in {} |-> k]
    /\ cleanup = "waiting" /\ stale = {}
    /\ stats = [f \in DialerStats |-> 0]
    /\ events = {}
-----------------------------------------------------------------------------
(* DialBackoff. *)

backoff_time(tries) == MinOf(BackoffBase + BackoffCoef * (tries * tries), BackoffMax)

InBackoff(p, a) == <<p, a>> \in DOMAIN backoff /\ backoff[<<p, a>>].until > 0

add_peer(p, a) ==
    LET k == <<p, a>> IN
    backoff' = IF k \in DOMAIN backoff
               THEN [backoff EXCEPT ![k] = [tries |-> @.tries + 1,
                                            until |-> backoff_time(@.tries)]]
               ELSE Insert(backoff, k, [tries |-> 1, until |-> BackoffBase])

\* The peers of which no entry is good any more.
BackoffPeers == {k[1] : k \in DOMAIN backoff}
ExpiredPeers ==
    {p \in BackoffPeers : \A k \in DOMAIN backoff :
        k[1] = p => backoff[k].until + backoff_time(backoff[k].tries) <= 0}

\* do_cleanup, the first section: clean_peer_ids is computed ...
CleanupScans ==
    /\ cleanup = "waiting" /\ BackoffPeers # {}
    /\ cleanup' = "removing"
    /\ stale' = ExpiredPeers
    /\ UNCHANGED <<taskVars, jobVars, backoff, stats, events>>

\* ... and the second, after the lock was released: they are removed.
CleanupRemoves ==
    /\ cleanup = "removing"
    /\ cleanup' = "waiting"
    /\ stale' = {}
    /\ backoff' = [k \in {x \in DOMAIN backoff : x[1] \notin stale} |-> backoff[k]]
    /\ UNCHANGED <<taskVars, jobVars, stats, events>>

\* Drop for AsyncDialer: the clean-up task finds its channel closed.
DropDialer ==
    /\ cleanup = "waiting"
    /\ cleanup' = "closed"
    /\ UNCHANGED <<taskVars, jobVars, backoff, stale, stats, events>>

\* One unit of time passes; below -BackoffMax an entry does not get any staler.
Tick ==
    LET pass(n, low) == IF n > low THEN n - 1 ELSE n IN
    /\ backoff' = [k \in DOMAIN backoff |->
          [backoff[k] EXCEPT !.until = pass(@, -BackoffMax)]]
    /\ sleep' = [d \in Dials |-> pass(sleep[d], 0)]
    /\ <<backoff, sleep>>' # <<backoff, sleep>>
    /\ UNCHANGED <<peer_id, pc, dial_count, given, to_check, addrs, rx, waiting,
                   result, jobVars, cleanup, stale, stats, events>>
-----------------------------------------------------------------------------
(* The task of a dial. *)

Goto(d, l) == pc' = [pc EXCEPT ![d] = l]

dial(d, p, as) ==
    /\ pc[d] = "idle"
    /\ Goto(d, "resolving")
    /\ peer_id' = Insert(peer_id, d, p)
    /\ given' = [given EXCEPT ![d] = as]
    /\ Count("total_attempts", 1)
    /\ UNCHANGED <<dial_count, to_check, addrs, rx, waiting, sleep, result,
                   jobVars, backVars, events>>

\* The end of an attempt with error e: sleep and try again, or give up.
AttemptFails(d, e) ==
    IF dial_count[d] < Attempts
    THEN /\ Goto(d, "sleeping")
         /\ sleep' = [sleep EXCEPT ![d] = BackoffBase]
         /\ UNCHANGED result
    ELSE /\ Goto(d, "failed")
         /\ result' = [result EXCEPT ![d] = IF Attempts > 1 THEN "MaxDialAttempts"
                                                            ELSE e]
         /\ UNCHANGED sleep

\* dial_addrs up to the back-off check; found is what the routing answers.
ResolveAddrs(d, found) ==
    /\ pc[d] = "resolving"
    /\ Goto(d, "checking")
    /\ to_check' = [to_check EXCEPT ![d] = (IF UseDHT THEN found ELSE given[d])
                                              \ Filtered]
    /\ addrs' = [addrs EXCEPT ![d] = {}]
    /\ UNCHANGED <<peer_id, dial_count, given, rx, waiting, sleep, result,
                   jobVars, backVars, stats, events>>

\* external: routing.find_peer fails.
RoutingFails(d) ==
    /\ pc[d] = "resolving" /\ UseDHT
    /\ Count("no_address", 1)
    /\ AttemptFails(d, "NoAddress")
    /\ UNCHANGED <<peer_id, dial_count, given, to_check, addrs, rx, waiting,
                   jobVars, backVars, events>>

\* One turn of the loop over addrs_origin: find_peer, under the lock.
find_peer(d, a) ==
    /\ pc[d] = "checking" /\ a \in to_check[d]
    /\ to_check' = [to_check EXCEPT ![d] = @ \ {a}]
    /\ addrs' = [addrs EXCEPT ![d] = IF InBackoff(peer_id[d], a) THEN @ ELSE @ \cup {a}]
    /\ UNCHANGED <<peer_id, pc, dial_count, given, rx, waiting, sleep, result,
                   jobVars, backVars, stats, events>>

\* The rest of dial_addrs, when there is nothing to dial ...
NothingToDial(d) ==
    /\ pc[d] = "checking" /\ to_check[d] = {} /\ addrs[d] \subseteq NoTransport
    /\ Count(IF addrs[d] = {} THEN "dialing_backoff" ELSE "no_transport", 1)
    /\ AttemptFails(d, IF addrs[d] = {} THEN "DialBackoff" ELSE "DialNoTransport")
    /\ UNCHANGED <<peer_id, dial_count, given, to_check, addrs, rx, waiting,
                   jobVars, backVars, events>>

\* ... and when a job is spawned for every address with a transport.  The jobs
\* run from now on; they are counted in a step of its own.
SpawnJobs(d) ==
    LET good == addrs[d] \ NoTransport IN
    /\ pc[d] = "checking" /\ to_check[d] = {} /\ good # {}
    /\ Goto(d, "counting")
    /\ job' = [j \in JobIds |-> IF j \in Jobs(d) /\ j[3] \in good THEN "spawned"
                                                                 ELSE job[j]]
    /\ rx' = [rx EXCEPT ![d] = <<>>]
    /\ waiting' = [waiting EXCEPT ![d] = Cardinality(good)]
    /\ UNCHANGED <<peer_id, dial_count, given, to_check, addrs, sleep, result,
                   outcome, dial_consuming, backVars, stats, events>>

CountJobs(d) ==
    /\ pc[d] = "counting"
    /\ Goto(d, "collecting")
    /\ Count("total_jobs", waiting[d])
    /\ UNCHANGED <<peer_id, dial_count, given, to_check, addrs, rx, waiting,
                   sleep, result, jobVars, backVars, events>>

\* Seeded fault: the reported peer id is not verified.
Mismatch_Unverified(d, r) == FALSE

\* The muxer is a connection to somebody else than the peer that was dialed.
Mismatch(d, r) == r \in Peers /\ r # peer_id[d]

\* for i in 0..jobs: the turn is the last.  Seeded fault: one too early.
LastResult_OffByOne(d) == waiting[d] <= 2
LastResult(d) == waiting[d] = 1

\* One turn of collect_dialing_result.
collect_dialing_result(d) ==
    LET a == Head(rx[d])
        r == outcome[<<d, dial_count[d], a>>]
    IN
    /\ pc[d] = "collecting" /\ rx[d] # <<>>
    /\ rx' = [rx EXCEPT ![d] = Tail(@)]
    /\ waiting' = [waiting EXCEPT ![d] = @ - 1]
    /\ IF Mismatch(d, r) \/ r = "transport" THEN add_peer(peer_id[d], a)
                                            ELSE UNCHANGED backoff
    /\ IF Mismatch(d, r) THEN Count("mismatch_peer_id", 1) ELSE UNCHANGED stats
    /\ IF r \in Peers /\ ~Mismatch(d, r)
       THEN /\ Goto(d, "succeeded")
            /\ result' = [result EXCEPT ![d] = r]
            /\ UNCHANGED sleep
       ELSE IF LastResult(d) THEN AttemptFails(d, "AllDialsFailed")
       ELSE UNCHANGED <<pc, result, sleep>>
    /\ UNCHANGED <<peer_id, dial_count, given, to_check, addrs, jobVars, cleanup,
                   stale, events>>

Retry(d) ==
    /\ pc[d] = "sleeping" /\ sleep[d] = 0
    /\ Goto(d, "resolving")
    /\ dial_count' = [dial_count EXCEPT ![d] = @ + 1]
    /\ UNCHANGED <<peer_id, given, to_check, addrs, rx, waiting, sleep, result,
                   jobVars, backVars, stats, events>>

\* The end of the task: the event for the Swarm.
Report(d) ==
    /\ pc[d] \in {"succeeded", "failed"}
    /\ Goto(d, "reported")
    /\ events' = events \cup
          {IF pc[d] = "succeeded"
           THEN [type |-> "ConnectionEstablished", dial |-> d, peer |-> result[d]]
           ELSE [type |-> "OutgoingConnectionError", dial |-> d, peer |-> peer_id[d]]}
    /\ IF pc[d] = "succeeded" THEN Count("total_success", 1) ELSE UNCHANGED stats
    /\ UNCHANGED <<peer_id, dial_count, given, to_check, addrs, rx, waiting,
                   sleep, result, jobVars, backVars>>
-----------------------------------------------------------------------------
(* A job: do_dial_job and execute_dial. *)

\* dj.tx.send: the receiver is gone once collect_dialing_result has returned.
SendResult(j, r) ==
    /\ outcome' = [outcome EXCEPT ![j] = r]
    /\ rx' = IF pc[j[1]] \in {"counting", "collecting"} /\ dial_count[j[1]] = j[2]
             THEN [rx EXCEPT ![j[1]] = Append(@, j[3])] ELSE rx
    /\ UNCHANGED <<peer_id, pc, dial_count, given, to_check, addrs, waiting,
                   sleep, result>>

\* Seeded faults: no result is sent; a token is given back that was not taken.
JobRefused_Silent(j) ==
    /\ job[j] = "spawned" /\ dial_consuming >= DialLimit
    /\ job' = [job EXCEPT ![j] = "done"]
    /\ Count("dialing_limit", 1)
    /\ UNCHANGED <<taskVars, outcome, dial_consuming, backVars, events>>

JobRefused_Releases(j) ==
    /\ job[j] = "spawned" /\ dial_consuming >= DialLimit
    /\ job' = [job EXCEPT ![j] = "done"]
    /\ SendResult(j, "limit")
    /\ Count("dialing_limit", 1)
    /\ dial_consuming' = dial_consuming - 1
    /\ UNCHANGED <<backVars, events>>

\* dial_consuming.load() >= dial_limit: no token.
JobRefused(j) ==
    /\ job[j] = "spawned" /\ dial_consuming >= DialLimit
    /\ job' = [job EXCEPT ![j] = "done"]
    /\ SendResult(j, "limit")
    /\ Count("dialing_limit", 1)
    /\ UNCHANGED <<dial_consuming, backVars, events>>

JobAdmitted(j) ==
    /\ job[j] = "spawned" /\ dial_consuming < DialLimit
    /\ job' = [job EXCEPT ![j] = "admitted"]
    /\ UNCHANGED <<taskVars, outcome, dial_consuming, backVars, stats, events>>

\* fetch_add, in a step of its own.
JobTakesToken(j) ==
    /\ job[j] = "admitted"
    /\ job' = [job EXCEPT ![j] = "dialing"]
    /\ dial_consuming' = dial_consuming + 1
    /\ UNCHANGED <<taskVars, outcome, backVars, stats, events>>

\* external: transport.dial gives a muxer or an error, or the timeout fires.
JobDials(j, r) ==
    /\ job[j] = "dialing"
    /\ job' = [job EXCEPT ![j] = "sent"]
    /\ SendResult(j, r)
    /\ Count(CASE r \in Peers -> "dialing_success"
               [] r = "transport" -> "transport_error"
               [] OTHER -> "dialing_timeout", 1)
    /\ UNCHANGED <<dial_consuming, backVars, events>>

JobReleasesToken(j) ==
    /\ job[j] = "sent"
    /\ job' = [job EXCEPT ![j] = "done"]
    /\ dial_consuming' = dial_consuming - 1
    /\ UNCHANGED <<taskVars, outcome, backVars, stats, events>>
-----------------------------------------------------------------------------
DialTask(d) ==
    \/ \E found \in (IF UseDHT THEN SUBSET Addrs ELSE {{}}) : ResolveAddrs(d, found)
    \/ RoutingFails(d)
    \/ \E a \in Addrs : find_peer(d, a)
    \/ NothingToDial(d) \/ SpawnJobs(d) \/ CountJobs(d)
    \/ collect_dialing_result(d)
    \/ Retry(d) \/ Report(d)

Job(j) ==
    \/ JobRefused(j) \/ JobAdmitted(j) \/ JobTakesToken(j)
    \/ \E r \in Peers \cup {"transport", "timeout"} : JobDials(j, r)
    \/ JobReleasesToken(j)

Next ==
    \/ \E d \in Dials, p \in Peers :
          \E as \in (IF UseDHT THEN {{}} ELSE SUBSET Addrs) : dial(d, p, as)
    \/ \E d \in Dials : DialTask(d)
    \/ \E j \in JobIds : Job(j)
    \/ Tick \/ CleanupScans \/ CleanupRemoves \/ DropDialer

Spec == Init /\ [][Next]_vars

\* Every spawned task is polled when it is woken, task::timeout ends every
\* transport.dial, the routing answers, and time passes.
Fairness == /\ \A d \in Dials : WF_vars(DialTask(d))
            /\ \A j \in JobIds : WF_vars(Job(j))
            /\ WF_vars(Tick)

FairSpec == Spec /\ Fairness
-----------------------------------------------------------------------------
(* Properties. *)

Holding == {j \in JobIds : job[j] \in {"dialing", "sent"}}
Live(d) == {j \in Jobs(d) : job[j] \in {"spawned", "admitted", "dialing"}}

\* Every variable stays in its type; the maps are partial functions.
TypeOK ==
    /\ peer_id \in [DOMAIN peer_id -> Peers] /\ DOMAIN peer_id \subseteq Dials
    /\ pc \in [Dials -> {"idle", "resolving", "checking", "counting",
                         "collecting", "sleeping", "succeeded", "failed", "reported"}]
    /\ dial_count \in [Dials -> Counts]
    /\ given \in [Dials -> SUBSET Addrs]
    /\ to_check \in [Dials -> SUBSET Addrs] /\ addrs \in [Dials -> SUBSET Addrs]
    /\ rx \in [Dials -> Seq(Addrs)] /\ waiting \in [Dials -> Nat]
    /\ sleep \in [Dials -> 0..BackoffBase]
    /\ result \in [Dials -> {"none"} \cup Peers \cup DialErrors]
    /\ job \in [JobIds -> {"none", "spawned", "admitted", "dialing", "sent", "done"}]
    /\ outcome \in [JobIds -> {"none"} \cup Peers \cup JobErrors]
    /\ dial_consuming \in Int
    /\ backoff \in [DOMAIN backoff -> [tries : Nat \ {0},
                                       until : -BackoffMax..BackoffMax]]
    /\ DOMAIN backoff \subseteq Peers \X Addrs
    /\ cleanup \in {"waiting", "removing", "closed"} /\ stale \subseteq Peers
    /\ stats \in [DialerStats -> Nat]
    /\ events \subseteq [type : {"ConnectionEstablished", "OutgoingConnectionError"},
                         dial : Dials, peer : Peers]

\* Tokens are neither leaked nor given back twice, on any path through
\* execute_dial: the counter of the limiter is the number of jobs that hold one.
TokensMatchJobs == dial_consuming = Cardinality(Holding)

\* collect_dialing_result never waits for a result that will not come (tx is
\* still alive in dial_addrs, so rx would never yield None), and never leaves
\* one of its own behind when it gives up: what it waits for is what is in
\* the channel and what the jobs of this attempt have yet to send.
CollectorIsServed ==
    \A d \in Dials : pc[d] \in {"counting", "collecting"} =>
        /\ waiting[d] > 0
        /\ waiting[d] = Len(rx[d]) + Cardinality(Live(d))

\* An attempt gives up only after every job it spawned has ended, and none of
\* them with a connection to the peer: a good muxer is never thrown away for an
\* error, however the results are ordered.
NoGoodMuxerLost ==
    \A d \in Dials :
        pc[d] \in {"failed", "sleeping"} =>
            \A j \in Jobs(d) :
                job[j] # "none" => outcome[j] \notin {"none", peer_id[d]}

Uncounted == {j \in JobIds : pc[j[1]] = "counting" /\ j \in Jobs(j[1])
                               /\ job[j] # "none"}

\* The counters of DialerStatsView add up whatever the jobs are doing: every
\* job is live or counted by how it ended, total_jobs only misses the ones that
\* were spawned a moment ago, and mismatch_peer_id is "counted into
\* dialing_success".
StatsAddUp ==
    /\ stats["total_jobs"] + Cardinality(Uncounted) =
          stats["dialing_success"] + stats["dialing_limit"]
             + stats["dialing_timeout"] + stats["transport_error"]
             + Cardinality({j \in JobIds :
                              job[j] \in {"spawned", "admitted", "dialing"}})
    /\ stats["mismatch_peer_id"] + stats["total_success"] <= stats["dialing_success"]

\* The results that dial_addrs collects are all there: the collector waits for exactly what
\* will come, no good muxer is lost among them, and the counters know each of them once.
ResultsAccounted == CollectorIsServed /\ NoGoodMuxerLost /\ StatsAddUp

\* The dialer does what the Swarm relies on (module DialService).
Service == INSTANCE DialService WITH wanted <- peer_id
ImplementsDialService == Service!Spec

\* Every dial is reported in the end, so no caller of connect waits for ever.
DialsEnd == \A d \in Dials : pc[d] = "resolving" ~> pc[d] = "reported"
=============================================================================
