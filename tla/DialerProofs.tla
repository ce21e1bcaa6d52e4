---------------------------- MODULE DialerProofs ----------------------------
(***************************************************************************)
(* What holds of Dialer for every set of dials, peers and addresses and    *)
(* for every configuration: it implements DialService, the counter of the  *)
(* DialLimiter is the number of jobs that hold a token, and no result of a *)
(* job is lost or miscounted.                                              *)
(***************************************************************************)
EXTENDS Dialer, FiniteSetTheorems, TLAPS

\* The control states of a dial, and the results of start_dialing.
Labels == {"idle", "resolving", "checking", "counting", "collecting", "sleeping",
           "succeeded", "failed", "reported"}
Results == {"none"} \cup Peers \cup DialErrors

\* The types the arguments below need.
TaskTypes == /\ pc \in [Dials -> Labels]
             /\ dial_count \in [Dials -> Nat]
             /\ result \in [Dials -> Results]

\* What a step of the task of d does to that task; the other tasks rest.
TaskEffect(d) ==
    /\ TaskTypes'
    /\ UNCHANGED peer_id
    /\ \A x \in Dials \ {d} : /\ pc'[x] = pc[x] /\ result'[x] = result[x]
                              /\ dial_count'[x] = dial_count[x]
    /\ pc[d] # "idle" /\ pc'[d] # "idle" /\ pc[d] # "reported"
    /\ pc'[d] = "succeeded" => result'[d] = peer_id[d]
    /\ UNCHANGED events \/ Report(d)

\* dial_count counts the attempts from 1.
LEMMA CountsNat == Counts \subseteq Nat /\ 1 \in Counts
  BY ConfigAssumption DEF Counts

\* A failed attempt ends in "sleeping" or "failed".
LEMMA FailsTypes ==
    ASSUME TaskTypes, NEW d \in Dials, NEW e \in DialErrors, AttemptFails(d, e)
    PROVE  /\ pc' \in [Dials -> Labels] /\ pc'[d] \in {"sleeping", "failed"}
           /\ \A x \in Dials \ {d} : pc'[x] = pc[x]
           /\ result' \in [Dials -> Results]
           /\ \A x \in Dials \ {d} : result'[x] = result[x]
  <1>1. CASE dial_count[d] < Attempts
    BY <1>1 DEF AttemptFails, Goto, TaskTypes, Labels
  <1>2. CASE ~(dial_count[d] < Attempts)
    <2>1. (IF Attempts > 1 THEN "MaxDialAttempts" ELSE e) \in Results
      BY DEF Results, DialErrors
    <2> QED
      BY <1>2, <2>1 DEF AttemptFails, Goto, TaskTypes, Labels
  <1> QED
    BY <1>1, <1>2

\* The errors start_dialing itself returns.
LEMMA ErrorNames ==
    /\ "NoAddress" \in DialErrors /\ "DialBackoff" \in DialErrors
    /\ "DialNoTransport" \in DialErrors /\ "AllDialsFailed" \in DialErrors
  BY DEF DialErrors

\* What each step of a dial task does, as TaskEffect says it.
LEMMA TaskStep ==
    ASSUME TaskTypes, NEW d \in Dials, DialTask(d),
           pc[d] = "succeeded" => result[d] = peer_id[d]
    PROVE  TaskEffect(d)
  <1>1. ASSUME NEW found, ResolveAddrs(d, found) PROVE TaskEffect(d)
    BY <1>1 DEF ResolveAddrs, Goto, TaskEffect, TaskTypes, Labels
  <1>2. ASSUME RoutingFails(d) PROVE TaskEffect(d)
    BY <1>2, FailsTypes, ErrorNames DEF RoutingFails, TaskEffect, TaskTypes
  <1>3. ASSUME NEW a \in Addrs, find_peer(d, a) PROVE TaskEffect(d)
    BY <1>3 DEF find_peer, TaskEffect, TaskTypes
  <1>4. ASSUME NothingToDial(d) PROVE TaskEffect(d)
    BY <1>4, FailsTypes, ErrorNames DEF NothingToDial, TaskEffect, TaskTypes
  <1>5. ASSUME SpawnJobs(d) PROVE TaskEffect(d)
    BY <1>5 DEF SpawnJobs, Goto, TaskEffect, TaskTypes, Labels
  <1>6. ASSUME CountJobs(d) PROVE TaskEffect(d)
    BY <1>6 DEF CountJobs, Goto, TaskEffect, TaskTypes, Labels
  <1>7. ASSUME collect_dialing_result(d) PROVE TaskEffect(d)
    <2> DEFINE r == outcome[<<d, dial_count[d], Head(rx[d])>>]
    <2>1. /\ pc[d] = "collecting"
          /\ UNCHANGED <<peer_id, dial_count, events>>
      BY <1>7 DEF collect_dialing_result
    <2>2. CASE r \in Peers /\ ~Mismatch(d, r)
      <3>1. Goto(d, "succeeded") /\ result' = [result EXCEPT ![d] = r]
        BY <1>7, <2>2 DEF collect_dialing_result
      <3>2. r = peer_id[d] /\ r \in Results
        BY <2>2 DEF Mismatch, Results
      <3> QED
        BY <2>1, <3>1, <3>2 DEF Goto, TaskEffect, TaskTypes, Labels
    <2>3. CASE ~(r \in Peers /\ ~Mismatch(d, r)) /\ LastResult(d)
      <3>1. AttemptFails(d, "AllDialsFailed")
        BY <1>7, <2>3 DEF collect_dialing_result
      <3> QED
        BY <2>1, <3>1, FailsTypes, ErrorNames DEF TaskEffect, TaskTypes
    <2>4. CASE ~(r \in Peers /\ ~Mismatch(d, r)) /\ ~LastResult(d)
      <3>1. UNCHANGED <<pc, result>>
        BY <1>7, <2>4 DEF collect_dialing_result
      <3> QED
        BY <2>1, <3>1 DEF TaskEffect, TaskTypes
    <2> QED
      BY <2>2, <2>3, <2>4
  <1>8. ASSUME Retry(d) PROVE TaskEffect(d)
    BY <1>8 DEF Retry, Goto, TaskEffect, TaskTypes, Labels
  <1>9. ASSUME Report(d) PROVE TaskEffect(d)
    BY <1>9 DEF Report, Goto, TaskEffect, TaskTypes, Labels
  <1> QED
    BY <1>1, <1>2, <1>3, <1>4, <1>5, <1>6, <1>7, <1>8, <1>9, Zenon DEF DialTask
-----------------------------------------------------------------------------
(***************************************************************************)
(* The refinement.  A dial has a peer once it is called, a success is a    *)
(* connection to that peer, and whoever sent an event sends no other.      *)
(***************************************************************************)
RefInv ==
    /\ TaskTypes
    /\ \A d \in Dials : d \in DOMAIN peer_id <=> pc[d] # "idle"
    /\ \A d \in Dials : pc[d] = "succeeded" => result[d] = peer_id[d]
    /\ \A e \in events : e.dial \in Dials /\ pc[e.dial] = "reported"

\* The steps that concern neither a dial's task nor its events.
LEMMA RefKept ==
    ASSUME RefInv, UNCHANGED <<pc, dial_count, result, peer_id, events>>
    PROVE  RefInv'
  BY DEF RefInv, TaskTypes

\* The refinement invariant holds before the first dial.
LEMMA RefInit == Init => RefInv
  <1> SUFFICES ASSUME Init PROVE RefInv
    OBVIOUS
  <1>1. TaskTypes
    BY CountsNat DEF Init, TaskTypes, Labels, Results
  <1> QED
    BY <1>1 DEF Init, RefInv

\* A job only touches the limiter, its own state and the channel to its dial.
LEMMA JobKeepsTasks ==
    ASSUME NEW j \in JobIds, Job(j)
    PROVE  UNCHANGED <<pc, dial_count, result, peer_id, events>>
  BY DEF Job, JobRefused, JobAdmitted, JobTakesToken, JobDials, JobReleasesToken,
         SendResult, taskVars

\* The event at the end of a dial is the one Send of the service.
LEMMA ReportSends ==
    ASSUME RefInv, NEW d \in Dials, Report(d), UNCHANGED peer_id
    PROVE  \/ Service!Send(d, "ConnectionEstablished")
           \/ Service!Send(d, "OutgoingConnectionError")
  <1>1. pc[d] # "reported" /\ d \in DOMAIN peer_id
    BY DEF Report, RefInv
  <1>2. Service!Open(d)
    BY <1>1 DEF Service!Open, RefInv
  <1>3. CASE pc[d] = "succeeded"
    BY <1>2, <1>3 DEF Report, RefInv, Service!Send
  <1>4. CASE pc[d] # "succeeded"
    BY <1>2, <1>4 DEF Report, Service!Send
  <1> QED
    BY <1>3, <1>4

\* Every step keeps RefInv, and is a step or a stutter of the service.
LEMMA RefNext == RefInv /\ [Next]_vars => RefInv' /\ [Service!Next]_Service!vars
  <1> SUFFICES ASSUME RefInv, [Next]_vars
               PROVE  RefInv' /\ [Service!Next]_Service!vars
    OBVIOUS
  <1> USE DEF Service!vars
  <1>1. ASSUME NEW d \in Dials, NEW p \in Peers, NEW as, dial(d, p, as)
        PROVE  RefInv' /\ Service!Next
    <2>1. /\ pc[d] = "idle" /\ d \notin DOMAIN peer_id
          /\ pc' = [pc EXCEPT ![d] = "resolving"]
          /\ peer_id' = Insert(peer_id, d, p)
          /\ UNCHANGED <<dial_count, result, events>>
      BY <1>1 DEF dial, Goto, RefInv
    <2>2. Service!dial(d, p)
      BY <2>1 DEF Service!dial, Insert
    <2>3. /\ DOMAIN peer_id' = DOMAIN peer_id \cup {d}
          /\ \A x \in DOMAIN peer_id : peer_id'[x] = peer_id[x]
      BY <2>1 DEF Insert
    <2>4. TaskTypes'
      BY <2>1 DEF RefInv, TaskTypes, Labels
    <2>5. \A x \in Dials : pc'[x] = IF x = d THEN "resolving" ELSE pc[x]
      BY <2>1 DEF RefInv, TaskTypes
    <2>6. RefInv'
      BY <2>1, <2>3, <2>4, <2>5 DEF RefInv
    <2> QED
      BY <2>2, <2>6 DEF Service!Next
  <1>2. ASSUME NEW d \in Dials, DialTask(d)
        PROVE  RefInv' /\ [Service!Next]_Service!vars
    <2>1. TaskEffect(d)
      BY <1>2, TaskStep DEF RefInv
    <2>2. CASE UNCHANGED events
      BY <2>1, <2>2 DEF RefInv, TaskEffect
    <2>3. CASE Report(d)
      <3>1. Service!Next
        BY <2>1, <2>3, ReportSends DEF TaskEffect, Service!Next
      <3>2. pc'[d] = "reported" /\ \A e \in events' : e \in events \/ e.dial = d
        BY <2>3 DEF Report, Goto, RefInv, TaskTypes
      <3>3. RefInv'
        BY <2>1, <3>2 DEF RefInv, TaskEffect
      <3> QED
        BY <3>1, <3>3
    <2> QED
      BY <2>1, <2>2, <2>3 DEF TaskEffect
  <1>3. ASSUME NEW j \in JobIds, Job(j) PROVE RefInv' /\ UNCHANGED Service!vars
    BY <1>3, JobKeepsTasks, RefKept
  <1>4. ASSUME Tick \/ CleanupScans \/ CleanupRemoves \/ DropDialer \/ UNCHANGED vars
        PROVE  RefInv' /\ UNCHANGED Service!vars
    <2>1. UNCHANGED <<pc, dial_count, result, peer_id, events>>
      BY <1>4 DEF Tick, CleanupScans, CleanupRemoves, DropDialer, vars, taskVars
    <2> QED
      BY <2>1, RefKept
  <1> QED
    BY <1>1, <1>2, <1>3, <1>4, Zenon DEF Next

\* For every set of dials and peers and every configuration, dial.rs does what
\* the Swarm relies on: a dial sends at most one event, and a
\* ConnectionEstablished is for a connection to the peer that was asked for.
THEOREM DialerImplementsDialService == Spec => ImplementsDialService
  <1>1. Init => Service!Init
    BY DEF Init, Service!Init
  <1> QED
    BY <1>1, RefInit, RefNext, PTL DEF Spec, ImplementsDialService, Service!Spec
-----------------------------------------------------------------------------
(***************************************************************************)
(* The tokens.  Every job is spawned once: the jobs of the attempts to     *)
(* come, and those of an attempt that has not spawned yet, do not exist.   *)
(***************************************************************************)
Unspawned == {"idle", "resolving", "checking"}
JobStates == {"none", "spawned", "admitted", "dialing", "sent", "done"}

JobInv ==
    /\ job \in [JobIds -> JobStates]
    /\ \A j \in JobIds : j[2] > dial_count[j[1]] => job[j] = "none"
    /\ \A j \in JobIds : j[2] = dial_count[j[1]] /\ pc[j[1]] \in Unspawned
                            => job[j] = "none"

\* A job belongs to a dial and to one of its attempts.
LEMMA JobParts == \A j \in JobIds : j[1] \in Dials /\ j[2] \in Nat
  BY CountsNat DEF JobIds

\* There are finitely many jobs, so they can be counted.
LEMMA JobsFinite ==
    ASSUME NEW S, S \subseteq JobIds
    PROVE  IsFiniteSet(S) /\ Cardinality(S) \in Nat
  <1> DEFINE Pairs == (Dials \X Counts) \X Addrs
             f == [x \in Pairs |-> <<x[1][1], x[1][2], x[2]>>]
  <1>1. IsFiniteSet(Counts)
    BY ConfigAssumption, FS_Interval DEF Counts
  <1>2. IsFiniteSet(Pairs)
    BY <1>1, FS_Product, AddrsAssumption
  <1>3. f \in [Pairs -> JobIds]
    BY DEF JobIds
  <1>4. ASSUME NEW j \in JobIds PROVE \E x \in Pairs : f[x] = j
    <2>1. PICK d \in Dials, n \in Counts, a \in Addrs : j = <<d, n, a>>
      BY DEF JobIds
    <2>2. <<<<d, n>>, a>> \in Pairs /\ f[<<<<d, n>>, a>>] = j
      BY <2>1
    <2> QED
      BY <2>2
  <1> HIDE DEF Pairs, f
  <1>5. f \in Surjection(Pairs, JobIds)
    BY <1>3, <1>4 DEF Surjection
  <1>6. IsFiniteSet(JobIds)
    BY <1>2, <1>5, FS_Surjection
  <1> QED
    BY <1>6, FS_Subset, FS_CardinalityType

\* Those that hold a token.
LEMMA HoldingFinite == IsFiniteSet(Holding) /\ Cardinality(Holding) \in Nat
  BY JobsFinite DEF Holding

\* A step that moves no job, in a task that does not start over.
LEMMA JobKept ==
    ASSUME JobInv, UNCHANGED <<job, dial_count>>,
           \A d \in Dials : pc'[d] \in Unspawned => pc[d] \in Unspawned
    PROVE  JobInv'
  BY JobParts DEF JobInv

\* SpawnJobs only starts jobs that never ran.
LEMMA JobInvNext == RefInv /\ JobInv /\ [Next]_vars => JobInv'
  <1> SUFFICES ASSUME RefInv, JobInv PROVE [Next]_vars => JobInv'
    OBVIOUS
  <1> USE DEF Unspawned, Goto
  <1>0. TaskTypes
    BY DEF RefInv
  <1>1. ASSUME NEW d \in Dials, NEW p, NEW as, dial(d, p, as) PROVE JobInv'
    BY <1>0, <1>1, JobKept DEF dial, jobVars, TaskTypes
  <1>2. ASSUME NEW d \in Dials, DialTask(d) PROVE JobInv'
    <2>0. TaskEffect(d)
      BY <1>2, TaskStep DEF RefInv
    <2>1. ASSUME NEW found, ResolveAddrs(d, found) PROVE JobInv'
      BY <1>0, <2>1, JobKept DEF ResolveAddrs, jobVars, TaskTypes
    <2>2. ASSUME NEW a \in Addrs, find_peer(d, a) PROVE JobInv'
      BY <2>2, JobKept DEF find_peer, jobVars
    <2>3. ASSUME RoutingFails(d) \/ NothingToDial(d) PROVE JobInv'
      <3>1. PICK e \in DialErrors : AttemptFails(d, e)
        BY <2>3, ErrorNames DEF RoutingFails, NothingToDial
      <3>2. /\ pc'[d] \in {"sleeping", "failed"}
            /\ \A x \in Dials \ {d} : pc'[x] = pc[x]
        BY <1>0, <3>1, FailsTypes
      <3>3. UNCHANGED <<job, dial_count>>
        BY <2>3 DEF RoutingFails, NothingToDial, jobVars
      <3> QED
        BY <3>2, <3>3, JobKept
    <2>4. ASSUME SpawnJobs(d) PROVE JobInv'
      <3>1. /\ UNCHANGED dial_count /\ pc'[d] = "counting"
            /\ \A x \in Dials \ {d} : pc'[x] = pc[x]
            /\ job' \in [JobIds -> JobStates]
            /\ \A j \in JobIds : j \notin Jobs(d) => job'[j] = job[j]
        BY <1>0, <2>4 DEF SpawnJobs, JobInv, JobStates, TaskTypes
      <3>2. \A j \in JobIds : j \in Jobs(d) => j[1] = d /\ j[2] = dial_count[d]
        BY DEF Jobs
      <3> QED
        BY <1>0, <3>1, <3>2, JobParts DEF JobInv, TaskTypes
    <2>5. ASSUME CountJobs(d) \/ Report(d) PROVE JobInv'
      BY <1>0, <2>5, JobKept DEF CountJobs, Report, jobVars, TaskTypes
    <2>6. ASSUME collect_dialing_result(d) PROVE JobInv'
      <3>1. UNCHANGED <<job, dial_count>>
        BY <2>6 DEF collect_dialing_result, jobVars
      <3>2. pc'[d] \notin Unspawned
        <4>1. pc[d] = "collecting"
          BY <2>6 DEF collect_dialing_result
        <4>2. \/ Goto(d, "succeeded") \/ AttemptFails(d, "AllDialsFailed")
              \/ UNCHANGED pc
          BY <2>6, Zenon DEF collect_dialing_result
        <4> QED
          BY <1>0, <4>1, <4>2, FailsTypes, ErrorNames DEF TaskTypes
      <3> QED
        BY <2>0, <3>1, <3>2, JobKept DEF TaskEffect
    <2>7. ASSUME Retry(d) PROVE JobInv'
      <3>1. /\ UNCHANGED job
            /\ pc'[d] = "resolving" /\ dial_count'[d] = dial_count[d] + 1
            /\ \A x \in Dials \ {d} : /\ pc'[x] = pc[x]
                                      /\ dial_count'[x] = dial_count[x]
            /\ dial_count[d] \in Nat
        BY <1>0, <2>7 DEF Retry, TaskTypes, jobVars
      <3> QED
        BY <3>1, JobParts DEF JobInv
    <2> QED
      BY <1>2, <2>1, <2>2, <2>3, <2>4, <2>5, <2>6, <2>7, Zenon DEF DialTask
  <1>3. ASSUME NEW j \in JobIds, Job(j) PROVE JobInv'
    <2>1. UNCHANGED <<pc, dial_count>>
      BY <1>3, JobKeepsTasks
    <2>2. /\ job[j] # "none"
          /\ \E s \in JobStates : job' = [job EXCEPT ![j] = s]
      BY <1>3 DEF Job, JobRefused, JobAdmitted, JobTakesToken, JobDials,
                  JobReleasesToken, JobStates
    <2> QED
      BY <2>1, <2>2 DEF JobInv
  <1>4. ASSUME Tick \/ CleanupScans \/ CleanupRemoves \/ DropDialer \/ UNCHANGED vars
        PROVE  JobInv'
    BY <1>4, JobKept DEF Tick, CleanupScans, CleanupRemoves, DropDialer, vars,
                         taskVars, jobVars
  <1> QED
    BY <1>1, <1>2, <1>3, <1>4, Zenon DEF Next

\* Only taking and giving back a token moves the counter, by one as the jobs do.
LEMMA TokensNext ==
    RefInv /\ JobInv /\ TokensMatchJobs /\ [Next]_vars => TokensMatchJobs'
  <1> SUFFICES ASSUME RefInv, JobInv, TokensMatchJobs
               PROVE  [Next]_vars => TokensMatchJobs'
    OBVIOUS
  <1>0. IsFiniteSet(Holding) /\ Cardinality(Holding) \in Nat
    BY HoldingFinite
  <1>1. ASSUME UNCHANGED dial_consuming, Holding' = Holding PROVE TokensMatchJobs'
    BY <1>1 DEF TokensMatchJobs
  <1>2. ASSUME NEW j \in JobIds, JobTakesToken(j) PROVE TokensMatchJobs'
    <2>1. Holding' = Holding \cup {j} /\ j \notin Holding
      BY <1>2 DEF JobTakesToken, Holding, JobInv, JobStates
    <2>2. Cardinality(Holding') = Cardinality(Holding) + 1
      BY <1>0, <2>1, FS_AddElement
    <2> QED
      BY <1>2, <2>2 DEF JobTakesToken, TokensMatchJobs
  <1>3. ASSUME NEW j \in JobIds, JobReleasesToken(j) PROVE TokensMatchJobs'
    <2>1. Holding' = Holding \ {j} /\ j \in Holding
      BY <1>3 DEF JobReleasesToken, Holding, JobInv, JobStates
    <2>2. Cardinality(Holding') = Cardinality(Holding) - 1
      BY <1>0, <2>1, FS_RemoveElement
    <2> QED
      BY <1>3, <2>2 DEF JobReleasesToken, TokensMatchJobs
  <1>4. ASSUME NEW j \in JobIds,
               \/ JobRefused(j) \/ JobAdmitted(j)
               \/ \E r \in Peers \cup {"transport", "timeout"} : JobDials(j, r)
        PROVE  TokensMatchJobs'
    <2>1. UNCHANGED dial_consuming
      BY <1>4 DEF JobRefused, JobAdmitted, JobDials
    <2>2. \/ job[j] = "spawned" /\ job' = [job EXCEPT ![j] = "done"]
          \/ job[j] = "spawned" /\ job' = [job EXCEPT ![j] = "admitted"]
          \/ job[j] = "dialing" /\ job' = [job EXCEPT ![j] = "sent"]
      BY <1>4 DEF JobRefused, JobAdmitted, JobDials
    <2>3. Holding' = Holding
      BY <2>2 DEF Holding, JobInv, JobStates
    <2> QED
      BY <1>1, <2>1, <2>3
  <1>5. ASSUME NEW d \in Dials, SpawnJobs(d) PROVE TokensMatchJobs'
    <2>1. \A j \in Jobs(d) : j \in JobIds /\ job[j] = "none"
      BY <1>5 DEF SpawnJobs, Jobs, JobInv, Unspawned
    <2>2. \A j \in JobIds : \/ job'[j] = job[j]
                            \/ job'[j] = "spawned" /\ job[j] = "none"
      BY <1>5, <2>1 DEF SpawnJobs
    <2>3. Holding' = Holding
      BY <2>2 DEF Holding
    <2> QED
      BY <1>1, <1>5, <2>3 DEF SpawnJobs
  <1>6. ASSUME UNCHANGED <<job, dial_consuming>> PROVE TokensMatchJobs'
    BY <1>1, <1>6 DEF Holding
  <1>7. ASSUME NEW d \in Dials, DialTask(d) PROVE TokensMatchJobs'
    <2>1. SpawnJobs(d) \/ UNCHANGED <<job, dial_consuming>>
      BY <1>7 DEF DialTask, ResolveAddrs, RoutingFails, find_peer, NothingToDial,
         CountJobs, collect_dialing_result, Retry, Report, jobVars
    <2> QED
      BY <1>5, <1>6, <2>1
  <1>8. ASSUME Tick \/ CleanupScans \/ CleanupRemoves \/ DropDialer \/ UNCHANGED vars
        PROVE  TokensMatchJobs'
    BY <1>6, <1>8 DEF Tick, CleanupScans, CleanupRemoves, DropDialer, vars, jobVars
  <1>9. ASSUME NEW d \in Dials, NEW p, NEW as, dial(d, p, as) PROVE TokensMatchJobs'
    BY <1>6, <1>9 DEF dial, jobVars
  <1> QED
    BY <1>2, <1>3, <1>4, <1>7, <1>8, <1>9, Zenon DEF Next, Job

\* For every configuration, whatever mix of refusals, timeouts and errors the
\* jobs of all the dials meet, the counter of the DialLimiter is the number of
\* jobs that hold a token: it never wraps below zero and no token is lost.
THEOREM DialTokensMatchJobs == Spec => []TokensMatchJobs
  <1> DEFINE IInv == RefInv /\ JobInv /\ TokensMatchJobs
  <1>1. Init => IInv
    <2> SUFFICES ASSUME Init PROVE JobInv /\ TokensMatchJobs
      BY RefInit
    <2>1. JobInv
      BY DEF Init, JobInv, JobStates
    <2>2. Holding = {} /\ dial_consuming = 0
      BY DEF Init, Holding
    <2> QED
      BY <2>1, <2>2, FS_EmptySet DEF TokensMatchJobs
  <1>2. IInv /\ [Next]_vars => IInv'
    BY RefNext, JobInvNext, TokensNext
  <1> QED
    BY <1>1, <1>2, PTL DEF Spec
-----------------------------------------------------------------------------
(***************************************************************************)
(* The results.  While a dial collects, every job of its attempt is live,  *)
(* in the channel, or was collected and was no good; the counters follow   *)
(* the jobs from their spawning to the way they ended.                     *)
(***************************************************************************)
LiveStates == {"spawned", "admitted", "dialing"}
EndStates == {"sent", "done"}
Collecting == {"counting", "collecting"}
Outcomes == {"none"} \cup Peers \cup JobErrors

ChannelTypes ==
    /\ dial_count \in [Dials -> Counts]
    /\ given \in [Dials -> SUBSET Addrs]
    /\ to_check \in [Dials -> SUBSET Addrs] /\ addrs \in [Dials -> SUBSET Addrs]
    /\ rx \in [Dials -> Seq(Addrs)] /\ waiting \in [Dials -> Nat]
    /\ outcome \in [JobIds -> Outcomes]
    /\ stats \in [DialerStats -> Nat]
    /\ \A d \in DOMAIN peer_id : peer_id[d] \in Peers
    /\ \A d \in Dials : pc[d] = "sleeping" => dial_count[d] < Attempts

\* A job has an outcome once it has ended.
OutcomeInv == \A j \in JobIds : job[j] \in EndStates <=> outcome[j] # "none"

SpawnedOf(d) == {j \in Jobs(d) : job[j] # "none"}

\* The address of a job is in the channel.
InChannel(d, a) == \E i \in DOMAIN rx[d] : rx[d][i] = a

Served(d) ==
    /\ waiting[d] > 0
    /\ waiting[d] = Len(rx[d]) + Cardinality(Live(d))
    /\ pc[d] = "counting" => waiting[d] = Cardinality(SpawnedOf(d))
    /\ \A i, k \in DOMAIN rx[d] : rx[d][i] = rx[d][k] => i = k
    /\ \A i \in DOMAIN rx[d] : job[<<d, dial_count[d], rx[d][i]>>] \in EndStates
    /\ \A j \in Jobs(d) : job[j] \in EndStates
          => InChannel(d, j[3]) \/ outcome[j] # peer_id[d]
ChannelInv == \A d \in Dials : pc[d] \in Collecting => Served(d)

LiveJobs == {j \in JobIds : job[j] \in LiveStates}

\* Connections that nobody has looked at yet, and those that are not counted yet.
Pending == {j \in JobIds : /\ outcome[j] \in Peers /\ j[2] = dial_count[j[1]]
                           /\ pc[j[1]] \in Collecting /\ InChannel(j[1], j[3])}
Unreported == {d \in Dials : pc[d] = "succeeded"}
SuccessInv ==
    stats["mismatch_peer_id"] + stats["total_success"] + Cardinality(Unreported)
       + Cardinality(Pending) <= stats["dialing_success"]

CountInv ==
    stats["total_jobs"] + Cardinality(Uncounted) =
       stats["dialing_success"] + stats["dialing_limit"] + stats["dialing_timeout"]
          + stats["transport_error"] + Cardinality(LiveJobs)

ResultInv ==
    /\ ChannelTypes /\ OutcomeInv /\ ChannelInv /\ NoGoodMuxerLost
    /\ CountInv /\ SuccessInv

\* A job is a dial, an attempt and an address.
LEMMA JobIs ==
    /\ \A j \in JobIds : /\ j = <<j[1], j[2], j[3]>>
                         /\ j[1] \in Dials /\ j[2] \in Counts /\ j[3] \in Addrs
    /\ \A d \in Dials, n \in Counts, a \in Addrs : <<d, n, a>> \in JobIds
  BY DEF JobIds

LEMMA JobsAre ==
    ASSUME NEW d
    PROVE  \A j : j \in Jobs(d) <=> j \in JobIds /\ j[1] = d /\ j[2] = dial_count[d]
  BY DEF Jobs

\* The parts of the sums.
LEMMA SumTypes ==
    ASSUME ChannelTypes
    PROVE  /\ IsFiniteSet(Uncounted) /\ Cardinality(Uncounted) \in Nat
           /\ IsFiniteSet(LiveJobs) /\ Cardinality(LiveJobs) \in Nat
           /\ IsFiniteSet(Pending) /\ Cardinality(Pending) \in Nat
           /\ IsFiniteSet(Unreported) /\ Cardinality(Unreported) \in Nat
           /\ \A f \in DialerStats : stats[f] \in Nat
  <1>1. Uncounted \subseteq JobIds /\ LiveJobs \subseteq JobIds /\ Pending \subseteq JobIds
    BY DEF Uncounted, LiveJobs, Pending
  <1>2. Unreported \subseteq Dials
    BY DEF Unreported
  <1>3. IsFiniteSet(Unreported) /\ Cardinality(Unreported) \in Nat
    BY <1>2, AddrsAssumption, FS_Subset, FS_CardinalityType
  <1> QED
    BY <1>1, <1>3, JobsFinite DEF ChannelTypes

\* A step that neither spawns nor ends a job keeps the first sum.
CountedStats == {"total_jobs", "dialing_success", "dialing_limit", "dialing_timeout",
                 "transport_error"}
LEMMA CountKept ==
    ASSUME CountInv, \A f \in CountedStats : stats'[f] = stats[f],
           Uncounted' = Uncounted, LiveJobs' = LiveJobs
    PROVE  CountInv'
  BY DEF CountInv, CountedStats

\* And one that looks at no result keeps the second.
LEMMA SuccessKept ==
    ASSUME SuccessInv, Pending' = Pending, Unreported' = Unreported,
           \A f \in {"mismatch_peer_id", "total_success", "dialing_success"} : stats'[f] = stats[f]
    PROVE  SuccessInv'
  BY DEF SuccessInv

\* What does not touch a dial, its jobs or its channel keeps what is said of it.
Rests(x) ==
    /\ pc'[x] = pc[x] /\ dial_count'[x] = dial_count[x]
    /\ pc[x] # "idle" => peer_id'[x] = peer_id[x]
    /\ rx'[x] = rx[x] /\ waiting'[x] = waiting[x]
    /\ \A j \in JobIds : j[1] = x /\ j[2] = dial_count[x] =>
          job'[j] = job[j] /\ outcome'[j] = outcome[j]

LEMMA RestsJobs ==
    ASSUME NEW x, Rests(x)
    PROVE  /\ Jobs(x)' = Jobs(x) /\ Live(x)' = Live(x) /\ SpawnedOf(x)' = SpawnedOf(x)
           /\ \A j \in Jobs(x) : job'[j] = job[j] /\ outcome'[j] = outcome[j]
  <1>1. Jobs(x)' = Jobs(x)
    BY DEF Jobs, Rests
  <1>2. \A j \in Jobs(x) : job'[j] = job[j] /\ outcome'[j] = outcome[j]
    BY DEF Jobs, Rests
  <1> QED
    BY <1>1, <1>2 DEF Live, SpawnedOf

LEMMA RestsServed ==
    ASSUME ChannelTypes, NEW x \in Dials, Rests(x), pc[x] \in Collecting => Served(x)
    PROVE  (pc[x] \in Collecting => Served(x))'
  <1> SUFFICES ASSUME pc[x] \in Collecting PROVE Served(x)'
    BY DEF Rests
  <1>1. /\ Jobs(x)' = Jobs(x) /\ Live(x)' = Live(x) /\ SpawnedOf(x)' = SpawnedOf(x)
        /\ \A j \in Jobs(x) : job'[j] = job[j] /\ outcome'[j] = outcome[j]
    BY RestsJobs
  <1>2. /\ pc'[x] = pc[x] /\ dial_count'[x] = dial_count[x] /\ peer_id'[x] = peer_id[x]
        /\ rx'[x] = rx[x] /\ waiting'[x] = waiting[x]
    BY DEF Rests, Collecting
  <1>3. \A i \in DOMAIN rx[x] : <<x, dial_count[x], rx[x][i]>> \in Jobs(x)
    BY JobIs, JobsAre DEF ChannelTypes
  <1>4. \A a : InChannel(x, a)' <=> InChannel(x, a)
    BY <1>2 DEF InChannel
  <1>5. \A i \in DOMAIN rx'[x] : job'[<<x, dial_count'[x], rx'[x][i]>>] \in EndStates
    BY <1>1, <1>2, <1>3 DEF Served
  <1>6. \A j \in Jobs(x)' : job'[j] \in EndStates
           => InChannel(x, j[3])' \/ outcome'[j] # peer_id'[x]
    BY <1>1, <1>2, <1>4 DEF Served
  <1> QED
    BY <1>1, <1>2, <1>5, <1>6 DEF Served

NoGoodLost(d) ==
    pc[d] \in {"failed", "sleeping"} =>
        \A j \in Jobs(d) : job[j] # "none" => outcome[j] \notin {"none", peer_id[d]}

LEMMA MuxersAre == NoGoodMuxerLost <=> \A d \in Dials : NoGoodLost(d)
  BY DEF NoGoodMuxerLost, NoGoodLost

LEMMA RestsMuxers ==
    ASSUME NEW x, Rests(x), NoGoodLost(x)
    PROVE  NoGoodLost(x)'
  BY RestsJobs DEF NoGoodLost, Rests

\* A step of a dial that is not collecting, which moves no job.
Quiet(d) ==
    /\ UNCHANGED <<job, outcome, rx, waiting>>
    /\ \A x \in Dials \ {d} : /\ pc'[x] = pc[x] /\ dial_count'[x] = dial_count[x]
                              /\ pc[x] # "idle" => peer_id'[x] = peer_id[x]
    /\ pc[d] \notin Collecting /\ pc'[d] \notin Collecting

LEMMA QuietResults ==
    ASSUME ResultInv, NEW d \in Dials, Quiet(d), NoGoodLost(d)',
           \A f \in CountedStats : stats'[f] = stats[f]
    PROVE  /\ OutcomeInv' /\ ChannelInv' /\ NoGoodMuxerLost' /\ CountInv'
           /\ Pending' = Pending
  <1>1. ASSUME NEW x \in Dials \ {d} PROVE Rests(x)
    BY DEF Quiet, Rests
  <1>2. ChannelInv'
    <2> SUFFICES ASSUME NEW x \in Dials PROVE (pc[x] \in Collecting => Served(x))'
      BY DEF ChannelInv
    <2>1. CASE x = d
      BY <2>1 DEF Quiet
    <2>2. CASE x # d
      BY <1>1, <2>2, RestsServed DEF ResultInv, ChannelInv
    <2> QED
      BY <2>1, <2>2
  <1>3. NoGoodMuxerLost'
    <2>1. \A x \in Dials : NoGoodLost(x)
      BY MuxersAre DEF ResultInv
    <2>2. \A x \in Dials \ {d} : NoGoodLost(x)'
      BY <1>1, <2>1, RestsMuxers
    <2> QED
      BY <2>2 DEF NoGoodMuxerLost, NoGoodLost
  <1>4. \A j \in JobIds : j[1] \in Dials
    BY JobIs
  <1>5. Uncounted' = Uncounted
    BY <1>4 DEF Quiet, Uncounted, Jobs, Collecting
  <1>6. LiveJobs' = LiveJobs
    BY DEF Quiet, LiveJobs
  <1>7. Pending' = Pending
    BY <1>4 DEF Quiet, Pending, InChannel
  <1>8. OutcomeInv'
    BY DEF Quiet, ResultInv, OutcomeInv
  <1>9. CountInv'
    BY <1>5, <1>6, CountKept DEF ResultInv
  <1> QED
    BY <1>2, <1>3, <1>7, <1>8, <1>9

\* Counting leaves the other counters alone.
LEMMA CountIs ==
    ASSUME ChannelTypes, NEW f \in DialerStats, NEW n \in Nat, Count(f, n)
    PROVE  /\ stats' \in [DialerStats -> Nat] /\ stats'[f] = stats[f] + n
           /\ \A g \in DialerStats \ {f} : stats'[g] = stats[g]
  BY DEF Count, ChannelTypes

LEMMA ResultDial ==
    ASSUME RefInv, ResultInv, NEW d \in Dials, NEW p \in Peers, NEW as \in SUBSET Addrs,
           dial(d, p, as)
    PROVE  ResultInv'
  <1>0. TaskTypes /\ ChannelTypes
    BY DEF RefInv, ResultInv
  <1>1. /\ pc[d] = "idle" /\ pc' = [pc EXCEPT ![d] = "resolving"]
        /\ peer_id' = Insert(peer_id, d, p) /\ given' = [given EXCEPT ![d] = as]
        /\ Count("total_attempts", 1)
        /\ UNCHANGED <<dial_count, to_check, addrs, rx, waiting, job, outcome>>
    BY DEF dial, Goto, jobVars
  <1>2. d \notin DOMAIN peer_id
    BY <1>1 DEF RefInv
  <1>3. /\ \A x \in DOMAIN peer_id' : x = d \/ x \in DOMAIN peer_id
        /\ peer_id'[d] = p /\ \A x \in DOMAIN peer_id : peer_id'[x] = peer_id[x]
    BY <1>1, <1>2 DEF Insert
  <1>4. /\ stats' \in [DialerStats -> Nat]
        /\ \A g \in DialerStats \ {"total_attempts"} : stats'[g] = stats[g]
    BY <1>0, <1>1, CountIs DEF DialerStats
  <1>5. ChannelTypes'
    BY <1>0, <1>1, <1>3, <1>4 DEF ChannelTypes, TaskTypes
  <1>6. Quiet(d)
    BY <1>0, <1>1, <1>3 DEF Quiet, Collecting, RefInv, TaskTypes
  <1>7. NoGoodLost(d)'
    BY <1>0, <1>1 DEF NoGoodLost, TaskTypes
  <1>8. /\ OutcomeInv' /\ ChannelInv' /\ NoGoodMuxerLost' /\ CountInv' /\ Pending' = Pending
    BY <1>4, <1>6, <1>7, QuietResults DEF CountedStats, DialerStats
  <1>9. Unreported' = Unreported
    BY <1>0, <1>1 DEF Unreported, TaskTypes
  <1>10. SuccessInv'
    BY <1>4, <1>8, <1>9, SuccessKept DEF ResultInv, DialerStats
  <1> QED
    BY <1>5, <1>8, <1>10 DEF ResultInv

\* An attempt that ends without having spawned a job.
LEMMA ResultNothing ==
    ASSUME RefInv, JobInv, ResultInv, NEW d \in Dials, RoutingFails(d) \/ NothingToDial(d)
    PROVE  ResultInv'
  <1>0. TaskTypes /\ ChannelTypes
    BY DEF RefInv, ResultInv
  <1>1. /\ pc[d] \in {"resolving", "checking"}
        /\ \E f \in {"no_address", "no_transport", "dialing_backoff"} : Count(f, 1)
        /\ \E e \in DialErrors : AttemptFails(d, e)
        /\ UNCHANGED <<peer_id, dial_count, given, to_check, addrs, rx, waiting, job, outcome>>
    BY ErrorNames DEF RoutingFails, NothingToDial, jobVars
  <1>2. /\ pc'[d] \in {"sleeping", "failed"} /\ \A x \in Dials \ {d} : pc'[x] = pc[x]
        /\ pc'[d] = "sleeping" => dial_count[d] < Attempts
    BY <1>0, <1>1, FailsTypes DEF AttemptFails, Goto, TaskTypes
  <1>3. /\ stats' \in [DialerStats -> Nat]
        /\ \A g \in DialerStats \ {"no_address", "no_transport", "dialing_backoff"} :
              stats'[g] = stats[g]
    BY <1>0, <1>1, CountIs DEF DialerStats
  <1>4. ChannelTypes'
    BY <1>0, <1>1, <1>2, <1>3 DEF ChannelTypes
  <1>5. Quiet(d)
    BY <1>1, <1>2 DEF Quiet, Collecting
  <1>6. NoGoodLost(d)'
    <2>1. \A j \in Jobs(d) : job[j] = "none"
      BY <1>1, JobsAre DEF JobInv, Unspawned
    <2> QED
      BY <1>1, <2>1 DEF NoGoodLost, Jobs
  <1>7. /\ OutcomeInv' /\ ChannelInv' /\ NoGoodMuxerLost' /\ CountInv' /\ Pending' = Pending
    BY <1>3, <1>5, <1>6, QuietResults DEF CountedStats, DialerStats
  <1>8. Unreported' = Unreported
    BY <1>1, <1>2 DEF Unreported
  <1>9. SuccessInv'
    BY <1>3, <1>7, <1>8, SuccessKept DEF ResultInv, DialerStats
  <1> QED
    BY <1>4, <1>7, <1>9 DEF ResultInv

LEMMA ResultResolve ==
    ASSUME RefInv, ResultInv, NEW d \in Dials,
           \/ \E found \in SUBSET Addrs : ResolveAddrs(d, found)
           \/ \E a \in Addrs : find_peer(d, a)
           \/ Retry(d)
    PROVE  ResultInv'
  <1>0. TaskTypes /\ ChannelTypes
    BY DEF RefInv, ResultInv
  <1>1. /\ pc[d] \in {"resolving", "checking", "sleeping"}
        /\ UNCHANGED <<peer_id, given, rx, waiting, job, outcome, stats>>
    BY DEF ResolveAddrs, find_peer, Retry, jobVars
  <1>2. /\ pc'[d] \in {"resolving", "checking"}
        /\ \A x \in Dials \ {d} : pc'[x] = pc[x] /\ dial_count'[x] = dial_count[x]
    BY <1>0 DEF ResolveAddrs, find_peer, Retry, Goto, TaskTypes
  <1>3. /\ to_check' \in [Dials -> SUBSET Addrs] /\ addrs' \in [Dials -> SUBSET Addrs]
        /\ dial_count' \in [Dials -> Counts]
    <2>1. CASE \E found \in SUBSET Addrs : ResolveAddrs(d, found)
      BY <1>0, <2>1 DEF ResolveAddrs, ChannelTypes
    <2>2. CASE \E a \in Addrs : find_peer(d, a)
      BY <1>0, <2>2 DEF find_peer, ChannelTypes
    <2>3. CASE Retry(d)
      <3>1. dial_count[d] < Attempts /\ dial_count[d] \in Counts
        BY <1>0, <2>3 DEF Retry, ChannelTypes
      <3>2. dial_count[d] + 1 \in Counts
        BY <3>1, ConfigAssumption DEF Counts
      <3> QED
        BY <1>0, <2>3, <3>2 DEF Retry, ChannelTypes
    <2> QED
      BY <2>1, <2>2, <2>3
  <1>4. ChannelTypes'
    BY <1>0, <1>1, <1>2, <1>3 DEF ChannelTypes
  <1>5. Quiet(d) /\ NoGoodLost(d)'
    BY <1>1, <1>2 DEF Quiet, Collecting, NoGoodLost
  <1>7. /\ OutcomeInv' /\ ChannelInv' /\ NoGoodMuxerLost' /\ CountInv' /\ Pending' = Pending
    BY <1>1, <1>5, QuietResults
  <1>8. Unreported' = Unreported
    BY <1>1, <1>2 DEF Unreported
  <1>9. SuccessInv'
    BY <1>1, <1>7, <1>8, SuccessKept DEF ResultInv
  <1> QED
    BY <1>4, <1>7, <1>9 DEF ResultInv

LEMMA ResultReport ==
    ASSUME RefInv, ResultInv, NEW d \in Dials, Report(d)
    PROVE  ResultInv'
  <1>0. TaskTypes /\ ChannelTypes
    BY DEF RefInv, ResultInv
  <1>1. /\ pc[d] \in {"succeeded", "failed"} /\ pc' = [pc EXCEPT ![d] = "reported"]
        /\ IF pc[d] = "succeeded" THEN Count("total_success", 1) ELSE UNCHANGED stats
        /\ UNCHANGED <<peer_id, dial_count, given, to_check, addrs, rx, waiting, job, outcome>>
    BY DEF Report, Goto, jobVars
  <1>2. pc'[d] = "reported" /\ \A x \in Dials \ {d} : pc'[x] = pc[x]
    BY <1>0, <1>1 DEF TaskTypes
  <1>3. /\ stats' \in [DialerStats -> Nat]
        /\ \A g \in DialerStats \ {"total_success"} : stats'[g] = stats[g]
        /\ stats'["total_success"] = IF pc[d] = "succeeded" THEN stats["total_success"] + 1
                                     ELSE stats["total_success"]
    BY <1>0, <1>1, CountIs DEF DialerStats, ChannelTypes
  <1>4. ChannelTypes'
    BY <1>0, <1>1, <1>2, <1>3 DEF ChannelTypes
  <1>5. Quiet(d) /\ NoGoodLost(d)'
    BY <1>1, <1>2 DEF Quiet, Collecting, NoGoodLost
  <1>6. /\ OutcomeInv' /\ ChannelInv' /\ NoGoodMuxerLost' /\ CountInv' /\ Pending' = Pending
    BY <1>3, <1>5, QuietResults DEF CountedStats, DialerStats
  <1>7. SuccessInv'
    <2>1. CASE pc[d] = "succeeded"
      <3>1. Unreported' = Unreported \ {d} /\ d \in Unreported
        BY <1>2, <2>1 DEF Unreported
      <3>2. Cardinality(Unreported') = Cardinality(Unreported) - 1
        BY <1>0, <3>1, SumTypes, FS_RemoveElement
      <3>3. /\ stats'["mismatch_peer_id"] = stats["mismatch_peer_id"]
            /\ stats'["dialing_success"] = stats["dialing_success"]
            /\ stats["total_success"] \in Nat /\ stats["mismatch_peer_id"] \in Nat
            /\ stats["dialing_success"] \in Nat
        BY <1>0, <1>3 DEF DialerStats, ChannelTypes
      <3>4. Cardinality(Unreported) \in Nat /\ Cardinality(Pending) \in Nat
        BY <1>0, SumTypes
      <3> QED
        BY <1>3, <1>6, <2>1, <3>2, <3>3, <3>4 DEF ResultInv, SuccessInv
    <2>2. CASE pc[d] # "succeeded"
      <3>1. Unreported' = Unreported
        BY <1>2, <2>2 DEF Unreported
      <3> QED
        BY <1>3, <1>6, <2>2, <3>1, SuccessKept DEF ResultInv, DialerStats
    <2> QED
      BY <2>1, <2>2
  <1> QED
    BY <1>4, <1>6, <1>7 DEF ResultInv
-----------------------------------------------------------------------------
(* The jobs of an attempt are spawned and counted. *)

\* One job for each address.
JobsFor(d, S) == {j \in Jobs(d) : j[3] \in S}

LEMMA JobsForCount ==
    ASSUME ChannelTypes, NEW d \in Dials, NEW S \in SUBSET Addrs
    PROVE  Cardinality(JobsFor(d, S)) = Cardinality(S)
  <1> DEFINE N == JobsFor(d, S)  f == [a \in S |-> <<d, dial_count[d], a>>]
  <1>1. dial_count[d] \in Counts
    BY DEF ChannelTypes
  <1>2. \A a \in S : f[a] \in N
    BY <1>1, JobIs, JobsAre DEF JobsFor
  <1>3. \A j \in N : j[3] \in S /\ f[j[3]] = j
    BY JobIs, JobsAre DEF JobsFor
  <1>4. \A a, b \in S : f[a] = f[b] => a = b
    OBVIOUS
  <1>5. f \in [S -> N]
    BY <1>2
  <1>6. IsFiniteSet(N)
    BY JobsFinite, JobsAre DEF JobsFor
  <1> HIDE DEF f, N
  <1>7. f \in Injection(S, N) /\ f \in Surjection(S, N)
    BY <1>3, <1>4, <1>5 DEF Injection, IsInjective, Surjection
  <1> QED
    BY <1>6, <1>7, FS_Injection DEF N

\* Adding the same jobs on both sides.
LEMMA AddJobs ==
    ASSUME NEW S, NEW N, S \subseteq JobIds, N \subseteq JobIds, S \cap N = {}
    PROVE  Cardinality(S \cup N) = Cardinality(S) + Cardinality(N)
  <1>1. /\ IsFiniteSet(S) /\ IsFiniteSet(N) /\ Cardinality(S) \in Nat /\ Cardinality(N) \in Nat
    BY JobsFinite
  <1>2. Cardinality(S \cap N) = 0
    BY FS_EmptySet
  <1>3. Cardinality(S \cup N) = Cardinality(S) + Cardinality(N) - Cardinality(S \cap N)
    BY <1>1, FS_Union
  <1> QED
    BY <1>1, <1>2, <1>3

LEMMA ResultSpawn ==
    ASSUME RefInv, JobInv, ResultInv, NEW d \in Dials, SpawnJobs(d)
    PROVE  ResultInv'
  <1> DEFINE good == addrs[d] \ NoTransport  N == JobsFor(d, good)
  <1>0. TaskTypes /\ ChannelTypes
    BY DEF RefInv, ResultInv
  <1>1. /\ pc[d] = "checking" /\ good # {} /\ pc' = [pc EXCEPT ![d] = "counting"]
        /\ job' = [j \in JobIds |-> IF j \in Jobs(d) /\ j[3] \in good THEN "spawned" ELSE job[j]]
        /\ rx' = [rx EXCEPT ![d] = <<>>]
        /\ waiting' = [waiting EXCEPT ![d] = Cardinality(good)]
        /\ UNCHANGED <<peer_id, dial_count, given, to_check, addrs, outcome, stats>>
    BY DEF SpawnJobs, Goto
  <1>2. good \in SUBSET Addrs
    BY <1>0 DEF ChannelTypes
  <1> HIDE DEF good
  <1>3. Cardinality(N) = Cardinality(good)
    BY <1>0, <1>2, JobsForCount
  <1>4. Cardinality(good) \in Nat /\ Cardinality(good) > 0
    <2>1. IsFiniteSet(good) /\ Cardinality(good) \in Nat
      BY <1>2, AddrsAssumption, FS_Subset, FS_CardinalityType
    <2> QED
      BY <1>1, <2>1, FS_EmptySet
  <1>5. /\ N \subseteq Jobs(d) /\ Jobs(d) \subseteq JobIds /\ Jobs(d)' = Jobs(d)
        /\ \A j \in Jobs(d) : job[j] = "none" /\ j[1] = d
        /\ \A j \in JobIds : j[1] = d /\ j[2] = dial_count[d] => j \in Jobs(d)
    BY <1>1 DEF JobsFor, Jobs, JobInv, Unspawned
  <1>6. /\ \A j \in N : job'[j] = "spawned"
        /\ \A j \in JobIds \ N : job'[j] = job[j]
    BY <1>1, <1>5 DEF JobsFor
  <1>7. /\ pc'[d] = "counting" /\ rx'[d] = <<>> /\ waiting'[d] = Cardinality(good)
        /\ \A x \in Dials \ {d} : pc'[x] = pc[x] /\ rx'[x] = rx[x] /\ waiting'[x] = waiting[x]
    BY <1>0, <1>1 DEF ChannelTypes, TaskTypes
  <1>8. ChannelTypes'
    BY <1>0, <1>1, <1>4, <1>7 DEF ChannelTypes
  <1>9. ASSUME NEW x \in Dials \ {d} PROVE Rests(x)
    BY <1>1, <1>5, <1>6, <1>7 DEF Rests
  <1>10. OutcomeInv'
    BY <1>1, <1>5, <1>6 DEF OutcomeInv, ResultInv, EndStates
  <1> HIDE DEF N
  <1>11. Served(d)'
    <2>1. Live(d)' = N /\ SpawnedOf(d)' = N
      BY <1>5, <1>6 DEF Live, SpawnedOf
    <2>2. DOMAIN rx'[d] = {} /\ Len(rx'[d]) = 0
      BY <1>7
    <2>3. \A j \in Jobs(d)' : job'[j] \notin EndStates
      BY <1>5, <1>6 DEF EndStates
    <2>4. waiting'[d] > 0 /\ waiting'[d] = Len(rx'[d]) + Cardinality(N)
      BY <1>3, <1>4, <1>7, <2>2
    <2> QED
      BY <1>3, <1>7, <2>1, <2>2, <2>3, <2>4 DEF Served
  <1>12. ChannelInv'
    <2> SUFFICES ASSUME NEW x \in Dials PROVE (pc[x] \in Collecting => Served(x))'
      BY DEF ChannelInv
    <2>1. CASE x # d
      BY <1>0, <1>9, <2>1, RestsServed DEF ResultInv, ChannelInv
    <2> QED
      BY <1>11, <2>1
  <1>13. NoGoodMuxerLost'
    <2>1. \A x \in Dials : NoGoodLost(x)
      BY MuxersAre DEF ResultInv
    <2>2. \A x \in Dials \ {d} : NoGoodLost(x)'
      BY <1>9, <2>1, RestsMuxers
    <2>3. NoGoodLost(d)'
      BY <1>7 DEF NoGoodLost
    <2> QED
      BY <2>2, <2>3 DEF NoGoodMuxerLost, NoGoodLost
  <1>14. \A j \in JobIds : j[1] \in Dials
    BY JobIs
  <1>15. CountInv'
    <2>1. Uncounted' = Uncounted \cup N /\ Uncounted \cap N = {}
      <3>1. \A j \in JobIds : j[1] # d => (j \in Uncounted' <=> j \in Uncounted)
        BY <1>1, <1>5, <1>6, <1>7, <1>14 DEF Uncounted, Jobs
      <3>2. \A j \in JobIds : j[1] = d => (j \in Uncounted' <=> j \in N)
        BY <1>1, <1>5, <1>6, <1>7 DEF Uncounted, Jobs
      <3>3. \A j \in JobIds : j[1] = d => j \notin Uncounted
        BY <1>1 DEF Uncounted
      <3>4. Uncounted \subseteq JobIds /\ Uncounted' \subseteq JobIds
        BY DEF Uncounted
      <3> QED
        BY <1>5, <3>1, <3>2, <3>3, <3>4
    <2>2. LiveJobs' = LiveJobs \cup N /\ LiveJobs \cap N = {}
      BY <1>5, <1>6 DEF LiveJobs, LiveStates
    <2>3. /\ Cardinality(Uncounted') = Cardinality(Uncounted) + Cardinality(N)
          /\ Cardinality(LiveJobs') = Cardinality(LiveJobs) + Cardinality(N)
      <3>1. Uncounted \subseteq JobIds /\ LiveJobs \subseteq JobIds /\ N \subseteq JobIds
        BY <1>5 DEF Uncounted, LiveJobs
      <3> QED
        BY <2>1, <2>2, <3>1, AddJobs
    <2>4. /\ Cardinality(Uncounted) \in Nat /\ Cardinality(LiveJobs) \in Nat
          /\ \A f \in DialerStats : stats[f] \in Nat
      BY <1>0, SumTypes
    <2>5. \A f \in CountedStats : stats'[f] = stats[f] /\ stats[f] \in Nat
      BY <1>1, <2>4 DEF CountedStats, DialerStats
    <2> QED
      BY <1>3, <1>4, <2>3, <2>4, <2>5 DEF ResultInv, CountInv, CountedStats
  <1>16. Pending' = Pending
    <2>1. \A a : ~InChannel(d, a)'
      BY <1>7 DEF InChannel
    <2>2. \A j \in JobIds : j[1] = d => j \notin Pending /\ j \notin Pending'
      BY <1>1, <2>1 DEF Pending, Collecting
    <2>3. \A j \in JobIds : j[1] # d => (j \in Pending' <=> j \in Pending)
      BY <1>1, <1>7, <1>14 DEF Pending, InChannel
    <2>4. Pending \subseteq JobIds /\ Pending' \subseteq JobIds
      BY DEF Pending
    <2> QED
      BY <2>2, <2>3, <2>4
  <1>17. SuccessInv'
    <2>1. Unreported' = Unreported
      BY <1>1, <1>7 DEF Unreported
    <2> QED
      BY <1>1, <1>16, <2>1, SuccessKept DEF ResultInv
  <1> QED
    BY <1>8, <1>10, <1>12, <1>13, <1>15, <1>17 DEF ResultInv

LEMMA ResultCount ==
    ASSUME RefInv, ResultInv, NEW d \in Dials, CountJobs(d)
    PROVE  ResultInv'
  <1> DEFINE N == SpawnedOf(d)
  <1>0. TaskTypes /\ ChannelTypes
    BY DEF RefInv, ResultInv
  <1>1. /\ pc[d] = "counting" /\ pc' = [pc EXCEPT ![d] = "collecting"]
        /\ Count("total_jobs", waiting[d])
        /\ UNCHANGED <<peer_id, dial_count, given, to_check, addrs, rx, waiting, job, outcome>>
    BY DEF CountJobs, Goto, jobVars
  <1>2. pc'[d] = "collecting" /\ \A x \in Dials \ {d} : pc'[x] = pc[x]
    BY <1>0, <1>1 DEF TaskTypes
  <1>3. waiting[d] \in Nat /\ waiting[d] = Cardinality(N) /\ Served(d)
    BY <1>0, <1>1 DEF ResultInv, ChannelInv, Served, Collecting, ChannelTypes
  <1>4. /\ stats' \in [DialerStats -> Nat] /\ stats'["total_jobs"] = stats["total_jobs"] + waiting[d]
        /\ \A g \in DialerStats \ {"total_jobs"} : stats'[g] = stats[g]
    BY <1>0, <1>1, <1>3, CountIs DEF DialerStats
  <1>5. ChannelTypes'
    BY <1>0, <1>1, <1>2, <1>4 DEF ChannelTypes
  <1>6. OutcomeInv'
    BY <1>1 DEF ResultInv, OutcomeInv
  <1>7. ASSUME NEW x \in Dials \ {d} PROVE Rests(x)
    BY <1>1, <1>2 DEF Rests
  <1>8. ChannelInv'
    <2> SUFFICES ASSUME NEW x \in Dials PROVE (pc[x] \in Collecting => Served(x))'
      BY DEF ChannelInv
    <2>1. CASE x # d
      BY <1>0, <1>7, <2>1, RestsServed DEF ResultInv, ChannelInv
    <2>2. Served(d)'
      <3>1. Jobs(d)' = Jobs(d) /\ Live(d)' = Live(d)
        BY <1>1 DEF Jobs, Live
      <3>2. \A a : InChannel(d, a)' <=> InChannel(d, a)
        BY <1>1 DEF InChannel
      <3> QED
        BY <1>1, <1>2, <1>3, <3>1, <3>2 DEF Served
    <2> QED
      BY <2>1, <2>2
  <1>9. NoGoodMuxerLost'
    <2>1. \A x \in Dials : NoGoodLost(x)
      BY MuxersAre DEF ResultInv
    <2>2. \A x \in Dials \ {d} : NoGoodLost(x)'
      BY <1>7, <2>1, RestsMuxers
    <2>3. NoGoodLost(d)'
      BY <1>2 DEF NoGoodLost
    <2> QED
      BY <2>2, <2>3 DEF NoGoodMuxerLost, NoGoodLost
  <1>10. \A j \in JobIds : j[1] \in Dials
    BY JobIs
  <1>11. CountInv'
    <2>1. Uncounted' = Uncounted \ N /\ N \subseteq Uncounted /\ N \subseteq JobIds
      BY <1>1, <1>2, <1>10 DEF Uncounted, Jobs, SpawnedOf
    <2>2. LiveJobs' = LiveJobs
      BY <1>1 DEF LiveJobs
    <2> HIDE DEF N
    <2>3. Cardinality(Uncounted') = Cardinality(Uncounted) - Cardinality(N)
      <3>1. Uncounted \cap N = N /\ IsFiniteSet(Uncounted)
        BY <1>0, <2>1, SumTypes
      <3>2. Cardinality(Uncounted \ N) = Cardinality(Uncounted) - Cardinality(Uncounted \cap N)
        BY <3>1, FS_Difference
      <3> QED
        BY <2>1, <3>1, <3>2
    <2>4. /\ Cardinality(Uncounted) \in Nat /\ Cardinality(LiveJobs) \in Nat
          /\ \A f \in DialerStats : stats[f] \in Nat
      BY <1>0, SumTypes
    <2>5. \A f \in CountedStats \ {"total_jobs"} : stats'[f] = stats[f]
      BY <1>4 DEF CountedStats, DialerStats
    <2> QED
      BY <1>3, <1>4, <2>2, <2>3, <2>4, <2>5 DEF ResultInv, CountInv, DialerStats, CountedStats
  <1>12. SuccessInv'
    <2>1. Pending' = Pending
      BY <1>1, <1>2, <1>10 DEF Pending, InChannel, Collecting
    <2>2. Unreported' = Unreported
      BY <1>1, <1>2 DEF Unreported
    <2> QED
      BY <1>4, <2>1, <2>2, SuccessKept DEF ResultInv, DialerStats
  <1> QED
    BY <1>5, <1>6, <1>8, <1>9, <1>11, <1>12 DEF ResultInv
-----------------------------------------------------------------------------
(* A result is collected. *)

LEMMA FirstResult ==
    ASSUME NEW s \in Seq(Addrs), s # <<>>
    PROVE  /\ Head(s) = s[1] /\ Head(s) \in Addrs /\ 1 \in DOMAIN s
           /\ Len(s) \in Nat /\ Len(s) >= 1 /\ Len(Tail(s)) = Len(s) - 1
           /\ Tail(s) \in Seq(Addrs) /\ DOMAIN Tail(s) \subseteq Nat \ {0}
           /\ \A i \in DOMAIN Tail(s) : i + 1 \in DOMAIN s /\ Tail(s)[i] = s[i + 1]
           /\ \A i \in DOMAIN s : i = 1 \/ (i - 1 \in DOMAIN Tail(s) /\ Tail(s)[i - 1] = s[i])
  OBVIOUS

\* What the collector does with the result r of the first job in the channel.
CollectEffect(d, a, r) ==
    /\ pc[d] = "collecting" /\ rx[d] # <<>> /\ a = Head(rx[d])
    /\ r = outcome[<<d, dial_count[d], a>>]
    /\ rx' = [rx EXCEPT ![d] = Tail(@)]
    /\ waiting' = [waiting EXCEPT ![d] = @ - 1]
    /\ IF Mismatch(d, r) THEN Count("mismatch_peer_id", 1) ELSE UNCHANGED stats
    /\ \A x \in Dials \ {d} : pc'[x] = pc[x]
    /\ \/ r \in Peers /\ r = peer_id[d] /\ pc'[d] = "succeeded"
       \/ /\ r # peer_id[d] /\ waiting[d] = 1
          /\ pc'[d] \in {"sleeping", "failed"}
          /\ pc'[d] = "sleeping" => dial_count[d] < Attempts
       \/ r # peer_id[d] /\ waiting[d] # 1 /\ pc'[d] = "collecting"
    /\ UNCHANGED <<peer_id, dial_count, given, to_check, addrs, job, outcome>>

LEMMA CollectIs ==
    ASSUME RefInv, ResultInv, NEW d \in Dials, collect_dialing_result(d)
    PROVE  \E a, r : CollectEffect(d, a, r)
  <1> DEFINE a == Head(rx[d])  r == outcome[<<d, dial_count[d], a>>]
  <1>1. /\ pc[d] = "collecting" /\ rx[d] # <<>>
        /\ rx' = [rx EXCEPT ![d] = Tail(@)]
        /\ waiting' = [waiting EXCEPT ![d] = @ - 1]
        /\ IF Mismatch(d, r) THEN Count("mismatch_peer_id", 1) ELSE UNCHANGED stats
        /\ IF r \in Peers /\ ~Mismatch(d, r) THEN Goto(d, "succeeded")
           ELSE IF LastResult(d) THEN AttemptFails(d, "AllDialsFailed") ELSE UNCHANGED pc
        /\ UNCHANGED <<peer_id, dial_count, given, to_check, addrs, job, outcome>>
    BY DEF collect_dialing_result, jobVars
  <1> HIDE DEF a, r
  <1>2. TaskTypes /\ peer_id[d] \in Peers
    BY <1>1 DEF RefInv, ResultInv, ChannelTypes
  <1>3. CASE r \in Peers /\ ~Mismatch(d, r)
    <2>1. Goto(d, "succeeded") /\ r = peer_id[d]
      BY <1>1, <1>3 DEF Mismatch
    <2>2. pc'[d] = "succeeded" /\ \A x \in Dials \ {d} : pc'[x] = pc[x]
      BY <1>2, <2>1 DEF Goto, TaskTypes
    <2>3. CollectEffect(d, a, r)
      BY <1>1, <1>3, <2>1, <2>2 DEF CollectEffect, a, r
    <2> QED
      BY <2>3
  <1>4. CASE ~(r \in Peers /\ ~Mismatch(d, r)) /\ LastResult(d)
    <2>1. r # peer_id[d] /\ AttemptFails(d, "AllDialsFailed")
      BY <1>1, <1>2, <1>4 DEF Mismatch
    <2>2. /\ pc'[d] \in {"sleeping", "failed"} /\ \A x \in Dials \ {d} : pc'[x] = pc[x]
          /\ pc'[d] = "sleeping" => dial_count[d] < Attempts
      BY <1>2, <2>1, FailsTypes, ErrorNames DEF AttemptFails, Goto, TaskTypes
    <2>3. CollectEffect(d, a, r)
      BY <1>1, <1>4, <2>1, <2>2 DEF CollectEffect, a, r, LastResult
    <2> QED
      BY <2>3
  <1>5. CASE ~(r \in Peers /\ ~Mismatch(d, r)) /\ ~LastResult(d)
    <2>1. r # peer_id[d] /\ UNCHANGED pc
      BY <1>1, <1>2, <1>5 DEF Mismatch
    <2>2. CollectEffect(d, a, r)
      BY <1>1, <1>5, <2>1 DEF CollectEffect, a, r, LastResult
    <2> QED
      BY <2>2
  <1> QED
    BY <1>3, <1>4, <1>5

LEMMA ResultCollect ==
    ASSUME RefInv, JobInv, ResultInv, NEW d \in Dials, NEW a, NEW r, CollectEffect(d, a, r)
    PROVE  ResultInv'
  <1> DEFINE s == rx[d]  j0 == <<d, dial_count[d], a>>
  <1>0. TaskTypes /\ ChannelTypes
    BY DEF RefInv, ResultInv
  <1>1. /\ pc[d] = "collecting" /\ s # <<>> /\ a = Head(s) /\ r = outcome[j0]
        /\ IF Mismatch(d, r) THEN Count("mismatch_peer_id", 1) ELSE UNCHANGED stats
        /\ \A x \in Dials \ {d} : pc'[x] = pc[x]
        /\ UNCHANGED <<peer_id, dial_count, given, to_check, addrs, job, outcome>>
    BY DEF CollectEffect
  <1>2. \/ r \in Peers /\ r = peer_id[d] /\ pc'[d] = "succeeded"
        \/ /\ r # peer_id[d] /\ waiting[d] = 1
           /\ pc'[d] \in {"sleeping", "failed"}
           /\ pc'[d] = "sleeping" => dial_count[d] < Attempts
        \/ r # peer_id[d] /\ waiting[d] # 1 /\ pc'[d] = "collecting"
    BY DEF CollectEffect
  <1>3. /\ rx'[d] = Tail(s) /\ waiting'[d] = waiting[d] - 1
        /\ \A x \in Dials \ {d} : rx'[x] = rx[x] /\ waiting'[x] = waiting[x]
    BY <1>0 DEF CollectEffect, ChannelTypes
  <1>4. s \in Seq(Addrs) /\ waiting[d] \in Nat /\ dial_count[d] \in Counts
    BY <1>0 DEF ChannelTypes
  <1>5. /\ a = s[1] /\ a \in Addrs /\ 1 \in DOMAIN s
        /\ Len(s) \in Nat /\ Len(s) >= 1 /\ Len(Tail(s)) = Len(s) - 1
        /\ Tail(s) \in Seq(Addrs) /\ DOMAIN Tail(s) \subseteq Nat \ {0}
        /\ \A i \in DOMAIN Tail(s) : i + 1 \in DOMAIN s /\ Tail(s)[i] = s[i + 1]
        /\ \A i \in DOMAIN s : i = 1 \/ (i - 1 \in DOMAIN Tail(s) /\ Tail(s)[i - 1] = s[i])
    BY <1>1, <1>4, FirstResult
  <1>6. Served(d)
    BY <1>1 DEF ResultInv, ChannelInv, Collecting
  <1>7. /\ j0 \in JobIds /\ j0 \in Jobs(d) /\ \A j \in Jobs(d) : j[3] = a => j = j0
    BY <1>4, <1>5, JobIs, JobsAre
  <1>8. /\ Jobs(d)' = Jobs(d) /\ Live(d)' = Live(d) /\ Jobs(d) \subseteq JobIds
        /\ IsFiniteSet(Live(d)) /\ Cardinality(Live(d)) \in Nat
    <2>1. Jobs(d)' = Jobs(d) /\ Live(d)' = Live(d) /\ Jobs(d) \subseteq JobIds
          /\ Live(d) \subseteq JobIds
      BY <1>1 DEF Jobs, Live
    <2> QED
      BY <2>1, JobsFinite
  <1>8a. j0[1] = d /\ j0[2] = dial_count[d] /\ j0[3] = a
    OBVIOUS
  <1> HIDE DEF s, j0
  <1>9. /\ stats' \in [DialerStats -> Nat]
        /\ \A g \in DialerStats \ {"mismatch_peer_id"} : stats'[g] = stats[g]
        /\ stats'["mismatch_peer_id"] = IF Mismatch(d, r) THEN stats["mismatch_peer_id"] + 1
                                        ELSE stats["mismatch_peer_id"]
    BY <1>0, <1>1, CountIs DEF DialerStats, ChannelTypes
  <1>10. waiting[d] - 1 \in Nat
    BY <1>4, <1>6 DEF Served
  <1>11. ChannelTypes'
    <2>1. rx' \in [Dials -> Seq(Addrs)] /\ waiting' \in [Dials -> Nat]
      BY <1>0, <1>5, <1>10 DEF CollectEffect, ChannelTypes, s
    <2> QED
      BY <1>0, <1>1, <1>2, <1>9, <2>1 DEF ChannelTypes
  <1>12. OutcomeInv'
    BY <1>1 DEF ResultInv, OutcomeInv
  <1>13. ASSUME NEW x \in Dials \ {d} PROVE Rests(x)
    BY <1>1, <1>3 DEF Rests
  <1>14. ChannelInv'
    <2> SUFFICES ASSUME NEW x \in Dials PROVE (pc[x] \in Collecting => Served(x))'
      BY DEF ChannelInv
    <2>1. CASE x # d
      BY <1>0, <1>13, <2>1, RestsServed DEF ResultInv, ChannelInv
    <2>2. ASSUME pc'[d] \in Collecting PROVE Served(d)'
      <3>1. r # peer_id[d] /\ waiting[d] # 1 /\ pc'[d] = "collecting"
        BY <1>2, <2>2 DEF Collecting
      <3>2. waiting'[d] > 0 /\ waiting'[d] = Len(rx'[d]) + Cardinality(Live(d)')
        BY <1>3, <1>4, <1>5, <1>6, <1>8, <3>1 DEF Served, s
      <3>3. ASSUME NEW i \in DOMAIN Tail(s), NEW k \in DOMAIN Tail(s), Tail(s)[i] = Tail(s)[k]
            PROVE  i = k
        <4>1. /\ i \in Nat /\ k \in Nat /\ i + 1 \in DOMAIN s /\ k + 1 \in DOMAIN s
              /\ s[i + 1] = s[k + 1]
          BY <1>5, <3>3
        <4>2. i + 1 = k + 1
          BY <1>6, <4>1 DEF Served, s
        <4> QED
          BY <4>1, <4>2
      <3>4. \A i \in DOMAIN Tail(s) : job[<<d, dial_count[d], Tail(s)[i]>>] \in EndStates
        BY <1>5, <1>6 DEF Served, s
      <3>5. ASSUME NEW j \in Jobs(d), job[j] \in EndStates, outcome[j] = peer_id[d]
            PROVE  InChannel(d, j[3])'
        <4>1. PICK i \in DOMAIN s : s[i] = j[3]
          BY <1>6, <3>5 DEF Served, InChannel, s
        <4>2. i # 1
          BY <1>1, <1>5, <1>7, <3>1, <3>5, <4>1
        <4>3. i - 1 \in DOMAIN Tail(s) /\ Tail(s)[i - 1] = j[3]
          BY <1>5, <4>1, <4>2
        <4> QED
          BY <1>3, <4>3 DEF InChannel
      <3> QED
        BY <1>1, <1>3, <1>8, <3>1, <3>2, <3>3, <3>4, <3>5 DEF Served
    <2> QED
      BY <2>1, <2>2
  <1>15. NoGoodMuxerLost'
    <2>1. \A x \in Dials : NoGoodLost(x)
      BY MuxersAre DEF ResultInv
    <2>2. \A x \in Dials \ {d} : NoGoodLost(x)'
      BY <1>13, <2>1, RestsMuxers
    <2>3. NoGoodLost(d)'
      <3> SUFFICES ASSUME pc'[d] \in {"sleeping", "failed"}, NEW j \in Jobs(d), job[j] # "none"
                   PROVE  outcome[j] \notin {"none", peer_id[d]}
        BY <1>1, <1>8 DEF NoGoodLost
      <3>1. r # peer_id[d] /\ waiting[d] = 1
        BY <1>2
      <3>2. Len(s) = 1 /\ Cardinality(Live(d)) = 0
        <4>1. waiting[d] = Len(s) + Cardinality(Live(d))
          BY <1>6 DEF Served, s
        <4> QED
          BY <1>5, <1>8, <3>1, <4>1
      <3>3. Live(d) = {}
        BY <1>8, <3>2, FS_EmptySet
      <3>4. job[j] \in EndStates
        <4>1. job[j] \in JobStates
          BY <1>8 DEF JobInv
        <4> QED
          BY <1>8, <3>3, <4>1 DEF Live, JobStates, EndStates
      <3>5. outcome[j] # "none"
        BY <1>8, <3>4 DEF ResultInv, OutcomeInv
      <3>6. ASSUME outcome[j] = peer_id[d] PROVE FALSE
        <4>1. PICK i \in DOMAIN s : s[i] = j[3]
          BY <1>6, <3>4, <3>6 DEF Served, InChannel, s
        <4>2. i = 1
          BY <1>4, <3>2, <4>1
        <4> QED
          BY <1>1, <1>5, <1>7, <3>1, <3>6, <4>1, <4>2
      <3> QED
        BY <3>5, <3>6
    <2> QED
      BY <2>2, <2>3 DEF NoGoodMuxerLost, NoGoodLost
  <1>16. \A j \in JobIds : j[1] \in Dials
    BY JobIs
  <1>17. CountInv'
    <2>1. pc'[d] # "counting"
      BY <1>2
    <2>2. Uncounted' = Uncounted
      BY <1>1, <1>16, <2>1 DEF Uncounted, Jobs
    <2>3. LiveJobs' = LiveJobs
      BY <1>1 DEF LiveJobs
    <2> QED
      BY <1>9, <2>2, <2>3, CountKept DEF ResultInv, CountedStats, DialerStats
  <1>18. Pending' \subseteq Pending \ {j0}
    <2>1. ASSUME NEW j \in Pending' PROVE j \in Pending /\ j # j0
      <3>1. /\ j \in JobIds /\ outcome[j] \in Peers /\ j[2] = dial_count[j[1]]
            /\ pc'[j[1]] \in Collecting /\ InChannel(j[1], j[3])'
        BY <1>1, <2>1 DEF Pending
      <3>2. CASE j[1] # d
        <4>1. pc'[j[1]] = pc[j[1]] /\ rx'[j[1]] = rx[j[1]]
          BY <1>1, <1>3, <1>16, <3>1, <3>2
        <4>2. InChannel(j[1], j[3])
          BY <3>1, <4>1 DEF InChannel
        <4> QED
          BY <1>8a, <3>1, <3>2, <4>1, <4>2 DEF Pending
      <3>3. CASE j[1] = d
        <4>1. PICK i \in DOMAIN Tail(s) : Tail(s)[i] = j[3]
          BY <1>3, <3>1, <3>3 DEF InChannel
        <4>2. i + 1 \in DOMAIN s /\ s[i + 1] = j[3] /\ i \in Nat \ {0}
          BY <1>5, <4>1
        <4>3. j[3] # a
          <5>1. i + 1 # 1
            BY <4>2
          <5> QED
            BY <1>5, <1>6, <4>2, <5>1 DEF Served, s
        <4>4. InChannel(j[1], j[3])
          BY <3>3, <4>2 DEF InChannel, s
        <4> QED
          BY <1>1, <1>8a, <3>1, <3>3, <4>3, <4>4 DEF Pending, Collecting
      <3> QED
        BY <3>2, <3>3
    <2> QED
      BY <2>1
  <1>19. r \in Peers => j0 \in Pending
    BY <1>1, <1>5, <1>7, <1>8a DEF Pending, Collecting, InChannel, s
  <1>20. SuccessInv'
    <2>0. /\ IsFiniteSet(Pending) /\ Cardinality(Pending) \in Nat
          /\ IsFiniteSet(Unreported) /\ Cardinality(Unreported) \in Nat
          /\ Cardinality(Pending') \in Nat
          /\ \A f \in DialerStats : stats[f] \in Nat
      BY <1>0, <1>11, <1>18, SumTypes, FS_Subset, FS_CardinalityType
    <2>1. /\ Cardinality(Pending') <= Cardinality(Pending)
          /\ r \in Peers => Cardinality(Pending') <= Cardinality(Pending) - 1
      <3>1. /\ IsFiniteSet(Pending \ {j0})
            /\ Cardinality(Pending \ {j0}) = IF j0 \in Pending THEN Cardinality(Pending) - 1
                                             ELSE Cardinality(Pending)
        BY <2>0, FS_RemoveElement
      <3>2. Cardinality(Pending') <= Cardinality(Pending \ {j0})
        BY <1>18, <3>1, FS_Subset
      <3> QED
        BY <1>19, <2>0, <3>1, <3>2
    <2>2. /\ stats["mismatch_peer_id"] \in Nat /\ stats["total_success"] \in Nat
          /\ stats["dialing_success"] \in Nat
          /\ stats'["total_success"] = stats["total_success"]
          /\ stats'["dialing_success"] = stats["dialing_success"]
      BY <1>9, <2>0 DEF DialerStats
    <2>3. CASE pc'[d] = "succeeded"
      <3>1. r \in Peers /\ r = peer_id[d]
        BY <1>2, <2>3
      <3>2. Unreported' = Unreported \cup {d} /\ d \notin Unreported
        BY <1>1, <2>3 DEF Unreported
      <3>3. Cardinality(Unreported') = Cardinality(Unreported) + 1
        BY <2>0, <3>2, FS_AddElement
      <3>4. stats'["mismatch_peer_id"] = stats["mismatch_peer_id"]
        BY <1>9, <3>1 DEF Mismatch
      <3> QED
        BY <2>0, <2>1, <2>2, <3>1, <3>3, <3>4 DEF ResultInv, SuccessInv
    <2>4. CASE pc'[d] # "succeeded"
      <3>1. Unreported' = Unreported
        BY <1>1, <2>4 DEF Unreported
      <3>2. CASE Mismatch(d, r)
        BY <1>9, <2>0, <2>1, <2>2, <3>1, <3>2 DEF ResultInv, SuccessInv, Mismatch
      <3>3. CASE ~Mismatch(d, r)
        BY <1>9, <2>0, <2>1, <2>2, <3>1, <3>3 DEF ResultInv, SuccessInv
      <3> QED
        BY <3>2, <3>3
    <2> QED
      BY <2>3, <2>4
  <1> QED
    BY <1>11, <1>12, <1>14, <1>15, <1>17, <1>20 DEF ResultInv
-----------------------------------------------------------------------------
(* The jobs. *)

\* A job goes on without ending, or ends after it has sent its result.
LEMMA ResultJobMoves ==
    ASSUME RefInv, JobInv, ResultInv, NEW j \in JobIds, NEW new,
           job' = [job EXCEPT ![j] = new],
           \/ job[j] \in LiveStates /\ new \in LiveStates
           \/ job[j] \in EndStates /\ new \in EndStates,
           UNCHANGED <<taskVars, outcome, stats>>
    PROVE  ResultInv'
  <1>1. UNCHANGED <<peer_id, pc, dial_count, given, to_check, addrs, rx, waiting, outcome, stats>>
    BY DEF taskVars
  <1>2. \A k \in JobIds : /\ job'[k] \in LiveStates <=> job[k] \in LiveStates
                          /\ job'[k] \in EndStates <=> job[k] \in EndStates
                          /\ job'[k] = "none" <=> job[k] = "none"
    BY DEF JobInv, LiveStates, EndStates
  <1>3. ChannelTypes'
    BY <1>1 DEF ResultInv, ChannelTypes
  <1>4. OutcomeInv'
    BY <1>1, <1>2 DEF ResultInv, OutcomeInv
  <1>5. ASSUME NEW d \in Dials
        PROVE  Jobs(d)' = Jobs(d) /\ Live(d)' = Live(d) /\ SpawnedOf(d)' = SpawnedOf(d)
               /\ Jobs(d) \subseteq JobIds /\ (\A a : InChannel(d, a)' <=> InChannel(d, a))
    <2>1. Jobs(d)' = Jobs(d) /\ Jobs(d) \subseteq JobIds
      BY <1>1 DEF Jobs
    <2>2. Live(d)' = Live(d) /\ SpawnedOf(d)' = SpawnedOf(d)
      BY <1>2, <2>1 DEF Live, SpawnedOf, LiveStates
    <2>3. \A a : InChannel(d, a)' <=> InChannel(d, a)
      BY <1>1 DEF InChannel
    <2> QED
      BY <2>1, <2>2, <2>3
  <1>6. ChannelInv'
    <2> SUFFICES ASSUME NEW d \in Dials, pc[d] \in Collecting PROVE Served(d)'
      BY <1>1 DEF ChannelInv
    <2>1. Served(d)
      BY DEF ResultInv, ChannelInv
    <2>2. \A i \in DOMAIN rx[d] : <<d, dial_count[d], rx[d][i]>> \in JobIds
      BY JobIs DEF ResultInv, ChannelTypes
    <2> QED
      BY <1>1, <1>2, <1>5, <2>1, <2>2 DEF Served
  <1>7. NoGoodMuxerLost'
    BY <1>1, <1>2, <1>5 DEF ResultInv, NoGoodMuxerLost
  <1>8. Uncounted' = Uncounted /\ LiveJobs' = LiveJobs
    BY <1>1, <1>2, <1>5, JobIs DEF Uncounted, LiveJobs
  <1>9. Pending' = Pending /\ Unreported' = Unreported
    BY <1>1, <1>5, JobIs DEF Pending, Unreported
  <1>10. CountInv' /\ SuccessInv'
    BY <1>1, <1>8, <1>9, CountKept, SuccessKept DEF ResultInv
  <1> QED
    BY <1>3, <1>4, <1>6, <1>7, <1>10 DEF ResultInv

\* A job ends: its result is sent, to the attempt that waits for it or to
\* nobody, and counted.
LEMMA ResultJobEnds ==
    ASSUME RefInv, JobInv, ResultInv, NEW j \in JobIds, NEW new \in EndStates,
           job[j] \in LiveStates, job' = [job EXCEPT ![j] = new],
           NEW r \in Peers \cup JobErrors, SendResult(j, r),
           NEW f \in CountedStats \ {"total_jobs"}, Count(f, 1),
           r \in Peers => f = "dialing_success"
    PROVE  ResultInv'
  <1> DEFINE c == j[1]
  <1>0. TaskTypes /\ ChannelTypes
    BY DEF RefInv, ResultInv
  <1>1. /\ c \in Dials /\ j[2] \in Counts /\ j[3] \in Addrs /\ j = <<c, j[2], j[3]>>
    BY JobIs
  <1>2. /\ UNCHANGED <<peer_id, pc, dial_count, given, to_check, addrs, waiting>>
        /\ outcome' = [outcome EXCEPT ![j] = r]
    BY DEF SendResult
  <1>3. r # "none" /\ r \in Outcomes
    BY PeersAssumption DEF Outcomes, JobErrors
  <1>4. /\ outcome'[j] = r /\ outcome' \in [JobIds -> Outcomes]
        /\ \A k \in JobIds \ {j} : outcome'[k] = outcome[k]
    BY <1>0, <1>2, <1>3 DEF ChannelTypes
  <1>5. job'[j] = new /\ \A k \in JobIds \ {j} : job'[k] = job[k]
    BY DEF JobInv
  <1>6. /\ stats' \in [DialerStats -> Nat] /\ stats'[f] = stats[f] + 1 /\ f \in DialerStats
        /\ \A g \in DialerStats \ {f} : stats'[g] = stats[g]
    BY <1>0, CountIs DEF CountedStats, DialerStats
  <1>7. \/ /\ pc[c] \in Collecting /\ dial_count[c] = j[2]
           /\ rx'[c] = Append(rx[c], j[3])
        \/ /\ ~(pc[c] \in Collecting /\ dial_count[c] = j[2])
           /\ rx'[c] = rx[c]
    BY <1>0, <1>1 DEF SendResult, Collecting, ChannelTypes
  <1>8. rx' \in [Dials -> Seq(Addrs)] /\ \A x \in Dials \ {c} : rx'[x] = rx[x]
    <2>1. \/ rx' = [rx EXCEPT ![c] = Append(@, j[3])]
          \/ rx' = rx
      BY DEF SendResult
    <2>2. Append(rx[c], j[3]) \in Seq(Addrs)
      BY <1>0, <1>1 DEF ChannelTypes
    <2> HIDE DEF c
    <2> QED
      BY <1>0, <1>1, <2>1, <2>2 DEF ChannelTypes
  <1> HIDE DEF c
  <1>9. ChannelTypes'
    BY <1>0, <1>2, <1>4, <1>6, <1>8 DEF ChannelTypes
  <1>10. OutcomeInv'
    BY <1>3, <1>4, <1>5 DEF ResultInv, OutcomeInv
  <1>11. ASSUME NEW x \in Dials, ~(x = c /\ dial_count[c] = j[2] /\ pc[c] \in Collecting),
                ~(x = c /\ dial_count[c] = j[2])
         PROVE  Rests(x)
    <2>1. rx'[x] = rx[x]
      BY <1>7, <1>8, <1>11
    <2>2. \A k \in JobIds : k[1] = x /\ k[2] = dial_count[x] => k # j
      BY <1>11 DEF c
    <2> QED
      BY <1>2, <1>4, <1>5, <2>1, <2>2 DEF Rests
  <1>12. \A x \in Dials : NoGoodLost(x)
    BY MuxersAre DEF ResultInv
  <1>13. job[j] # "none" /\ outcome[j] = "none"
    BY DEF ResultInv, OutcomeInv, LiveStates, EndStates
  <1>14. (dial_count[c] = j[2]) => j \in Jobs(c) /\ pc[c] \notin {"failed", "sleeping"}
    <2>1. (dial_count[c] = j[2]) => j \in Jobs(c)
      BY <1>1, JobsAre DEF c
    <2> QED
      BY <1>1, <1>12, <1>13, <2>1 DEF NoGoodLost
  <1>15. NoGoodMuxerLost'
    <2> SUFFICES ASSUME NEW x \in Dials PROVE NoGoodLost(x)'
      BY DEF NoGoodMuxerLost, NoGoodLost
    <2>1. CASE x = c /\ dial_count[c] = j[2]
      BY <1>2, <1>14, <2>1 DEF NoGoodLost
    <2>2. CASE ~(x = c /\ dial_count[c] = j[2])
      BY <1>11, <1>12, <2>2, RestsMuxers
    <2> QED
      BY <2>1, <2>2
  <1>16. ASSUME pc[c] \in Collecting, dial_count[c] = j[2] PROVE Served(c)'
    <2> DEFINE s == rx[c]  t == Append(s, j[3])
    <2>1. Served(c) /\ s \in Seq(Addrs) /\ j \in Jobs(c) /\ waiting[c] \in Nat
      BY <1>0, <1>1, <1>14, <1>16 DEF ResultInv, ChannelInv, ChannelTypes
    <2>2. rx'[c] = t
      BY <1>7, <1>16
    <2>3. PICK n : /\ DOMAIN t = DOMAIN s \cup {n} /\ n \notin DOMAIN s /\ t[n] = j[3]
                   /\ \A i \in DOMAIN s : t[i] = s[i]
                   /\ Len(t) = Len(s) + 1 /\ Len(s) \in Nat
      <3>1. /\ DOMAIN t = DOMAIN s \cup {Len(s) + 1} /\ Len(s) + 1 \notin DOMAIN s
            /\ t[Len(s) + 1] = j[3] /\ \A i \in DOMAIN s : t[i] = s[i]
            /\ Len(t) = Len(s) + 1 /\ Len(s) \in Nat
        BY <1>1, <2>1
      <3> QED
        BY <3>1
    <2>4. \A i \in DOMAIN s : /\ job[<<c, dial_count[c], s[i]>>] \in EndStates
                              /\ <<c, dial_count[c], s[i]>> \in JobIds
      BY <1>0, <1>1, <2>1, JobIs DEF Served, ChannelTypes
    <2>5. \A i \in DOMAIN s : <<c, dial_count[c], s[i]>> # j /\ s[i] # j[3]
      BY <1>1, <1>16, <2>4 DEF LiveStates, EndStates
    <2> HIDE DEF s, t
    <2>6. \A i, k \in DOMAIN t : t[i] = t[k] => i = k
      BY <2>1, <2>3, <2>5 DEF Served, s
    <2>7. \A i \in DOMAIN t : job'[<<c, dial_count[c], t[i]>>] \in EndStates
      BY <1>1, <1>5, <1>16, <2>3, <2>4, <2>5
    <2>8. Jobs(c)' = Jobs(c) /\ Jobs(c) \subseteq JobIds
      BY <1>2 DEF Jobs
    <2>9. Live(c)' = Live(c) \ {j} /\ j \in Live(c) /\ SpawnedOf(c)' = SpawnedOf(c)
      BY <1>5, <1>13, <2>1, <2>8 DEF Live, SpawnedOf, LiveStates, EndStates
    <2>10. Live(c) \subseteq JobIds
      BY <2>8 DEF Live
    <2>11. Cardinality(Live(c)') = Cardinality(Live(c)) - 1 /\ Cardinality(Live(c)) \in Nat
      BY <2>9, <2>10, JobsFinite, FS_RemoveElement
    <2>12. waiting[c] = Len(s) + Cardinality(Live(c)) /\ waiting[c] > 0
           /\ (pc[c] = "counting" => waiting[c] = Cardinality(SpawnedOf(c)))
      BY <2>1 DEF Served, s
    <2>13. waiting[c] = Len(t) + Cardinality(Live(c)')
      BY <2>3, <2>11, <2>12
    <2>14. ASSUME NEW k \in Jobs(c), job'[k] \in EndStates
           PROVE  InChannel(c, k[3])' \/ outcome'[k] # peer_id[c]
      <3>1. CASE k = j
        BY <2>2, <2>3, <3>1 DEF InChannel
      <3>2. CASE k # j
        <4>1. job[k] \in EndStates /\ outcome'[k] = outcome[k]
          BY <1>4, <1>5, <2>8, <2>14, <3>2
        <4>2. InChannel(c, k[3]) => InChannel(c, k[3])'
          BY <2>2, <2>3 DEF InChannel, s
        <4> QED
          BY <2>1, <4>1, <4>2 DEF Served
      <3> QED
        BY <3>1, <3>2
    <2> QED
      BY <1>2, <2>2, <2>6, <2>7, <2>8, <2>9, <2>12, <2>13, <2>14 DEF Served
  <1>17. ChannelInv'
    <2> SUFFICES ASSUME NEW x \in Dials, pc[x] \in Collecting PROVE Served(x)'
      BY <1>2 DEF ChannelInv
    <2>1. CASE x = c /\ dial_count[c] = j[2]
      BY <1>16, <2>1
    <2>2. CASE ~(x = c /\ dial_count[c] = j[2])
      BY <1>0, <1>2, <1>11, <2>2, RestsServed DEF ResultInv, ChannelInv
    <2> QED
      BY <2>1, <2>2
  <1>18. CountInv'
    <2>1. Uncounted' = Uncounted
      BY <1>2, <1>5, <1>13 DEF Uncounted, Jobs, EndStates
    <2>2. LiveJobs' = LiveJobs \ {j} /\ j \in LiveJobs
      BY <1>5 DEF LiveJobs, LiveStates, EndStates
    <2>3. /\ Cardinality(Uncounted) \in Nat /\ Cardinality(LiveJobs) \in Nat
          /\ IsFiniteSet(LiveJobs) /\ \A g \in DialerStats : stats[g] \in Nat
      BY <1>0, SumTypes
    <2>4. Cardinality(LiveJobs') = Cardinality(LiveJobs) - 1
      BY <2>2, <2>3, FS_RemoveElement
    <2>5. /\ \A g \in CountedStats : stats[g] \in Nat
          /\ \A g \in CountedStats \ {f} : stats'[g] = stats[g]
      BY <1>6, <2>3 DEF CountedStats, DialerStats
    <2>6. stats'["total_jobs"] = stats["total_jobs"]
      BY <2>5 DEF CountedStats
    <2>7. stats'["dialing_success"] + stats'["dialing_limit"] + stats'["dialing_timeout"]
             + stats'["transport_error"] =
          stats["dialing_success"] + stats["dialing_limit"] + stats["dialing_timeout"]
             + stats["transport_error"] + 1
      BY <1>6, <2>5 DEF CountedStats
    <2> QED
      BY <2>1, <2>3, <2>4, <2>5, <2>6, <2>7 DEF ResultInv, CountInv, CountedStats
  <1>19. Pending' \subseteq Pending \cup (IF r \in Peers THEN {j} ELSE {})
    <2> SUFFICES ASSUME NEW k \in Pending', k # j \/ r \notin Peers PROVE k \in Pending
      OBVIOUS
    <2>1. /\ k \in JobIds /\ outcome'[k] \in Peers /\ k[2] = dial_count[k[1]]
          /\ pc[k[1]] \in Collecting /\ InChannel(k[1], k[3])' /\ k[1] \in Dials
      BY <1>2, JobIs DEF Pending
    <2>2. k # j /\ outcome[k] \in Peers
      BY <1>4, <2>1
    <2>3. InChannel(k[1], k[3])
      <3>1. CASE rx'[k[1]] = rx[k[1]]
        BY <2>1, <3>1 DEF InChannel
      <3>2. CASE rx'[k[1]] # rx[k[1]]
        <4>1. k[1] = c /\ dial_count[c] = j[2] /\ rx'[c] = Append(rx[c], j[3])
          BY <1>7, <1>8, <2>1, <3>2
        <4>2. k[3] # j[3]
          BY <1>1, <2>1, <2>2, <4>1, JobIs
        <4>3. PICK i \in DOMAIN rx'[c] : rx'[c][i] = k[3]
          BY <2>1, <4>1 DEF InChannel
        <4>4. rx[c] \in Seq(Addrs)
          BY <1>0, <1>1 DEF ChannelTypes
        <4>5. i \in DOMAIN rx[c] /\ rx[c][i] = k[3]
          BY <1>1, <4>1, <4>2, <4>3, <4>4
        <4> QED
          BY <4>1, <4>5 DEF InChannel
      <3> QED
        BY <3>1, <3>2
    <2> QED
      BY <2>1, <2>2, <2>3 DEF Pending
  <1>20. SuccessInv'
    <2>0. /\ IsFiniteSet(Pending) /\ Cardinality(Pending) \in Nat
          /\ Cardinality(Unreported) \in Nat /\ Cardinality(Pending') \in Nat
          /\ stats["mismatch_peer_id"] \in Nat /\ stats["total_success"] \in Nat
          /\ stats["dialing_success"] \in Nat
      <3>1. Pending' \subseteq JobIds
        BY DEF Pending
      <3> QED
        BY <1>0, <3>1, SumTypes, JobsFinite DEF DialerStats
    <2>1. Unreported' = Unreported
      BY <1>2 DEF Unreported
    <2>2. /\ stats'["mismatch_peer_id"] = stats["mismatch_peer_id"]
          /\ stats'["total_success"] = stats["total_success"]
          /\ stats'["dialing_success"] = IF f = "dialing_success"
                                         THEN stats["dialing_success"] + 1
                                         ELSE stats["dialing_success"]
      BY <1>6 DEF CountedStats, DialerStats
    <2>3. CASE r \in Peers
      <3>1. Pending' \subseteq Pending \cup {j}
        BY <1>19, <2>3
      <3>2. Cardinality(Pending') <= Cardinality(Pending) + 1
        <4>1. IsFiniteSet(Pending \cup {j}) /\ Cardinality(Pending \cup {j}) \in Nat
              /\ Cardinality(Pending \cup {j}) <= Cardinality(Pending) + 1
          <5>1. /\ IsFiniteSet(Pending \cup {j})
                /\ Cardinality(Pending \cup {j}) = IF j \in Pending THEN Cardinality(Pending)
                                                   ELSE Cardinality(Pending) + 1
            BY <2>0, FS_AddElement
          <5> QED
            BY <2>0, <5>1
        <4>2. Cardinality(Pending') <= Cardinality(Pending \cup {j})
          BY <3>1, <4>1, FS_Subset
        <4> QED
          BY <2>0, <4>1, <4>2
      <3> QED
        BY <2>0, <2>1, <2>2, <2>3, <3>2 DEF ResultInv, SuccessInv
    <2>4. CASE r \notin Peers
      <3>1. Pending' \subseteq Pending
        BY <1>19, <2>4
      <3>2. Cardinality(Pending') <= Cardinality(Pending)
        BY <2>0, <3>1, FS_Subset
      <3>3. stats'["dialing_success"] >= stats["dialing_success"]
        BY <2>0, <2>2
      <3>4. stats'["dialing_success"] \in Nat
        BY <2>0, <2>2
      <3> QED
        BY <2>0, <2>1, <2>2, <3>2, <3>3, <3>4 DEF ResultInv, SuccessInv
    <2> QED
      BY <2>3, <2>4
  <1> QED
    BY <1>9, <1>10, <1>15, <1>17, <1>18, <1>20 DEF ResultInv
-----------------------------------------------------------------------------
(* The theorem. *)

LEMMA ResultInit ==
    ASSUME Init
    PROVE  ResultInv
  <1>1. ChannelTypes
    <2>1. stats \in [DialerStats -> Nat]
      BY DEF Init
    <2>2. DOMAIN peer_id = {}
      BY DEF Init
    <2>3. <<>> \in Seq(Addrs) /\ 1 \in Counts /\ "none" \in Outcomes
      BY CountsNat DEF Outcomes
    <2> QED
      BY <2>1, <2>2, <2>3 DEF Init, ChannelTypes
  <1>2. /\ \A d \in Dials : pc[d] = "idle"
        /\ \A j \in JobIds : job[j] = "none" /\ outcome[j] = "none"
        /\ \A f \in DialerStats : stats[f] = 0
    BY DEF Init
  <1>3. OutcomeInv /\ ChannelInv /\ NoGoodMuxerLost
    BY <1>2 DEF OutcomeInv, ChannelInv, NoGoodMuxerLost, EndStates, Collecting
  <1>4. Uncounted = {} /\ LiveJobs = {} /\ Pending = {} /\ Unreported = {}
    BY <1>2, JobIs DEF Uncounted, LiveJobs, LiveStates, Pending, Unreported, Collecting
  <1>5. CountInv /\ SuccessInv
    BY <1>2, <1>4, FS_EmptySet DEF CountInv, SuccessInv, DialerStats
  <1> QED
    BY <1>1, <1>3, <1>5 DEF ResultInv

LEMMA ResultNext ==
    ASSUME RefInv, JobInv, ResultInv, [Next]_vars
    PROVE  ResultInv'
  <1>1. ASSUME NEW d \in Dials, NEW p \in Peers,
               NEW as \in (IF UseDHT THEN {{}} ELSE SUBSET Addrs), dial(d, p, as)
        PROVE  ResultInv'
    BY <1>1, ResultDial
  <1>2. ASSUME NEW d \in Dials, DialTask(d) PROVE ResultInv'
    <2>1. CASE \E found \in (IF UseDHT THEN SUBSET Addrs ELSE {{}}) : ResolveAddrs(d, found)
      <3>1. \E found \in SUBSET Addrs : ResolveAddrs(d, found)
        BY <2>1
      <3> QED
        BY <3>1, ResultResolve
    <2>2. CASE (\E a \in Addrs : find_peer(d, a)) \/ Retry(d)
      BY <2>2, ResultResolve
    <2>3. CASE RoutingFails(d) \/ NothingToDial(d)
      BY <2>3, ResultNothing
    <2>4. CASE SpawnJobs(d)
      BY <2>4, ResultSpawn
    <2>5. CASE CountJobs(d)
      BY <2>5, ResultCount
    <2>6. CASE collect_dialing_result(d)
      BY <2>6, CollectIs, ResultCollect
    <2>7. CASE Report(d)
      BY <2>7, ResultReport
    <2> QED
      BY <1>2, <2>1, <2>2, <2>3, <2>4, <2>5, <2>6, <2>7, Zenon DEF DialTask
  <1>3. ASSUME NEW j \in JobIds, Job(j) PROVE ResultInv'
    <2>1. CASE JobRefused(j)
      <3>1. /\ job[j] \in LiveStates /\ job' = [job EXCEPT ![j] = "done"]
            /\ SendResult(j, "limit") /\ Count("dialing_limit", 1)
        BY <2>1 DEF JobRefused, LiveStates
      <3>2. "done" \in EndStates /\ "limit" \in Peers \cup JobErrors /\ "limit" \notin Peers
        BY PeersAssumption DEF EndStates, JobErrors
      <3>3. "dialing_limit" \in CountedStats \ {"total_jobs"}
        BY DEF CountedStats
      <3> QED
        BY <3>1, <3>2, <3>3, ResultJobEnds
    <2>2. CASE \E r \in Peers \cup {"transport", "timeout"} : JobDials(j, r)
      <3>1. PICK r \in Peers \cup {"transport", "timeout"} : JobDials(j, r)
        BY <2>2
      <3> DEFINE f == CASE r \in Peers -> "dialing_success"
                        [] r = "transport" -> "transport_error"
                        [] OTHER -> "dialing_timeout"
      <3>2. /\ job[j] \in LiveStates /\ job' = [job EXCEPT ![j] = "sent"]
            /\ SendResult(j, r) /\ Count(f, 1)
        BY <3>1 DEF JobDials, LiveStates
      <3>3. /\ "sent" \in EndStates /\ r \in Peers \cup JobErrors
        BY DEF EndStates, JobErrors
      <3>4. "transport" \notin Peers
        BY PeersAssumption DEF JobErrors
      <3>5. f \in CountedStats \ {"total_jobs"} /\ (r \in Peers => f = "dialing_success")
        BY <3>4 DEF CountedStats
      <3> HIDE DEF f
      <3> QED
        BY <3>2, <3>3, <3>5, ResultJobEnds
    <2>3. CASE JobAdmitted(j)
      BY <2>3, ResultJobMoves DEF JobAdmitted, LiveStates
    <2>4. CASE JobTakesToken(j)
      BY <2>4, ResultJobMoves DEF JobTakesToken, LiveStates
    <2>5. CASE JobReleasesToken(j)
      BY <2>5, ResultJobMoves DEF JobReleasesToken, EndStates
    <2> QED
      BY <1>3, <2>1, <2>2, <2>3, <2>4, <2>5, Zenon DEF Job
  <1>4. ASSUME Tick \/ CleanupScans \/ CleanupRemoves \/ DropDialer \/ UNCHANGED vars
        PROVE  ResultInv'
    <2>1. UNCHANGED <<peer_id, pc, dial_count, given, to_check, addrs, rx, waiting, job, outcome,
                      stats>>
      BY <1>4 DEF Tick, CleanupScans, CleanupRemoves, DropDialer, vars, taskVars, jobVars
    <2>2. ChannelTypes' /\ OutcomeInv'
      BY <2>1 DEF ResultInv, ChannelTypes, OutcomeInv
    <2>3. ASSUME NEW x \in Dials PROVE Rests(x)
      BY <2>1 DEF Rests
    <2>4. ChannelInv'
      BY <2>3, RestsServed DEF ResultInv, ChannelInv
    <2>5. NoGoodMuxerLost'
      BY <2>1 DEF ResultInv, NoGoodMuxerLost, Jobs
    <2>6. Uncounted' = Uncounted /\ LiveJobs' = LiveJobs /\ Pending' = Pending
          /\ Unreported' = Unreported
      BY <2>1 DEF Uncounted, Jobs, LiveJobs, Pending, InChannel, Unreported
    <2>7. CountInv' /\ SuccessInv'
      BY <2>1, <2>6, CountKept, SuccessKept DEF ResultInv
    <2> QED
      BY <2>2, <2>4, <2>5, <2>7 DEF ResultInv
  <1> QED
    BY <1>1, <1>2, <1>3, <1>4, Zenon DEF Next

\* For all dials and every configuration, the collector waits for exactly the
\* results that will come, gives up only when no job of the attempt has reached
\* the peer, and the counters know every job by how it ended.
THEOREM DialResultsAccounted == Spec => []ResultsAccounted
  <1> DEFINE IInv == RefInv /\ JobInv /\ ResultInv
  <1>1. Init => IInv
    BY RefInit, ResultInit DEF Init, JobInv, JobStates
  <1>2. IInv /\ [Next]_vars => IInv'
    BY RefNext, JobInvNext, ResultNext
  <1>3. IInv => ResultsAccounted
    <2> SUFFICES ASSUME ResultInv PROVE ResultsAccounted
      OBVIOUS
    <2>1. CollectorIsServed
      BY DEF ResultInv, ChannelInv, Served, CollectorIsServed, Collecting
    <2>2. StatsAddUp
      <3>1. /\ Cardinality(Unreported) \in Nat /\ Cardinality(Pending) \in Nat
            /\ stats["mismatch_peer_id"] \in Nat /\ stats["total_success"] \in Nat
            /\ stats["dialing_success"] \in Nat
        BY SumTypes DEF ResultInv, DialerStats
      <3>2. stats["mismatch_peer_id"] + stats["total_success"] <= stats["dialing_success"]
        BY <3>1 DEF ResultInv, SuccessInv
      <3> QED
        BY <3>2 DEF ResultInv, CountInv, LiveJobs, LiveStates, StatsAddUp
    <2> QED
      BY <2>1, <2>2 DEF ResultInv, ResultsAccounted
  <1> QED
    BY <1>1, <1>2, <1>3, PTL DEF Spec
=============================================================================
