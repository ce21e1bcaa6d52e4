------------------------- MODULE TaskLimiterProofs -------------------------
(***************************************************************************)
(* What holds of TaskLimiter for every number of tasks and tokens: its     *)
(* types, the conservation of the tokens, and that nothing runs any more   *)
(* when wait() or shutdown() returns.                                      *)
(***************************************************************************)
EXTENDS TaskLimiter, FiniteSetTheorems, TLAPS

\* The type invariant is inductive as it stands, with what the dispatcher
\* knows of the future it works on.
FutOK == pc \in {"acquire", "insert", "awaiting"} => fut \in Tasks

USE TasksAssumption, ParallelismAssumption

\* Where the dispatcher goes from a load of the snapshot.
LEMMA LoadAfterType ==
    \A f \in Stats : /\ LoadAfter[f] \in Stats \cup {"returned"}
                     /\ LoadAfter[f] \notin {"acquire", "insert", "awaiting"}
  BY DEF LoadAfter, Stats

LEMMA IncrementType ==
    ASSUME NEW f \in Stats, stat \in [Stats -> Nat], Increment(f)
    PROVE  stat' \in [Stats -> Nat]
  BY DEF Increment

LEMMA StatNames ==
    /\ "accepted" \in Stats /\ "spawned" \in Stats /\ "succeeded" \in Stats
    /\ "executed" \in Stats /\ "crashed" \in Stats /\ "canceled" \in Stats
  BY DEF Stats

LEMMA TypesInit == Init => TypeOK /\ FutOK
  <1>1. Init => FlagsOK
    BY Zenon DEF Init, FlagsOK
  <1>2. Init => DataOK /\ FutOK
    BY DEF Init, DataOK, FutOK
  <1> QED
    BY <1>1, <1>2 DEF TypeOK

LEMMA FlagsNext == FlagsOK /\ [Next]_vars => FlagsOK'
  BY Zenon DEF FlagsOK, Next, Owner, Dispatcher, Task, vars, queueVars, loopVars,
       tokenVars, taskVars, spawn, wait, shutdown, ShutdownTokens,
       ShutdownQueue, Return, CheckTerminated, Dequeue, QueueEnds, AcquireToken,
       TokensEnd, InsertHandle, CollectHandles, JoinHandle, HandleReady,
       HandlePanics, SnapshotBegins, SnapshotLoad, TaskBegins, TaskUnwinds, TaskNeverBegins,
       TaskCompletes, FeedbackToken, FeedbackHandle, FeedbackStat

\* The three kinds of steps keep the types of the data.
LEMMA OwnerTypes == DataOK /\ FutOK /\ Owner => DataOK' /\ FutOK'
  <1> SUFFICES ASSUME DataOK, FutOK PROVE Owner => DataOK' /\ FutOK'
    OBVIOUS
  <1> USE DEF DataOK, FutOK, Goto, Set, loopVars, tokenVars, taskVars
  <1>1. ASSUME NEW t \in Tasks, spawn(t) PROVE DataOK' /\ FutOK'
    <2>1. stat' \in [Stats -> Nat]
      BY <1>1, IncrementType, StatNames DEF spawn
    <2> QED
      BY <1>1, <2>1 DEF spawn
  <1>2. wait => DataOK' /\ FutOK'
    BY DEF wait
  <1>3. shutdown => DataOK' /\ FutOK'
    BY DEF shutdown
  <1>4. ShutdownTokens => DataOK' /\ FutOK'
    BY DEF ShutdownTokens
  <1>5. ShutdownQueue => DataOK' /\ FutOK'
    BY DEF ShutdownQueue
  <1>6. Return => DataOK' /\ FutOK'
    BY DEF Return
  <1> QED
    BY <1>1, <1>2, <1>3, <1>4, <1>5, <1>6, Zenon DEF Owner

LEMMA DispatcherTypes == DataOK /\ FutOK /\ Dispatcher => DataOK' /\ FutOK'
  <1> SUFFICES ASSUME DataOK, FutOK PROVE Dispatcher => DataOK' /\ FutOK'
    OBVIOUS
  <1> USE DEF DataOK, FutOK, Goto, Set, queueVars, tokenVars, taskVars
  <1>1. CheckTerminated => DataOK' /\ FutOK'
    BY DEF CheckTerminated
  <1>2. Dequeue => DataOK' /\ FutOK'
    BY DEF Dequeue
  <1>3. QueueEnds => DataOK' /\ FutOK'
    BY DEF QueueEnds
  <1>4. ASSUME AcquireToken PROVE DataOK' /\ FutOK'
    <2>1. tokens' \in Nat
      BY <1>4 DEF AcquireToken
    <2>2. fut \in Tasks
      BY <1>4 DEF AcquireToken
    <2>3. CASE terminated
      BY <1>4, <2>1, <2>2, <2>3 DEF AcquireToken
    <2>4. CASE ~terminated
      BY <1>4, <2>1, <2>2, <2>4 DEF AcquireToken
    <2> QED
      BY <2>3, <2>4
  <1>5. TokensEnd => DataOK' /\ FutOK'
    BY DEF TokensEnd
  <1>6. InsertHandle => DataOK' /\ FutOK'
    BY DEF InsertHandle
  <1>7. CollectHandles => DataOK' /\ FutOK'
    BY DEF CollectHandles
  <1>8. ASSUME NEW t \in Tasks, JoinHandle(t) PROVE DataOK' /\ FutOK'
    BY <1>8 DEF JoinHandle
  <1>9. HandleReady => DataOK' /\ FutOK'
    BY DEF HandleReady
  <1>p. HandlePanics => DataOK' /\ FutOK'
    BY DEF HandlePanics
  <1>10. SnapshotBegins => DataOK' /\ FutOK'
    BY StatNames DEF SnapshotBegins
  <1>11. ASSUME SnapshotLoad PROVE DataOK' /\ FutOK'
    <2>1. pc' \in Stats \cup {"returned"} /\ pc' \notin {"acquire", "insert", "awaiting"}
      BY <1>11, LoadAfterType DEF SnapshotLoad
    <2>2. snapshot' \in [Stats -> Nat]
      BY <1>11 DEF SnapshotLoad
    <2> QED
      BY <1>11, <2>1, <2>2 DEF SnapshotLoad
  <1> QED
    BY <1>1, <1>2, <1>3, <1>4, <1>5, <1>6, <1>7, <1>8, <1>9, <1>p, <1>10, <1>11, Zenon
       DEF Dispatcher

LEMMA TaskTypes ==
    ASSUME DataOK, FutOK, NEW t \in Tasks, Task(t)
    PROVE  DataOK' /\ FutOK'
  <1> USE DEF DataOK, FutOK, Set, queueVars, loopVars, tokenVars
  <1>1. ASSUME TaskBegins(t) PROVE DataOK' /\ FutOK'
    <2>1. stat' \in [Stats -> Nat]
      BY <1>1, IncrementType, StatNames DEF TaskBegins
    <2> QED
      BY <1>1, <2>1 DEF TaskBegins
  <1>2. ASSUME NEW ok \in BOOLEAN, TaskCompletes(t, ok) PROVE DataOK' /\ FutOK'
    <2>1. stat' \in [Stats -> Nat]
      BY <1>2, IncrementType, StatNames DEF TaskCompletes
    <2> QED
      BY <1>2, <2>1 DEF TaskCompletes
  <1>3. TaskUnwinds(t) => DataOK' /\ FutOK'
    BY DEF TaskUnwinds
  <1>4. TaskNeverBegins(t) => DataOK' /\ FutOK'
    BY DEF TaskNeverBegins
  <1>5. FeedbackToken(t) => DataOK' /\ FutOK'
    BY DEF FeedbackToken
  <1>6. FeedbackHandle(t) => DataOK' /\ FutOK'
    BY DEF FeedbackHandle
  <1>7. ASSUME FeedbackStat(t) PROVE DataOK' /\ FutOK'
    <2>1. stat' \in [Stats -> Nat]
      BY <1>7, IncrementType, StatNames DEF FeedbackStat
    <2> QED
      BY <1>7, <2>1 DEF FeedbackStat
  <1> QED
    BY <1>1, <1>2, <1>3, <1>4, <1>5, <1>6, <1>7, Zenon DEF Task

LEMMA TypesNext == TypeOK /\ FutOK /\ [Next]_vars => TypeOK' /\ FutOK'
  <1>1. DataOK /\ FutOK /\ UNCHANGED vars => DataOK' /\ FutOK'
    BY DEF DataOK, FutOK, vars, queueVars, loopVars, tokenVars, taskVars
  <1>2. DataOK /\ FutOK /\ Next => DataOK' /\ FutOK'
    BY OwnerTypes, DispatcherTypes, TaskTypes, Zenon DEF Next
  <1> QED
    BY <1>1, <1>2, FlagsNext, Zenon DEF TypeOK

\* The variables of the limiter keep their types, the counters included: no
\* step takes a token from an empty channel.
THEOREM TypeCorrect == Spec => []TypeOK
  BY TypesInit, TypesNext, PTL DEF Spec
-----------------------------------------------------------------------------
(***************************************************************************)
(* The queue.  Dequeued, a future is queued and nowhere else in the queue: *)
(* that is why the task it becomes is a new holder of a token.             *)
(***************************************************************************)
InQueue(t) == \E i \in 1..Len(queue) : queue[i] = t

QueueInv ==
    /\ \A t \in Tasks : task[t] = "idle" <=> t > stat["accepted"]
    /\ \A i \in 1..Len(queue) : task[queue[i]] = "queued"
    /\ \A i, j \in 1..Len(queue) : queue[i] = queue[j] => i = j
    /\ pc = "acquire" => task[fut] = "queued" /\ ~InQueue(fut)

\* No step but these touches the queue, and none takes a task back to "queued"
\* or "idle".
LEMMA QueueKept ==
    ASSUME DataOK, FutOK, QueueInv, UNCHANGED <<queue, fut>>,
           pc' = "acquire" => pc = "acquire",
           stat'["accepted"] = stat["accepted"],
           \A t \in Tasks : \/ task'[t] = task[t]
                            \/ /\ task[t] \notin {"idle", "queued"}
                               /\ task'[t] \notin {"idle", "queued"}
    PROVE  QueueInv'
  BY DEF QueueInv, InQueue, DataOK, FutOK

LEMMA QueueNext == DataOK /\ FutOK /\ QueueInv /\ [Next]_vars => QueueInv'
  <1> SUFFICES ASSUME DataOK, FutOK, QueueInv PROVE [Next]_vars => QueueInv'
    OBVIOUS
  <1> USE DEF Goto, Set
  <1>1. ASSUME NEW t \in Tasks, spawn(t) PROVE QueueInv'
    <2>1. /\ t = stat["accepted"] + 1 /\ queue' = Append(queue, t)
          /\ task' = [task EXCEPT ![t] = "queued"]
          /\ stat' = [stat EXCEPT !["accepted"] = @ + 1]
          /\ UNCHANGED <<pc, fut>>
      BY <1>1 DEF spawn, Increment, loopVars
    <2>2. stat["accepted"] \in Nat /\ stat'["accepted"] = stat["accepted"] + 1
      BY <2>1 DEF DataOK, Stats
    <2>3. task[t] = "idle"
      BY <2>1, <2>2 DEF QueueInv, Tasks
    <2>4. \A u \in Tasks : task'[u] = "idle" <=> u > stat'["accepted"]
      BY <2>1, <2>2, <2>3 DEF QueueInv, DataOK, Tasks
    <2>5. /\ Len(queue') = Len(queue) + 1 /\ queue'[Len(queue) + 1] = t
          /\ \A i \in 1..Len(queue) : queue'[i] = queue[i] /\ queue[i] \in Tasks
          /\ Len(queue) \in Nat
      BY <2>1 DEF DataOK
    <2>6. \A i \in 1..Len(queue) : queue[i] # t
      BY <2>3 DEF QueueInv
    <2>7. \A i \in 1..Len(queue') : task'[queue'[i]] = "queued"
      BY <2>1, <2>5 DEF QueueInv, DataOK
    <2>8. \A i, j \in 1..Len(queue') : queue'[i] = queue'[j] => i = j
      BY <2>5, <2>6 DEF QueueInv
    <2>9. pc' = "acquire" => task'[fut'] = "queued" /\ ~InQueue(fut)'
      BY <2>1, <2>3, <2>5 DEF QueueInv, InQueue, FutOK, DataOK
    <2> QED
      BY <2>4, <2>7, <2>8, <2>9 DEF QueueInv
  <1>2. ASSUME Dequeue PROVE QueueInv'
    <2>1. /\ queue # <<>> /\ fut' = Head(queue) /\ queue' = Tail(queue)
          /\ UNCHANGED <<task, stat>>
      BY <1>2 DEF Dequeue, taskVars
    <2>2. /\ Len(queue) \in Nat \ {0} /\ Len(queue') = Len(queue) - 1
          /\ \A i \in 1..Len(queue') : queue'[i] = queue[i + 1]
          /\ fut' = queue[1]
      BY <2>1 DEF DataOK
    <2>3. \A i \in 1..Len(queue') : i + 1 \in 1..Len(queue) /\ i + 1 # 1
      BY <2>2
    <2>4. 1 \in 1..Len(queue)
      BY <2>2
    <2>5. \A i \in 1..Len(queue') : task'[queue'[i]] = "queued"
      BY <2>1, <2>2, <2>3 DEF QueueInv
    <2>6. \A i, j \in 1..Len(queue') : queue'[i] = queue'[j] => i = j
      BY <2>2, <2>3 DEF QueueInv
    <2>7. task'[fut'] = "queued" /\ ~InQueue(fut)'
      BY <2>1, <2>2, <2>3, <2>4 DEF QueueInv, InQueue
    <2> QED
      BY <2>1, <2>5, <2>6, <2>7 DEF QueueInv
  <1>3. ASSUME AcquireToken PROVE QueueInv'
    <2>1. /\ pc = "acquire" /\ pc' # "acquire" /\ UNCHANGED <<queue, stat>>
          /\ fut \in Tasks
          /\ \A u \in Tasks : u # fut => task'[u] = task[u]
          /\ task'[fut] \in {"queued", "spawned"}
      BY <1>3 DEF AcquireToken, queueVars, DataOK, FutOK, QueueInv
    <2> QED
      BY <2>1 DEF QueueInv, InQueue, DataOK
  <1>4. ASSUME NEW t \in Tasks, JoinHandle(t) PROVE QueueInv'
    BY <1>4 DEF JoinHandle, QueueInv, InQueue, queueVars
  <1>5. ASSUME NEW t \in Tasks, Task(t) PROVE QueueInv'
    <2>1. UNCHANGED <<queue, fut, pc>>
      BY <1>5 DEF Task, TaskBegins, TaskUnwinds, TaskNeverBegins, TaskCompletes,
         FeedbackToken, FeedbackHandle, FeedbackStat, queueVars, loopVars
    <2>2. stat'["accepted"] = stat["accepted"]
      BY <1>5 DEF Task, TaskBegins, TaskUnwinds, TaskNeverBegins, TaskCompletes,
         FeedbackToken, FeedbackHandle, FeedbackStat, Increment, DataOK, Stats
    <2>3. \E s \in {"running", "feedback", "ended", "released", "unlisted"} :
             task' = [task EXCEPT ![t] = s]
      BY <1>5 DEF Task, TaskBegins, TaskUnwinds, TaskNeverBegins, TaskCompletes,
         FeedbackToken, FeedbackHandle, FeedbackStat
    <2>4. task[t] \notin {"idle", "queued"}
      BY <1>5 DEF Task, TaskBegins, TaskUnwinds, TaskNeverBegins, TaskCompletes,
         FeedbackToken, FeedbackHandle, FeedbackStat
    <2>5. \A u \in Tasks : \/ task'[u] = task[u]
                           \/ /\ task[u] \notin {"idle", "queued"}
                              /\ task'[u] \notin {"idle", "queued"}
      BY <2>3, <2>4 DEF DataOK
    <2> QED
      BY <2>1, <2>2, <2>5, QueueKept
  <1>6. ASSUME UNCHANGED <<queue, fut, task, stat>>, pc' = "acquire" => pc = "acquire"
        PROVE  QueueInv'
    BY <1>6 DEF QueueInv, InQueue
  <1>7. ASSUME wait \/ shutdown \/ ShutdownTokens \/ ShutdownQueue \/ Return
        PROVE  QueueInv'
    BY <1>6, <1>7 DEF wait, shutdown, ShutdownTokens, ShutdownQueue, Return,
                      loopVars, taskVars
  <1>8. ASSUME CheckTerminated \/ QueueEnds \/ TokensEnd \/ InsertHandle
                 \/ CollectHandles \/ HandleReady \/ HandlePanics \/ SnapshotBegins
                 \/ SnapshotLoad
        PROVE  QueueInv'
    BY <1>6, <1>8, LoadAfterType DEF CheckTerminated, QueueEnds, TokensEnd, InsertHandle,
       CollectHandles, HandleReady, HandlePanics, SnapshotBegins, SnapshotLoad,
       queueVars, taskVars
  <1>9. UNCHANGED vars => QueueInv'
    BY <1>6 DEF vars, queueVars, loopVars, taskVars
  <1> QED
    BY <1>1, <1>2, <1>3, <1>4, <1>5, <1>7, <1>8, <1>9, Zenon
       DEF Next, Owner, Dispatcher
-----------------------------------------------------------------------------
(***************************************************************************)
(* The tokens.  Only shutdown closes the channel and aborts tasks, and it  *)
(* raises the flag first: before that every token is somewhere.            *)
(***************************************************************************)
AbortInv == /\ caller \in {"terminating", "closing"} => terminated
            /\ tokens_closed => terminated
            /\ aborted # {} => terminated

LEMMA AbortNext == AbortInv /\ [Next]_vars => AbortInv'
  <1> SUFFICES ASSUME AbortInv PROVE [Next]_vars => AbortInv'
    OBVIOUS
  <1>1. ASSUME UNCHANGED <<tokens_closed, aborted>>, terminated => terminated',
               caller' \in {"terminating", "closing"} => terminated' \/ caller' = caller
        PROVE  AbortInv'
    BY <1>1 DEF AbortInv
  <1>2. ASSUME NEW t \in Tasks, JoinHandle(t) PROVE AbortInv'
    BY <1>2 DEF JoinHandle, AbortInv, tokenVars, queueVars
  <1>o. UNCHANGED vars \/ Owner => AbortInv'
    <2>1. ShutdownTokens => AbortInv'
      BY DEF ShutdownTokens, AbortInv, taskVars
    <2>2. ASSUME \E t \in Tasks : spawn(t) PROVE AbortInv'
      BY <1>1, <2>2 DEF spawn, tokenVars
    <2>3. wait \/ shutdown \/ ShutdownQueue \/ Return => AbortInv'
      BY <1>1 DEF wait, shutdown, ShutdownQueue, Return, tokenVars, taskVars
    <2>4. UNCHANGED vars => AbortInv'
      BY <1>1 DEF vars, tokenVars, taskVars, queueVars
    <2> QED
      BY <2>1, <2>2, <2>3, <2>4, Zenon DEF Owner
  <1>d. Dispatcher => AbortInv'
    <2>1. Dequeue \/ AcquireToken => AbortInv'
      BY <1>1 DEF Dequeue, AcquireToken, tokenVars, taskVars, queueVars
    <2>2. CheckTerminated \/ QueueEnds \/ TokensEnd \/ InsertHandle \/ CollectHandles
            \/ HandleReady \/ HandlePanics \/ SnapshotBegins \/ SnapshotLoad => AbortInv'
      BY <1>1 DEF CheckTerminated, QueueEnds, TokensEnd, InsertHandle, CollectHandles,
         HandleReady, HandlePanics, SnapshotBegins, SnapshotLoad, tokenVars,
         taskVars, queueVars
    <2> QED
      BY <1>2, <2>1, <2>2, Zenon DEF Dispatcher
  <1>t. ASSUME NEW t \in Tasks, Task(t) PROVE AbortInv'
    BY <1>1, <1>t DEF Task, TaskBegins, TaskUnwinds, TaskNeverBegins, TaskCompletes,
       FeedbackToken, FeedbackHandle, FeedbackStat, tokenVars, queueVars
  <1> QED
    BY <1>o, <1>d, <1>t, Zenon DEF Next

LEMMA HoldersFinite == IsFiniteSet(Holders) /\ Cardinality(Holders) \in Nat
  <1>1. IsFiniteSet(Tasks)
    BY FS_Interval DEF Tasks
  <1>2. Holders \in SUBSET Tasks
    BY DEF Holders
  <1>3. IsFiniteSet(Holders)
    BY <1>1, <1>2, FS_Subset
  <1> QED
    BY <1>3, FS_CardinalityType

\* A step that moves no token and no task across the edge of Holders.
LEMMA TokensKept ==
    ASSUME TokensConserved, UNCHANGED tokens, terminated => terminated',
           Holders' = Holders
    PROVE  TokensConserved'
  BY DEF TokensConserved

LEMMA TokensNext ==
    DataOK /\ FutOK /\ QueueInv /\ AbortInv /\ TokensConserved /\ [Next]_vars
        => TokensConserved'
  <1> SUFFICES ASSUME DataOK, FutOK, QueueInv, AbortInv, TokensConserved
               PROVE  [Next]_vars => TokensConserved'
    OBVIOUS
  <1> USE DEF Goto, Set
  <1>0. tokens \in Nat /\ Cardinality(Holders) \in Nat /\ IsFiniteSet(Holders)
    BY HoldersFinite DEF DataOK
  <1>1. ASSUME AcquireToken PROVE TokensConserved'
    <2>1. tokens' = tokens - 1 /\ tokens > 0 /\ terminated' = terminated
      BY <1>1 DEF AcquireToken, queueVars
    <2>2. CASE terminated
      <3>1. Holders' = Holders
        BY <1>1, <2>2 DEF AcquireToken, Holders
      <3> QED
        BY <1>0, <2>1, <2>2, <3>1 DEF TokensConserved
    <2>3. CASE ~terminated
      <3>1. fut \in Tasks /\ task[fut] = "queued"
        BY <1>1 DEF AcquireToken, FutOK, QueueInv
      <3>2. fut \notin Holders
        BY <3>1 DEF Holders
      <3>3. task' = [task EXCEPT ![fut] = "spawned"]
        BY <1>1, <2>3 DEF AcquireToken
      <3>4. Holders' = Holders \cup {fut}
        BY <3>1, <3>3 DEF Holders, DataOK
      <3>5. Cardinality(Holders') = Cardinality(Holders) + 1
        BY <1>0, <3>2, <3>4, FS_AddElement
      <3> QED
        BY <1>0, <2>1, <3>5 DEF TokensConserved
    <2> QED
      BY <2>2, <2>3
  <1>2. ASSUME NEW t \in Tasks, FeedbackToken(t) PROVE TokensConserved'
    <2>1. /\ task[t] = "feedback" /\ task' = [task EXCEPT ![t] = "released"]
          /\ terminated' = terminated
      BY <1>2 DEF FeedbackToken, queueVars
    <2>2. t \in Holders /\ Holders' = Holders \ {t}
      BY <2>1 DEF Holders, DataOK
    <2>3. Cardinality(Holders') = Cardinality(Holders) - 1
      BY <1>0, <2>2, FS_RemoveElement
    <2>4. tokens' = tokens + 1 \/ (terminated /\ tokens' = tokens)
      BY <1>2 DEF FeedbackToken, AbortInv
    <2> QED
      BY <1>0, <2>1, <2>3, <2>4 DEF TokensConserved
  <1>3. ASSUME NEW t \in Tasks, TaskNeverBegins(t) PROVE TokensConserved'
    <2>1. /\ task[t] = "spawned" /\ task' = [task EXCEPT ![t] = "ended"]
          /\ terminated' = terminated /\ tokens' = tokens /\ terminated
      BY <1>3 DEF TaskNeverBegins, queueVars, tokenVars, AbortInv
    <2>2. t \in Holders /\ Holders' = Holders \ {t}
      BY <2>1 DEF Holders, DataOK
    <2>3. Cardinality(Holders') = Cardinality(Holders) - 1
      BY <1>0, <2>2, FS_RemoveElement
    <2> QED
      BY <1>0, <2>1, <2>3 DEF TokensConserved
  <1>4. ASSUME NEW t \in Tasks,
               \/ TaskBegins(t) \/ TaskUnwinds(t) \/ FeedbackHandle(t)
               \/ FeedbackStat(t) \/ \E ok \in BOOLEAN : TaskCompletes(t, ok)
        PROVE  TokensConserved'
    <2>1. UNCHANGED tokens /\ terminated' = terminated
      BY <1>4 DEF TaskBegins, TaskUnwinds, FeedbackHandle, FeedbackStat,
         TaskCompletes, tokenVars, queueVars
    <2>2. \E s \in {"running", "feedback", "unlisted", "ended"} :
             /\ task' = [task EXCEPT ![t] = s]
             /\ s \in {"running", "feedback"} <=>
                  task[t] \in {"spawned", "running", "feedback"}
      BY <1>4 DEF TaskBegins, TaskUnwinds, FeedbackHandle, FeedbackStat, TaskCompletes
    <2>3. Holders' = Holders
      BY <2>2 DEF Holders, DataOK
    <2> QED
      BY <2>1, <2>3, TokensKept
  <1>5. ASSUME NEW t \in Tasks, spawn(t) PROVE TokensConserved'
    <2>1. /\ task' = [task EXCEPT ![t] = "queued"] /\ t = stat["accepted"] + 1
          /\ UNCHANGED tokens /\ terminated' = terminated
      BY <1>5 DEF spawn, tokenVars
    <2>2. task[t] = "idle"
      BY <2>1 DEF QueueInv, DataOK, Stats, Tasks
    <2>3. Holders' = Holders
      BY <2>1, <2>2 DEF Holders, DataOK
    <2> QED
      BY <2>1, <2>3, TokensKept
  <1>6. ASSUME UNCHANGED <<task, tokens>>, terminated => terminated'
        PROVE  TokensConserved'
    BY <1>6, TokensKept DEF Holders
  <1>7. ASSUME wait \/ shutdown \/ ShutdownTokens \/ ShutdownQueue \/ Return
                 \/ UNCHANGED vars
        PROVE  TokensConserved'
    BY <1>6, <1>7 DEF wait, shutdown, ShutdownTokens, ShutdownQueue, Return, vars,
                      queueVars, tokenVars, taskVars
  <1>8. ASSUME \/ CheckTerminated \/ Dequeue \/ QueueEnds \/ TokensEnd \/ InsertHandle
               \/ CollectHandles \/ HandleReady \/ HandlePanics \/ SnapshotBegins
               \/ SnapshotLoad
               \/ \E t \in Tasks : JoinHandle(t)
        PROVE  TokensConserved'
    BY <1>6, <1>8 DEF CheckTerminated, Dequeue, QueueEnds, TokensEnd, InsertHandle,
       CollectHandles, HandleReady, HandlePanics, SnapshotBegins, SnapshotLoad,
       JoinHandle,
       queueVars, tokenVars, taskVars
  <1> QED
    BY <1>1, <1>2, <1>3, <1>4, <1>5, <1>7, <1>8, Zenon
       DEF Next, Owner, Dispatcher, Task

LEMMA InvInit == Init => QueueInv /\ AbortInv /\ TokensConserved
  <1> SUFFICES ASSUME Init PROVE QueueInv /\ AbortInv /\ TokensConserved
    OBVIOUS
  <1>1. QueueInv
    BY DEF Init, QueueInv, InQueue, Tasks, Stats
  <1>2. AbortInv
    BY Zenon DEF Init, AbortInv
  <1>3. Holders = {} /\ tokens = Parallelism
    BY DEF Init, Holders
  <1>4. TokensConserved
    BY <1>3, FS_EmptySet DEF TokensConserved
  <1> QED
    BY <1>1, <1>2, <1>4

\* For every number of tasks and tokens: no panic and no cancellation swallows a
\* token while the limiter is in use, and none is ever made up.
THEOREM TokensAreConserved == Spec => []TokensConserved
  <1> DEFINE IInv == /\ TypeOK /\ FutOK /\ QueueInv /\ AbortInv /\ TokensConserved
  <1>1. Init => IInv
    BY TypesInit, InvInit, Zenon
  <1>2. IInv /\ [Next]_vars => IInv'
    BY TypesNext, QueueNext, AbortNext, TokensNext, Zenon DEF TypeOK
  <1> QED
    BY <1>1, <1>2, PTL DEF Spec
-----------------------------------------------------------------------------
(***************************************************************************)
(* The end.  The dispatcher leaves its loop when the flag is up or when    *)
(* the queue is closed and empty; no future comes after that.              *)
(***************************************************************************)
Late == {"collect", "join", "awaiting", "panicked", "returned"} \cup Stats

EndInv == /\ enqueue_closed => caller # "using"
          /\ terminated => caller # "using"
          /\ pc \in Late => caller # "using" /\ (terminated \/ queue = <<>>)

\* A queued future is still to come, unless the flag has made the dispatcher
\* drop it.
QueuedInv == \A t \in Tasks :
    task[t] = "queued" => terminated \/ InQueue(t) \/ (pc = "acquire" /\ t = fut)

\* A task that may still run has its handle in the map or is about to have it
\* there; once the map is emptied, its handle is still to be awaited.
Active(t) == task[t] \in {"spawned", "running", "feedback", "released"}
Listed(t) ==
    /\ pc \in {"top", "dequeue", "acquire", "insert", "collect"} =>
          t \in handles \/ (pc = "insert" /\ t = fut)
    /\ pc \in {"join", "awaiting"} => t \in joining \/ (pc = "awaiting" /\ t = fut)
    /\ pc \notin Stats \cup {"returned"}
HandleInv == \A t \in Tasks : Active(t) => Listed(t)

LEMMA EndNext == DataOK /\ AbortInv /\ EndInv /\ [Next]_vars => EndInv'
  <1> SUFFICES ASSUME DataOK, AbortInv, EndInv PROVE [Next]_vars => EndInv'
    OBVIOUS
  <1> USE DEF EndInv, Late, Goto, Stats
  <1>1. ASSUME NEW t \in Tasks, spawn(t) PROVE EndInv'
    BY <1>1 DEF spawn, loopVars
  <1>2. wait => EndInv'
    BY DEF wait, loopVars
  <1>3. shutdown => EndInv'
    BY DEF shutdown, loopVars
  <1>4. ShutdownTokens => EndInv'
    BY DEF ShutdownTokens, loopVars
  <1>5. ShutdownQueue => EndInv'
    BY DEF ShutdownQueue, loopVars
  <1>6. Return => EndInv'
    BY DEF Return, loopVars
  <1>7. CheckTerminated \/ QueueEnds => EndInv'
    BY DEF CheckTerminated, QueueEnds, queueVars
  <1>8. AcquireToken \/ TokensEnd \/ Dequeue => EndInv'
    BY DEF AcquireToken, TokensEnd, Dequeue, queueVars, AbortInv
  <1>9. \/ InsertHandle \/ CollectHandles \/ HandleReady \/ HandlePanics
        \/ SnapshotBegins \/ SnapshotLoad
        => EndInv'
    BY LoadAfterType DEF InsertHandle, CollectHandles, HandleReady, HandlePanics,
           SnapshotBegins, SnapshotLoad,
           queueVars
  <1>10. ASSUME NEW t \in Tasks, JoinHandle(t) PROVE EndInv'
    BY <1>10 DEF JoinHandle, queueVars
  <1>11. ASSUME NEW t \in Tasks, Task(t) PROVE EndInv'
    BY <1>11 DEF Task, TaskBegins, TaskUnwinds, TaskNeverBegins, TaskCompletes,
       FeedbackToken, FeedbackHandle, FeedbackStat, queueVars, loopVars
  <1>12. UNCHANGED vars => EndInv'
    BY DEF vars, queueVars, loopVars
  <1> QED
    BY <1>1, <1>2, <1>3, <1>4, <1>5, <1>6, <1>7, <1>8, <1>9, <1>10, <1>11, <1>12,
       Zenon DEF Next, Owner, Dispatcher

LEMMA QueuedNext ==
    DataOK /\ FutOK /\ AbortInv /\ QueuedInv /\ [Next]_vars => QueuedInv'
  <1> SUFFICES ASSUME DataOK, FutOK, AbortInv, QueuedInv PROVE [Next]_vars => QueuedInv'
    OBVIOUS
  <1> USE DEF Goto, Set
  <1>1. ASSUME NEW t \in Tasks, spawn(t) PROVE QueuedInv'
    <2>1. /\ queue' = Append(queue, t) /\ task' = [task EXCEPT ![t] = "queued"]
          /\ UNCHANGED <<pc, fut>> /\ terminated' = terminated
      BY <1>1 DEF spawn, loopVars
    <2>2. InQueue(t)'
      BY <2>1 DEF InQueue, DataOK
    <2>3. \A u \in Tasks : InQueue(u) => InQueue(u)'
      BY <2>1 DEF InQueue, DataOK
    <2> QED
      BY <2>1, <2>2, <2>3 DEF QueuedInv, DataOK
  <1>2. ASSUME Dequeue PROVE QueuedInv'
    <2>1. /\ fut' = Head(queue) /\ queue' = Tail(queue) /\ queue # <<>>
          /\ pc = "dequeue" /\ pc' = "acquire" /\ UNCHANGED task
          /\ terminated' = terminated
      BY <1>2 DEF Dequeue, taskVars
    <2>2. \A u \in Tasks : InQueue(u) => u = fut' \/ InQueue(u)'
      <3> SUFFICES ASSUME NEW u \in Tasks, NEW i \in 1..Len(queue), queue[i] = u, i # 1
                   PROVE  \E j \in 1..Len(queue') : queue'[j] = u
        BY <2>1 DEF InQueue, DataOK
      <3>1. i - 1 \in 1..Len(queue') /\ queue'[i - 1] = u
        BY <2>1 DEF DataOK
      <3> QED
        BY <3>1
    <2> QED
      BY <2>1, <2>2 DEF QueuedInv
  <1>3. ASSUME AcquireToken PROVE QueuedInv'
    <2>1. /\ fut \in Tasks /\ UNCHANGED queue /\ pc = "acquire"
          /\ terminated' = terminated
      BY <1>3 DEF AcquireToken, FutOK, queueVars
    <2>2. ~terminated => task' = [task EXCEPT ![fut] = "spawned"]
      BY <1>3 DEF AcquireToken
    <2>3. \A u \in Tasks : InQueue(u) <=> InQueue(u)'
      BY <2>1 DEF InQueue
    <2> QED
      BY <2>1, <2>2, <2>3 DEF QueuedInv, DataOK
  <1>4. TokensEnd => QueuedInv'
    BY DEF TokensEnd, QueuedInv, AbortInv, queueVars
  <1>5. ASSUME UNCHANGED <<queue, fut>>, terminated => terminated',
               pc = "acquire" => pc' = "acquire",
               \A t \in Tasks : task'[t] = "queued" => task[t] = "queued"
        PROVE  QueuedInv'
    BY <1>5 DEF QueuedInv, InQueue
  <1>6. ASSUME NEW t \in Tasks, JoinHandle(t) PROVE QueuedInv'
    BY <1>6 DEF JoinHandle, QueuedInv, InQueue, queueVars
  <1>7. ASSUME NEW t \in Tasks, Task(t) PROVE QueuedInv'
    <2>1. \E s \in {"running", "feedback", "ended", "released", "unlisted"} :
             task' = [task EXCEPT ![t] = s]
      BY <1>7 DEF Task, TaskBegins, TaskUnwinds, TaskNeverBegins, TaskCompletes,
         FeedbackToken, FeedbackHandle, FeedbackStat
    <2>2. \A u \in Tasks : task'[u] = "queued" => task[u] = "queued"
      BY <2>1 DEF DataOK
    <2>3. UNCHANGED <<queue, fut, pc>> /\ terminated' = terminated
      BY <1>7 DEF Task, TaskBegins, TaskUnwinds, TaskNeverBegins, TaskCompletes,
         FeedbackToken, FeedbackHandle, FeedbackStat, queueVars, loopVars
    <2> QED
      BY <1>5, <2>2, <2>3
  <1>8. wait \/ shutdown \/ ShutdownTokens \/ ShutdownQueue \/ Return => QueuedInv'
    BY <1>5 DEF wait, shutdown, ShutdownTokens, ShutdownQueue, Return, loopVars, taskVars
  <1>9. \/ CheckTerminated \/ QueueEnds \/ InsertHandle \/ CollectHandles
        \/ HandleReady \/ HandlePanics \/ SnapshotBegins \/ SnapshotLoad
        => QueuedInv'
    BY <1>5 DEF Stats, CheckTerminated, QueueEnds, InsertHandle, CollectHandles,
       HandleReady, HandlePanics, SnapshotBegins, SnapshotLoad, queueVars, taskVars
  <1>10. UNCHANGED vars => QueuedInv'
    BY <1>5 DEF vars, queueVars, loopVars, taskVars
  <1> QED
    BY <1>1, <1>2, <1>3, <1>4, <1>6, <1>7, <1>8, <1>9, <1>10, Zenon
       DEF Next, Owner, Dispatcher

LEMMA HandleNext == DataOK /\ FutOK /\ HandleInv /\ [Next]_vars => HandleInv'
  <1> SUFFICES ASSUME DataOK, FutOK, HandleInv PROVE [Next]_vars => HandleInv'
    OBVIOUS
  <1> USE DEF Goto, Set, Stats
  <1>1. ASSUME AcquireToken PROVE HandleInv'
    <2>1. /\ fut \in Tasks /\ pc = "acquire" /\ UNCHANGED <<fut, handles>>
          /\ \/ pc' = "collect" /\ UNCHANGED task
             \/ pc' = "insert" /\ task' = [task EXCEPT ![fut] = "spawned"]
      BY <1>1 DEF AcquireToken, FutOK
    <2> QED
      BY <2>1 DEF HandleInv, Active, Listed, DataOK
  <1>2. InsertHandle => HandleInv'
    BY DEF InsertHandle, HandleInv, Active, Listed, taskVars
  <1>3. CollectHandles => HandleInv'
    BY DEF CollectHandles, HandleInv, Active, Listed, taskVars
  <1>4. ASSUME NEW t \in Tasks, JoinHandle(t) PROVE HandleInv'
    BY <1>4 DEF JoinHandle, HandleInv, Active, Listed
  <1>5. HandleReady \/ HandlePanics => HandleInv'
    BY DEF HandleReady, HandlePanics, HandleInv, Active, Listed, taskVars
  <1>6. SnapshotBegins \/ SnapshotLoad => HandleInv'
    BY LoadAfterType DEF SnapshotBegins, SnapshotLoad, HandleInv, Active, Listed, taskVars
  <1>7. CheckTerminated \/ Dequeue \/ QueueEnds \/ TokensEnd => HandleInv'
    BY DEF CheckTerminated, Dequeue, QueueEnds, TokensEnd, HandleInv, Active, Listed,
           taskVars
  <1>8. ASSUME UNCHANGED <<pc, fut, joining>>,
               \A t \in Tasks : Active(t)' => /\ Active(t)
                                              /\ t \in handles => t \in handles'
        PROVE  HandleInv'
    BY <1>8 DEF HandleInv, Listed
  <1>9. ASSUME NEW t \in Tasks, spawn(t) PROVE HandleInv'
    <2>1. task' = [task EXCEPT ![t] = "queued"] /\ UNCHANGED <<pc, fut, joining, handles>>
      BY <1>9 DEF spawn, loopVars
    <2> QED
      BY <1>8, <2>1 DEF Active, DataOK
  <1>10. ASSUME NEW t \in Tasks, FeedbackHandle(t) PROVE HandleInv'
    <2>1. /\ task' = [task EXCEPT ![t] = "unlisted"] /\ UNCHANGED <<pc, fut, joining>>
          /\ handles' = handles \ {t}
      BY <1>10 DEF FeedbackHandle, loopVars
    <2> QED
      BY <1>8, <2>1 DEF Active, DataOK
  <1>11. ASSUME NEW t \in Tasks,
                \/ TaskBegins(t) \/ TaskUnwinds(t) \/ FeedbackToken(t)
                \/ TaskNeverBegins(t) \/ FeedbackStat(t)
                \/ \E ok \in BOOLEAN : TaskCompletes(t, ok)
         PROVE  HandleInv'
    <2>1. UNCHANGED <<pc, fut, joining, handles>>
      BY <1>11 DEF TaskBegins, TaskUnwinds, FeedbackToken, TaskNeverBegins,
         FeedbackStat, TaskCompletes, loopVars
    <2>2. \E s \in {"running", "feedback", "released", "ended"} :
             /\ task' = [task EXCEPT ![t] = s]
             /\ s # "ended" => task[t] \in {"spawned", "running", "feedback"}
      BY <1>11 DEF TaskBegins, TaskUnwinds, FeedbackToken, TaskNeverBegins,
         FeedbackStat, TaskCompletes
    <2> QED
      BY <1>8, <2>1, <2>2 DEF Active, DataOK
  <1>12. ASSUME wait \/ shutdown \/ ShutdownTokens \/ ShutdownQueue \/ Return
                  \/ UNCHANGED vars
         PROVE  HandleInv'
    BY <1>8, <1>12 DEF wait, shutdown, ShutdownTokens, ShutdownQueue, Return, vars,
                Active, loopVars, taskVars
  <1> QED
    BY <1>1, <1>2, <1>3, <1>4, <1>5, <1>6, <1>7, <1>9, <1>10, <1>11, <1>12, Zenon
       DEF Next, Owner, Dispatcher, Task

LEMMA EndInit == Init => EndInv /\ QueuedInv /\ HandleInv
  BY DEF Init, EndInv, QueuedInv, HandleInv, Active, Late, Stats

\* For every number of tasks and tokens: when wait() or shutdown() takes its
\* Snapshot, every task has given its token back and left the map; the futures
\* that never became tasks were dropped by shutdown().
THEOREM NothingRunsAfterJoin == Spec => []JoinedAll
  <1> DEFINE IInv == /\ TypeOK /\ FutOK /\ AbortInv
                     /\ EndInv /\ QueuedInv /\ HandleInv
  <1>1. Init => IInv
    BY TypesInit, InvInit, EndInit, Zenon
  <1>2. IInv /\ [Next]_vars => IInv'
    BY TypesNext, AbortNext, EndNext, QueuedNext, HandleNext, Zenon DEF TypeOK
  <1>3. IInv => JoinedAll
    <2> SUFFICES ASSUME DataOK, EndInv, QueuedInv, HandleInv,
                        pc \in Stats \cup {"returned"}, NEW t \in Tasks
                 PROVE  \/ task[t] \in {"idle", "unlisted", "ended"}
                        \/ terminated /\ task[t] = "queued"
      BY DEF JoinedAll, TypeOK
    <2>1. task[t] = "queued" => terminated
      BY DEF QueuedInv, InQueue, EndInv, Late, Stats
    <2>2. ~Active(t)
      BY DEF HandleInv, Listed
    <2> QED
      BY <2>1, <2>2 DEF Active, DataOK
  <1> QED
    BY <1>1, <1>2, <1>3, PTL DEF Spec
=============================================================================
