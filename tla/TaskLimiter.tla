---------------------------- MODULE TaskLimiter ----------------------------
(***************************************************************************)
(* TaskLimiter (runtime/src/limit.rs): a dispatcher task takes futures     *)
(* from a queue, and spawns each of them when it gets one of Parallelism   *)
(* tokens.  A task that ends, by itself, by a panic or because it is       *)
(* cancelled, gives its token back, takes its handle out of the map and    *)
(* counts itself, in three steps (GuardInner::feedback).  wait() and       *)
(* shutdown() close the queue; the dispatcher then takes the handles that  *)
(* are left in the map, awaits or cancels them, and returns a Snapshot.    *)
(*                                                                         *)
(* Kademlia runs its queries and its announcements in such limiters, on a  *)
(* runtime with several threads: every atomic, channel and lock operation  *)
(* is a step.  The two runtimes differ in one point: the await of a task   *)
(* that panicked yields None with tokio and panics with async_std; both    *)
(* outcomes are modelled.                                                  *)
(***************************************************************************)
EXTENDS Integers, Sequences, FiniteSets

CONSTANTS MaxTasks,       \* bound on the futures given to spawn
          Parallelism

ASSUME TasksAssumption == MaxTasks \in Nat
ASSUME ParallelismAssumption == Parallelism \in Nat \ {0}    \* a NonZeroUsize

VARIABLES
    queue,            \* enqueue/dequeue
    enqueue_closed,
    tokens,           \* in the token channel
    tokens_closed,
    terminated,       \* Termination
    pc,               \* where the dispatcher is
    fut,              \* the future, or the handle, it works on
    handles,          \* the shared map of handles
    joining,          \* the handles taken out of it at the end
    task,             \* where every future is
    normal,           \* the argument of feedback
    aborted,          \* TaskHandle::cancel was called
    stat,
    caller,           \* the owner of the TaskLimiter
    snapshot          \* of the dispatcher

queueVars == <<queue, enqueue_closed, terminated, caller>>
loopVars  == <<pc, fut, joining, snapshot>>
tokenVars == <<tokens, tokens_closed>>
taskVars  == <<task, normal, aborted>>
vars == <<queueVars, loopVars, tokenVars, taskVars, handles, stat>>

Tasks == 1..MaxTasks        \* the futures, in the order of spawn: task_id
None == 0
Stats == {"accepted", "spawned", "executed", "crashed", "canceled", "succeeded"}
LoadAfter == [f \in Stats |->       \* where the dispatcher is after loading f
    CASE f = "accepted" -> "spawned"  [] f = "spawned"  -> "executed"
      [] f = "executed" -> "crashed"  [] f = "crashed"  -> "canceled"
      [] f = "canceled" -> "succeeded" [] f = "succeeded" -> "returned"]
Increment(f) == stat' = [stat EXCEPT ![f] = @ + 1]
Goto(l) == pc' = l
Set(t, s) == task' = [task EXCEPT ![t] = s]

Init ==
    /\ queue = <<>> /\ enqueue_closed = FALSE
    /\ tokens = Parallelism /\ tokens_closed = FALSE     \* pre-filled
    /\ terminated = FALSE
    /\ pc = "top" /\ fut = None /\ handles = {} /\ joining = {}
    /\ task = [t \in Tasks |-> "idle"]
    /\ normal = [t \in Tasks |-> FALSE] /\ aborted = {}
    /\ stat = [f \in Stats |-> 0]
    /\ caller = "using" /\ snapshot = stat
-----------------------------------------------------------------------------
(* The owner. *)

spawn(t) ==
    /\ caller = "using" /\ t = stat["accepted"] + 1
    /\ Set(t, "queued")
    /\ queue' = Append(queue, t)
    /\ Increment("accepted")
    /\ UNCHANGED <<enqueue_closed, terminated, caller, loopVars, tokenVars,
                   normal, aborted, handles>>

wait ==
    /\ caller = "using"
    /\ caller' = "waiting"
    /\ enqueue_closed' = TRUE
    /\ UNCHANGED <<queue, terminated, loopVars, tokenVars, taskVars, handles, stat>>

\* shutdown: the flag, the token channel and the queue, one after the other.
shutdown ==
    /\ caller = "using"
    /\ caller' = "terminating"
    /\ terminated' = TRUE
    /\ UNCHANGED <<queue, enqueue_closed, loopVars, tokenVars, taskVars, handles, stat>>

ShutdownTokens ==
    /\ caller = "terminating"
    /\ caller' = "closing"
    /\ tokens_closed' = TRUE
    /\ UNCHANGED <<queue, enqueue_closed, terminated, loopVars, tokens, taskVars,
                   handles, stat>>

ShutdownQueue ==
    /\ caller = "closing"
    /\ caller' = "waiting"
    /\ enqueue_closed' = TRUE
    /\ UNCHANGED <<queue, terminated, loopVars, tokenVars, taskVars, handles, stat>>

\* The result of the dispatcher, or its panic, is that of wait and shutdown.
Return ==
    /\ caller = "waiting" /\ pc \in {"returned", "panicked"}
    /\ caller' = pc
    /\ UNCHANGED <<queue, enqueue_closed, terminated, loopVars, tokenVars,
                   taskVars, handles, stat>>
-----------------------------------------------------------------------------
(* The dispatcher. *)

CheckTerminated ==
    /\ pc = "top"
    /\ Goto(IF terminated THEN "collect" ELSE "dequeue")
    /\ UNCHANGED <<queueVars, fut, joining, snapshot, tokenVars, taskVars,
                   handles, stat>>

Dequeue ==
    /\ pc = "dequeue" /\ queue # <<>>
    /\ fut' = Head(queue) /\ queue' = Tail(queue)
    /\ Goto("acquire")
    /\ UNCHANGED <<enqueue_closed, terminated, caller, joining, snapshot,
                   tokenVars, taskVars, handles, stat>>

QueueEnds ==
    /\ pc = "dequeue" /\ queue = <<>> /\ enqueue_closed
    /\ Goto("collect")
    /\ UNCHANGED <<queueVars, fut, joining, snapshot, tokenVars, taskVars,
                   handles, stat>>

\* token_acquire.next(), and the flag once more.  A channel that was closed
\* still yields the tokens that are in it.
AcquireToken ==
    /\ pc = "acquire" /\ tokens > 0
    /\ tokens' = tokens - 1
    /\ IF terminated THEN Goto("collect") /\ UNCHANGED task
                     ELSE Goto("insert") /\ Set(fut, "spawned")
    /\ UNCHANGED <<queueVars, fut, joining, snapshot, tokens_closed, normal,
                   aborted, handles, stat>>

TokensEnd ==
    /\ pc = "acquire" /\ tokens = 0 /\ tokens_closed
    /\ Goto("collect")
    /\ UNCHANGED <<queueVars, fut, joining, snapshot, tokenVars, taskVars,
                   handles, stat>>

\* The task is running already, or has ended already.
InsertHandle ==
    /\ pc = "insert"
    /\ handles' = handles \cup {fut}
    /\ Goto("top")
    /\ UNCHANGED <<queueVars, fut, joining, snapshot, tokenVars, taskVars, stat>>

\* Seeded fault: the map is emptied and nothing is awaited.
CollectHandles_Forgets ==
    /\ pc = "collect"
    /\ joining' = {} /\ handles' = {}
    /\ Goto("join")
    /\ UNCHANGED <<queueVars, fut, snapshot, tokenVars, taskVars, stat>>

CollectHandles ==
    /\ pc = "collect"
    /\ joining' = handles /\ handles' = {}
    /\ Goto("join")
    /\ UNCHANGED <<queueVars, fut, snapshot, tokenVars, taskVars, stat>>

\* handle.cancel().await or handle.await.
JoinHandle(t) ==
    /\ pc = "join" /\ t \in joining
    /\ fut' = t
    /\ joining' = joining \ {t}
    /\ aborted' = IF terminated THEN aborted \cup {t} ELSE aborted
    /\ Goto("awaiting")
    /\ UNCHANGED <<queueVars, snapshot, tokenVars, task, normal, handles, stat>>

HandleReady ==
    /\ pc = "awaiting" /\ task[fut] = "ended"
    /\ Goto("join")
    /\ UNCHANGED <<queueVars, fut, joining, snapshot, tokenVars, taskVars,
                   handles, stat>>

\* async_std, and the task was awaited rather than cancelled: the panic goes on
\* in the dispatcher, and the handles that are left are dropped.
HandlePanics ==
    /\ pc = "awaiting" /\ task[fut] = "ended"
    /\ ~normal[fut] /\ fut \notin aborted
    /\ joining' = {}
    /\ Goto("panicked")
    /\ UNCHANGED <<queueVars, fut, snapshot, tokenVars, taskVars, handles, stat>>

\* Stat::snapshot loads one counter after the other, and some tasks may still be
\* about to count themselves.
SnapshotBegins ==
    /\ pc = "join" /\ joining = {}
    /\ Goto("accepted")
    /\ UNCHANGED <<queueVars, fut, joining, snapshot, tokenVars, taskVars,
                   handles, stat>>

SnapshotLoad ==
    /\ pc \in Stats
    /\ snapshot' = [snapshot EXCEPT ![pc] = stat[pc]]
    /\ Goto(LoadAfter[pc])
    /\ UNCHANGED <<queueVars, fut, joining, tokenVars, taskVars, handles, stat>>
-----------------------------------------------------------------------------
(* A spawned task. *)

TaskBegins(t) ==
    /\ task[t] = "spawned" /\ t \notin aborted
    /\ Set(t, "running")
    /\ Increment("spawned")
    /\ UNCHANGED <<queueVars, loopVars, tokenVars, normal, aborted, handles>>

TaskCompletes(t, ok) ==
    /\ task[t] = "running"
    /\ Set(t, "feedback")
    /\ normal' = [normal EXCEPT ![t] = TRUE]
    /\ IF ok THEN Increment("succeeded") ELSE UNCHANGED stat
    /\ UNCHANGED <<queueVars, loopVars, tokenVars, aborted, handles>>

\* A panic, or the cancellation at an await: Guard is dropped.
TaskUnwinds(t) ==
    /\ task[t] = "running"
    /\ Set(t, "feedback")
    /\ UNCHANGED <<queueVars, loopVars, tokenVars, normal, aborted, handles, stat>>

\* Cancelled before it was polled: there is no Guard yet, and no feedback.
TaskNeverBegins(t) ==
    /\ task[t] = "spawned" /\ t \in aborted
    /\ Set(t, "ended")
    /\ UNCHANGED <<queueVars, loopVars, tokenVars, normal, aborted, handles, stat>>

\* Seeded fault: a panic swallows the token.
FeedbackToken_Swallowed(t) ==
    /\ task[t] = "feedback"
    /\ Set(t, "released")
    /\ tokens' = IF tokens_closed \/ ~normal[t] THEN tokens ELSE tokens + 1
    /\ UNCHANGED <<queueVars, loopVars, tokens_closed, normal, aborted, handles, stat>>

\* feedback: token_release.try_send ...
FeedbackToken(t) ==
    /\ task[t] = "feedback"
    /\ Set(t, "released")
    /\ tokens' = IF tokens_closed THEN tokens ELSE tokens + 1
    /\ UNCHANGED <<queueVars, loopVars, tokens_closed, normal, aborted, handles, stat>>

\* ... handles.remove ...
FeedbackHandle(t) ==
    /\ task[t] = "released"
    /\ Set(t, "unlisted")
    /\ handles' = handles \ {t}
    /\ UNCHANGED <<queueVars, loopVars, tokenVars, normal, aborted, stat>>

\* ... and the counter.
FeedbackStat(t) ==
    /\ task[t] = "unlisted"
    /\ Set(t, "ended")
    /\ Increment(IF normal[t] THEN "executed"
                 ELSE IF terminated THEN "canceled" ELSE "crashed")
    /\ UNCHANGED <<queueVars, loopVars, tokenVars, normal, aborted, handles>>
-----------------------------------------------------------------------------
Owner == \/ \E t \in Tasks : spawn(t)
         \/ wait \/ shutdown \/ ShutdownTokens \/ ShutdownQueue \/ Return

Dispatcher ==
    \/ CheckTerminated \/ Dequeue \/ QueueEnds \/ AcquireToken \/ TokensEnd
    \/ InsertHandle \/ CollectHandles \/ \E t \in Tasks : JoinHandle(t)
    \/ HandleReady \/ HandlePanics \/ SnapshotBegins \/ SnapshotLoad

Task(t) == \/ TaskBegins(t) \/ TaskUnwinds(t) \/ TaskNeverBegins(t)
           \/ \E ok \in BOOLEAN : TaskCompletes(t, ok)
           \/ FeedbackToken(t) \/ FeedbackHandle(t) \/ FeedbackStat(t)

Next == Owner \/ Dispatcher \/ \E t \in Tasks : Task(t)

Spec == Init /\ [][Next]_vars

\* The runtime polls every task, the futures given to spawn end (the queries
\* of Kademlia are bounded by the timeouts of their streams), and shutdown, once
\* called, does not await anything before the dispatcher's handle.
Fairness == /\ WF_vars(Dispatcher)
            /\ WF_vars(ShutdownTokens) /\ WF_vars(ShutdownQueue) /\ WF_vars(Return)
            /\ \A t \in Tasks : WF_vars(Task(t))

FairSpec == Spec /\ Fairness
-----------------------------------------------------------------------------
(* Properties. *)

FlagsOK == /\ enqueue_closed \in BOOLEAN
           /\ tokens_closed \in BOOLEAN
           /\ terminated \in BOOLEAN

DataOK ==
    /\ queue \in Seq(Tasks)
    /\ tokens \in Nat
    /\ pc \in {"top", "dequeue", "acquire", "insert", "collect", "join",
               "awaiting", "panicked", "returned"} \cup Stats
    /\ fut \in Tasks \cup {None}
    /\ handles \subseteq Tasks /\ joining \subseteq Tasks /\ aborted \subseteq Tasks
    /\ task \in [Tasks -> {"idle", "queued", "spawned", "running", "feedback",
                           "released", "unlisted", "ended"}]
    /\ normal \in [Tasks -> BOOLEAN]
    /\ stat \in [Stats -> Nat] /\ snapshot \in [Stats -> Nat]
    /\ caller \in {"using", "terminating", "closing", "waiting", "panicked", "returned"}

\* Every variable stays in its type; the counters and tokens never go below zero.
TypeOK == FlagsOK /\ DataOK

Holders == {t \in Tasks : task[t] \in {"spawned", "running", "feedback"}}

\* "prevent future task panic from causing token to be swallowed": as long as
\* the limiter is in use every token is in the channel or with one task, so at
\* most Parallelism futures run at a time and the limiter never starves; the
\* end of the limiter may lose tokens but never makes one up.
TokensConserved ==
    /\ tokens + Cardinality(Holders) <= Parallelism
    /\ ~terminated => tokens + Cardinality(Holders) = Parallelism

\* wait() and shutdown() return when nothing runs any more, although the
\* dispatcher only awaits the handles it finds in the map: a task whose handle
\* is not there has ended, but for counting itself.  wait() has run everything
\* that was accepted.
JoinedAll ==
    pc \in Stats \cup {"returned"} =>
        \A t \in Tasks : \/ task[t] \in {"idle", "unlisted", "ended"}
                         \/ terminated /\ task[t] = "queued"

\* The Snapshot of wait() counts every task, as test_task_limiter has it:
\* assert_eq!(c.executed, 10, "total").
WaitCountsAll ==
    pc = "returned" /\ ~terminated =>
        snapshot["executed"] + snapshot["crashed"] = snapshot["accepted"]

\* wait() and shutdown() end, whatever the tasks do; only wait() can end with
\* the panic of a task.
LimiterReturns ==
    /\ caller = "waiting" ~> caller \in {"returned", "panicked"}
    /\ caller = "terminating" ~> caller = "returned"
=============================================================================
