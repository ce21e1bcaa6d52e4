------------------------------- MODULE Mplex -------------------------------
(***************************************************************************)
(* The mplex stream muxer (protocols/mplex/src): the two ends of one       *)
(* connection, the frames in flight between them, and the applications at  *)
(* both ends that hold Controls and Streams.                               *)
(*                                                                         *)
(* One task per end runs Connection::next_stream: a select! (in random     *)
(* order) over the frames of the remote, the commands of the Streams and   *)
(* the commands of the Controls.  A handler awaits in two places, and the  *)
(* task does nothing else meanwhile: writing a frame to a full socket, and *)
(* handing data to a Stream that does not read.  These are the states      *)
(* "write" and "deliver" of the task.                                      *)
(*                                                                         *)
(* External: the socket, two FIFO byte streams that may break and whose    *)
(* reader sees the end when the other end is gone; and the mpsc channels.  *)
(* The command channels are unbounded here (in the code a full one makes   *)
(* the caller wait), the data channel of a Stream has its limit.           *)
(* A caller stays until it is answered, as the Swarm's tasks do.  Clones   *)
(* of a Stream are not modelled: each end has one handle per stream.       *)
(***************************************************************************)
EXTENDS Integers, Sequences, FiniteSets

CONSTANTS Requests,    \* the calls of Control methods, see RequestsAssumption
          NoReq,
          MaxId,       \* u32::MAX in the code
          Backlog,     \* MAX_COMMAND_BACKLOG, for the data channels
          WireCap,     \* frames the socket takes before a write waits
          MaxWrites,   \* bound on the writes of each end per stream
          StreamOps,   \* what applications do with a Stream besides read and write
          MayBreak     \* the socket may fail

Ends == {"A", "B"}
Other(e) == IF e = "A" THEN "B" ELSE "A"

ASSUME RequestsAssumption ==
    /\ Requests \subseteq [end : Ends, kind : {"open", "accept", "close"}, n : Nat]
    /\ NoReq \notin Requests
ASSUME MaxIdAssumption == MaxId \in Nat \ {0}
\* header::encode shifts the id by three bits in a u32: larger ids collide.
ASSUME HeaderAssumption == MaxId < 536870912
ASSUME BoundsAssumption ==
    /\ Backlog \in Nat /\ WireCap \in Nat \ {0} /\ MaxWrites \in [Ends -> Nat]
    /\ StreamOps \subseteq {"close", "reset", "drop"}
    /\ MayBreak \in BOOLEAN

VARIABLES
    wire,          \* frames an end has written and the other has not read
    broken,        \* the socket has failed
    task,          \* what the task of each end is waiting for
    next_stream_id,
    streams,       \* ids with an mpsc::Sender to their Stream
    streams_stat,
    stream_cmds, stream_receiver,    \* queue and state of the channel
    control_cmds, control_receiver,
    shutdown,
    waiting_stream_sender,
    pending_streams,
    data,          \* contents of the data channel of each Stream
    handle,        \* the Stream in the application's hands
    reply,         \* what the caller of each request has got
    \* History: what was written and read on each stream, in which order
    \* inbound streams were handed out, and which streams were reset.
    written, got, accepted, was_reset

socketVars  == <<wire, broken>>
tableVars   == <<next_stream_id, streams, streams_stat>>
chanVars    == <<stream_cmds, stream_receiver, control_cmds, control_receiver>>
acceptVars  == <<waiting_stream_sender, pending_streams, accepted>>
historyVars == <<written, got, was_reset>>
vars == <<socketVars, task, tableVars, chanVars, shutdown, acceptVars, data,
          handle, reply, historyVars>>
-----------------------------------------------------------------------------
(* Ids and frames. *)

StreamID == [id : Nat, initiator : BOOLEAN]
State == {"Open", "SendClosed", "RecvClosed"}
Tags == {"NewStream", "Message", "Close", "Reset"}
Bodies == [from : Ends, sid : StreamID, n : Nat]
NoBody == [from |-> "A", sid |-> [id |-> 0, initiator |-> TRUE], n |-> 0]

\* The same stream, as the other end names it.
Flip(sid) == [id |-> sid.id, initiator |-> ~sid.initiator]
\* A stream, named once for both ends.
Stream(e, sid) ==
    [opener |-> IF sid.initiator THEN e ELSE Other(e), id |-> sid.id]

\* `Tag as u32`
TagVal == [NewStream |-> 0, Message |-> 2, Close |-> 4, Reset |-> 6]

\* Seeded fault: both directions use the tags of the initiator.
encode_NoParity(tag, sid) == sid.id * 8 + TagVal[tag]

encode(tag, sid) ==
    IF tag = "NewStream" \/ sid.initiator THEN sid.id * 8 + TagVal[tag]
                                          ELSE sid.id * 8 + TagVal[tag] - 1

\* The header a frame has for the end that reads it.
decode(hdr) ==
    LET t == hdr % 8 IN
    [sid |-> [id |-> hdr \div 8, initiator |-> t % 2 # 0],
     tag |-> CASE t = 0          -> "NewStream"
               [] t \in {1, 2}   -> "Message"
               [] t \in {3, 4}   -> "Close"
               [] OTHER          -> "Reset"]

Frame(tag, sid, body) == [hdr |-> encode(tag, sid), body |-> body]

can_write(stat) == stat # "SendClosed"

\* IntMap::insert, remove and Default
Empty == [x \in {} |-> x]
Insert(f, k, v) == [x \in DOMAIN f \cup {k} |-> IF x = k THEN v ELSE f[x]]
Remove(f, k) == [x \in DOMAIN f \ {k} |-> f[x]]

\* What a task waits for, and what is left of its handler when it has it:
\* the caller to answer, and the handle whose status changes with it.
Select == [at |-> "select"]
Ended(cause) == [at |-> "ended", cause |-> cause]
Nothing == [req |-> NoReq, sid |-> NoBody.sid, status |-> "none"]
-----------------------------------------------------------------------------
Init ==
    /\ wire = [e \in Ends |-> <<>>]
    /\ broken = FALSE
    /\ task = [e \in Ends |-> Select]
    /\ next_stream_id = [e \in Ends |-> 0]
    /\ streams = [e \in Ends |-> {}]
    /\ streams_stat = [e \in Ends |-> Empty]
    /\ stream_cmds = [e \in Ends |-> <<>>]
    /\ stream_receiver = [e \in Ends |-> "open"]
    /\ control_cmds = [e \in Ends |-> <<>>]
    /\ control_receiver = [e \in Ends |-> "open"]
    /\ shutdown = [e \in Ends |-> [state |-> "NotStarted", tx |-> NoReq]]
    /\ waiting_stream_sender = [e \in Ends |-> NoReq]
    /\ pending_streams = [e \in Ends |-> <<>>]
    /\ data = [e \in Ends |-> Empty]
    /\ handle = [e \in Ends |-> Empty]
    /\ reply = [r \in Requests |-> "idle"]
    /\ written = [e \in Ends |-> Empty]
    /\ got = [e \in Ends |-> Empty]
    /\ accepted = [e \in Ends |-> <<>>]
    /\ was_reset = {}
-----------------------------------------------------------------------------
(* Connection: the pieces the handlers share. *)

Selecting(e) == task[e] = Select
Running(e) == task[e].at # "ended"

\* A read or a write may fail: the socket broke, or the other end is gone.
CanFail(e) == broken \/ ~Running(Other(e))

\* Answer the caller and let the application have its handle.
Finish(e, hand) ==
    /\ reply' = IF hand.req = NoReq THEN reply
                                    ELSE [reply EXCEPT ![hand.req] = "ok"]
    /\ handle' = IF hand.status = "none" THEN handle
                 ELSE [handle EXCEPT ![e] = Insert(@, hand.sid, hand.status)]

\* writer.send_frame(..).await and the rest of the handler.  Tables that the
\* code updates after the await are updated before it here: the task does
\* nothing else in between, and drops them if the write fails.
SendFrame(e, frame, hand) ==
    \/ /\ Len(wire[e]) < WireCap
       /\ wire' = [wire EXCEPT ![e] = Append(@, frame)]
       /\ task' = [task EXCEPT ![e] = Select]
       /\ Finish(e, hand)
    \/ /\ Len(wire[e]) >= WireCap \/ CanFail(e)
       /\ task' = [task EXCEPT ![e] = [at |-> "write", frame |-> frame, hand |-> hand]]
       /\ UNCHANGED <<wire, reply, handle>>

\* Seeded fault: an accept that is waiting is forgotten.
Orphans_NoWaiter(e) == {control_cmds[e][i] : i \in DOMAIN control_cmds[e]}

\* The callers that next_stream answers once handle_coming has returned.
Orphans(e) == {control_cmds[e][i] : i \in DOMAIN control_cmds[e]}
              \cup ({waiting_stream_sender[e]} \ {NoReq})

\* handle_coming has returned: the rest of next_stream, after which the task
\* ends and drops the Connection.  The drain loop of the stream commands
\* takes the first one without looking at it, so its reset is not confirmed.
End(e, cause, hand) ==
    /\ task' = [task EXCEPT ![e] = Ended(cause)]
    /\ waiting_stream_sender' = [waiting_stream_sender EXCEPT ![e] = NoReq]
    /\ pending_streams' = [pending_streams EXCEPT ![e] = <<>>]
    /\ control_cmds' = [control_cmds EXCEPT ![e] = <<>>]
    /\ control_receiver' = [control_receiver EXCEPT ![e] = "terminated"]
    /\ stream_cmds' = [stream_cmds EXCEPT ![e] = <<>>]
    /\ stream_receiver' = [stream_receiver EXCEPT ![e] = "terminated"]
    /\ streams' = [streams EXCEPT ![e] = {}]
    /\ streams_stat' = [streams_stat EXCEPT ![e] = Empty]
    /\ shutdown' = [shutdown EXCEPT ![e] =
           [state |-> IF cause = "closed" THEN "Complete" ELSE @.state, tx |-> NoReq]]
    \* Control::close ignores how its oneshot ends, the others report an error.
    /\ reply' = [r \in Requests |->
           IF r \in Orphans(e) \cup {shutdown[e].tx, hand.req}
           THEN IF r.kind = "close" THEN "ok" ELSE "err"
           ELSE reply[r]]
    /\ handle' = [handle EXCEPT ![e] = [s \in DOMAIN @ |->
           IF @[s] # "resetting" THEN @[s]
           ELSE IF \E i \in 2 .. Len(stream_cmds[e]) :
                      stream_cmds[e][i].type = "ResetStream" /\ stream_cmds[e][i].sid = s
                THEN "closed" ELSE "open"]]
    /\ UNCHANGED <<broken, next_stream_id, accepted, data, historyVars>>

\* A new Stream with its data channel.
NewStream(e, sid) ==
    /\ streams' = [streams EXCEPT ![e] = @ \cup {sid}]
    /\ streams_stat' = [streams_stat EXCEPT ![e] = Insert(@, sid, "Open")]
    /\ data' = [data EXCEPT ![e] = Insert(@, sid, <<>>)]
    /\ written' = [written EXCEPT ![e] = Insert(@, sid, 0)]
    /\ got' = [got EXCEPT ![e] = Insert(@, sid, <<>>)]

RemoveStream(e, sid) ==
    /\ streams' = [streams EXCEPT ![e] = @ \ {sid}]
    /\ streams_stat' = [streams_stat EXCEPT ![e] = Remove(@, sid)]

\* The Stream, and with it the receiver of its data channel, was dropped.
Dropped(e, sid) == sid \in DOMAIN handle[e] /\ handle[e][sid] = "dropped"
-----------------------------------------------------------------------------
(* on_frame: the task has read a frame. *)

\* reader.next() has a frame with this tag.
Receive(e, tag) ==
    LET o == Other(e) IN
    /\ Selecting(e)
    /\ wire[o] # <<>>
    /\ decode(Head(wire[o]).hdr).tag = tag
    /\ wire' = [wire EXCEPT ![o] = Tail(@)]

Received(e) == decode(Head(wire[Other(e)]).hdr).sid

\* Seeded fault: the stream goes to the queue although an accept is waiting.
OnNewStream_Queue(e) ==
    LET sid == Received(e) IN
    /\ Receive(e, "NewStream")
    /\ sid \notin DOMAIN streams_stat[e]
    /\ NewStream(e, sid)
    /\ pending_streams' = [pending_streams EXCEPT ![e] = Append(@, sid)]
    /\ UNCHANGED <<broken, task, next_stream_id, chanVars, shutdown,
                   waiting_stream_sender, accepted, handle, reply, was_reset>>

\* A NewStream for an id in the table is an error that ends the connection;
\* NewStreamIsNew says that it never comes.
OnNewStream(e) ==
    LET sid == Received(e)
        r == waiting_stream_sender[e] IN
    /\ Receive(e, "NewStream")
    /\ sid \notin DOMAIN streams_stat[e]
    /\ NewStream(e, sid)
    /\ \/ /\ r # NoReq
          /\ waiting_stream_sender' = [waiting_stream_sender EXCEPT ![e] = NoReq]
          /\ accepted' = [accepted EXCEPT ![e] = Append(@, sid)]
          /\ Finish(e, [req |-> r, sid |-> sid, status |-> "open"])
          /\ UNCHANGED pending_streams
       \/ /\ r = NoReq
          /\ pending_streams' = [pending_streams EXCEPT ![e] = Append(@, sid)]
          /\ UNCHANGED <<waiting_stream_sender, accepted, handle, reply>>
    /\ UNCHANGED <<broken, task, next_stream_id, chanVars, shutdown, was_reset>>

\* The conditions on_frame puts on a Message.
Deliverable(e, sid) ==
    /\ sid \in DOMAIN streams_stat[e] /\ streams_stat[e][sid] # "RecvClosed"
    /\ sid \in streams[e] /\ ~Dropped(e, sid)

\* Data for a stream that is gone, closed by the remote or without its Stream.
OnMessageIgnored(e) ==
    LET sid == Received(e) IN
    /\ Receive(e, "Message")
    /\ ~Deliverable(e, sid)
    /\ streams' = IF sid \in DOMAIN streams_stat[e] /\ streams_stat[e][sid] # "RecvClosed"
                  THEN [streams EXCEPT ![e] = @ \ {sid}] ELSE streams
    /\ UNCHANGED <<broken, task, next_stream_id, streams_stat, chanVars, shutdown,
                   acceptVars, data, handle, reply, historyVars>>

\* sender.send(frame.body()): the data is in the channel at once; the send
\* ends when the channel is within its limit again.
OnMessage(e) ==
    LET sid == Received(e) IN
    /\ Receive(e, "Message")
    /\ Deliverable(e, sid)
    /\ data' = [data EXCEPT ![e][sid] = Append(@, Head(wire[Other(e)]).body)]
    /\ task' = IF Len(data[e][sid]) < Backlog THEN task
               ELSE [task EXCEPT ![e] = [at |-> "deliver", sid |-> sid]]
    /\ UNCHANGED <<broken, tableVars, chanVars, shutdown, acceptVars, handle,
                   reply, historyVars>>

\* The reader took something, or the Stream was dropped.
Delivered(e) ==
    /\ task[e].at = "deliver"
    /\ Len(data[e][task[e].sid]) <= Backlog \/ Dropped(e, task[e].sid)
    /\ task' = [task EXCEPT ![e] = Select]
    /\ UNCHANGED <<socketVars, tableVars, chanVars, shutdown, acceptVars, data,
                   handle, reply, historyVars>>

\* RECEIVE_TIMEOUT: the stream is reset, the data stays in its channel.
DeliverTimeout(e) ==
    LET sid == task[e].sid IN
    /\ task[e].at = "deliver"
    /\ Len(data[e][sid]) > Backlog /\ ~Dropped(e, sid)
    /\ RemoveStream(e, sid)
    /\ was_reset' = was_reset \cup {Stream(e, sid)}
    /\ SendFrame(e, Frame("Reset", sid, NoBody), Nothing)
    /\ UNCHANGED <<broken, next_stream_id, chanVars, shutdown, acceptVars, data,
                   written, got>>

\* Seeded fault: a stream that was closed here stays half closed.
OnClose_NoRemove(e) ==
    LET sid == Received(e) IN
    /\ Receive(e, "Close")
    /\ streams' = [streams EXCEPT ![e] = @ \ {sid}]
    /\ streams_stat' = IF sid \notin DOMAIN streams_stat[e] THEN streams_stat
                       ELSE [streams_stat EXCEPT ![e][sid] = "RecvClosed"]
    /\ UNCHANGED <<broken, task, next_stream_id, chanVars, shutdown, acceptVars,
                   data, handle, reply, historyVars>>

OnClose(e) ==
    LET sid == Received(e) IN
    /\ Receive(e, "Close")
    /\ streams' = [streams EXCEPT ![e] = @ \ {sid}]
    /\ streams_stat' =
           IF sid \notin DOMAIN streams_stat[e] THEN streams_stat
           ELSE IF streams_stat[e][sid] = "SendClosed"
                THEN [streams_stat EXCEPT ![e] = Remove(@, sid)]
                ELSE [streams_stat EXCEPT ![e][sid] = "RecvClosed"]
    /\ UNCHANGED <<broken, task, next_stream_id, chanVars, shutdown, acceptVars,
                   data, handle, reply, historyVars>>

OnReset(e) ==
    /\ Receive(e, "Reset")
    /\ RemoveStream(e, Received(e))
    /\ UNCHANGED <<broken, task, next_stream_id, chanVars, shutdown, acceptVars,
                   data, handle, reply, historyVars>>

\* recv_frame fails: at the end of what the other end wrote, or earlier when
\* the socket broke or was reset because the other end left frames unread.
ReadFails(e) ==
    LET o == Other(e) IN
    /\ Selecting(e)
    /\ \/ wire[o] = <<>> /\ ~Running(o) /\ End(e, "eof", Nothing)
       \/ broken /\ End(e, "io", Nothing)
       \/ ~Running(o) /\ wire[e] # <<>> /\ End(e, "io", Nothing)
    /\ UNCHANGED wire
-----------------------------------------------------------------------------
(* A write that had to wait. *)

WriteDone(e) ==
    /\ task[e].at = "write"
    /\ Len(wire[e]) < WireCap
    /\ wire' = [wire EXCEPT ![e] = Append(@, task[e].frame)]
    /\ task' = [task EXCEPT ![e] = Select]
    /\ Finish(e, task[e].hand)
    /\ UNCHANGED <<broken, tableVars, chanVars, shutdown, acceptVars, data, historyVars>>

WriteFails(e) ==
    /\ task[e].at = "write"
    /\ CanFail(e)
    /\ End(e, "io", task[e].hand)
    /\ UNCHANGED wire
-----------------------------------------------------------------------------
(* on_stream_command *)

TakeStreamCmd(e, type) ==
    /\ Selecting(e)
    /\ stream_cmds[e] # <<>>
    /\ Head(stream_cmds[e]).type = type
    /\ stream_cmds' = [stream_cmds EXCEPT ![e] = Tail(@)]

\* The state of the stream lets the command through.
Writable(e, sid) == sid \in DOMAIN streams_stat[e] /\ can_write(streams_stat[e][sid])

OnSendFrame(e) ==
    LET cmd == Head(stream_cmds[e]) IN
    /\ TakeStreamCmd(e, "SendFrame")
    /\ \/ Writable(e, cmd.sid) /\ SendFrame(e, Frame("Message", cmd.sid, cmd.body), Nothing)
       \/ ~Writable(e, cmd.sid) /\ UNCHANGED <<wire, task, reply, handle>>
    /\ UNCHANGED <<broken, tableVars, stream_receiver, control_cmds, control_receiver,
                   shutdown, acceptVars, data, historyVars>>

\* Seeded fault: the sender is dropped with our half of the stream.
OnCloseStream_DropSender(e) ==
    LET sid == Head(stream_cmds[e]).sid IN
    /\ TakeStreamCmd(e, "CloseStream")
    /\ \/ /\ Writable(e, sid)
          /\ streams' = [streams EXCEPT ![e] = @ \ {sid}]
          /\ streams_stat' = IF streams_stat[e][sid] = "RecvClosed"
                             THEN [streams_stat EXCEPT ![e] = Remove(@, sid)]
                             ELSE [streams_stat EXCEPT ![e][sid] = "SendClosed"]
          /\ SendFrame(e, Frame("Close", sid, NoBody), Nothing)
       \/ ~Writable(e, sid) /\ UNCHANGED <<wire, task, reply, handle, streams, streams_stat>>
    /\ UNCHANGED <<broken, next_stream_id, stream_receiver, control_cmds,
                   control_receiver, shutdown, acceptVars, data, historyVars>>

OnCloseStream(e) ==
    LET sid == Head(stream_cmds[e]).sid IN
    /\ TakeStreamCmd(e, "CloseStream")
    /\ \/ /\ Writable(e, sid)
          /\ streams_stat' = IF streams_stat[e][sid] = "RecvClosed"
                             THEN [streams_stat EXCEPT ![e] = Remove(@, sid)]
                             ELSE [streams_stat EXCEPT ![e][sid] = "SendClosed"]
          /\ SendFrame(e, Frame("Close", sid, NoBody), Nothing)
       \/ ~Writable(e, sid) /\ UNCHANGED <<wire, task, reply, handle, streams_stat>>
    /\ UNCHANGED <<broken, next_stream_id, streams, stream_receiver, control_cmds,
                   control_receiver, shutdown, acceptVars, data, historyVars>>

OnResetStream(e) ==
    LET sid == Head(stream_cmds[e]).sid
        hand == [req |-> NoReq, sid |-> sid, status |-> "closed"] IN
    /\ TakeStreamCmd(e, "ResetStream")
    /\ \/ /\ sid \in DOMAIN streams_stat[e]
          /\ RemoveStream(e, sid)
          /\ was_reset' = was_reset \cup {Stream(e, sid)}
          /\ SendFrame(e, Frame("Reset", sid, NoBody), hand)
       \/ /\ sid \notin DOMAIN streams_stat[e]
          /\ Finish(e, hand)
          /\ UNCHANGED <<wire, task, streams, streams_stat, was_reset>>
    /\ UNCHANGED <<broken, next_stream_id, stream_receiver, control_cmds,
                   control_receiver, shutdown, acceptVars, data, written, got>>

\* None: the channel was closed and its last command taken.
OnNoStreamCommand(e) ==
    /\ Selecting(e)
    /\ stream_receiver[e] = "closed" /\ stream_cmds[e] = <<>>
    /\ stream_receiver' = [stream_receiver EXCEPT ![e] = "terminated"]
    /\ control_receiver' = [control_receiver EXCEPT ![e] = "closed"]
    /\ UNCHANGED <<socketVars, task, tableVars, stream_cmds, control_cmds, shutdown,
                   acceptVars, data, handle, reply, historyVars>>
-----------------------------------------------------------------------------
(* on_control_command *)

TakeControlCmd(e, kind) ==
    /\ Selecting(e)
    /\ control_receiver[e] # "paused"
    /\ control_cmds[e] # <<>>
    /\ Head(control_cmds[e]).kind = kind

\* next_stream_id: checked_add fails with the last id, which is never used.
HasId(e) == next_stream_id[e] < MaxId
NextId(e) == next_stream_id[e] + 1

\* The branch for a complete shutdown is dead code: completing it ends the task.
OnOpenStream(e) ==
    LET r == Head(control_cmds[e])
        sid == [id |-> next_stream_id[e], initiator |-> TRUE] IN
    /\ TakeControlCmd(e, "open")
    /\ HasId(e)
    /\ next_stream_id' = [next_stream_id EXCEPT ![e] = NextId(e)]
    /\ control_cmds' = [control_cmds EXCEPT ![e] = Tail(@)]
    /\ NewStream(e, sid)
    /\ SendFrame(e, Frame("NewStream", sid, NoBody),
                 [req |-> r, sid |-> sid, status |-> "open"])
    /\ UNCHANGED <<broken, stream_cmds, stream_receiver, control_receiver, shutdown,
                   acceptVars, was_reset>>

\* NoMoreStreamIds ends the connection.
OnOpenStreamNoId(e) ==
    /\ TakeControlCmd(e, "open")
    /\ ~HasId(e)
    /\ End(e, "ids", Nothing)
    /\ UNCHANGED wire

OnAcceptStream(e) ==
    LET r == Head(control_cmds[e]) IN
    /\ TakeControlCmd(e, "accept")
    /\ control_cmds' = [control_cmds EXCEPT ![e] = Tail(@)]
    /\ \/ /\ waiting_stream_sender[e] # NoReq
          /\ reply' = [reply EXCEPT ![r] = "err"]
          /\ UNCHANGED <<acceptVars, handle>>
       \/ /\ waiting_stream_sender[e] = NoReq /\ pending_streams[e] # <<>>
          /\ pending_streams' = [pending_streams EXCEPT ![e] = Tail(@)]
          /\ accepted' = [accepted EXCEPT ![e] = Append(@, Head(pending_streams[e]))]
          /\ Finish(e, [req |-> r, sid |-> Head(pending_streams[e]), status |-> "open"])
          /\ UNCHANGED waiting_stream_sender
       \/ /\ waiting_stream_sender[e] = NoReq /\ pending_streams[e] = <<>>
          /\ waiting_stream_sender' = [waiting_stream_sender EXCEPT ![e] = r]
          /\ UNCHANGED <<pending_streams, accepted, handle, reply>>
    /\ UNCHANGED <<socketVars, task, tableVars, stream_cmds, stream_receiver,
                   control_receiver, shutdown, data, historyVars>>

\* Seeded fault: the channel of the stream commands stays open.
OnCloseConnection_KeepOpen(e) ==
    LET r == Head(control_cmds[e]) IN
    /\ TakeControlCmd(e, "close")
    /\ control_cmds' = [control_cmds EXCEPT ![e] = Tail(@)]
    /\ shutdown' = [shutdown EXCEPT ![e] = [state |-> "InProgress", tx |-> r]]
    /\ control_receiver' = [control_receiver EXCEPT ![e] = "paused"]
    /\ UNCHANGED <<socketVars, task, tableVars, stream_cmds, stream_receiver, acceptVars,
                   data, handle, reply, historyVars>>

OnCloseConnection(e) ==
    LET r == Head(control_cmds[e]) IN
    /\ TakeControlCmd(e, "close")
    /\ control_cmds' = [control_cmds EXCEPT ![e] = Tail(@)]
    /\ \/ /\ shutdown[e].state # "NotStarted"
          /\ reply' = [reply EXCEPT ![r] = "ok"]
          /\ UNCHANGED <<shutdown, stream_receiver, control_receiver>>
       \/ /\ shutdown[e].state = "NotStarted"
          /\ shutdown' = [shutdown EXCEPT ![e] = [state |-> "InProgress", tx |-> r]]
          /\ stream_receiver' = [stream_receiver EXCEPT ![e] = "closed"]
          /\ control_receiver' = [control_receiver EXCEPT ![e] = "paused"]
          /\ UNCHANGED reply
    /\ UNCHANGED <<socketVars, task, tableVars, stream_cmds, acceptVars, data, handle,
                   historyVars>>

\* None: the shutdown is complete, writer.close().
OnNoControlCommand(e) ==
    /\ Selecting(e)
    /\ control_receiver[e] = "closed" /\ control_cmds[e] = <<>>
    /\ End(e, "closed", Nothing)
    /\ UNCHANGED wire
-----------------------------------------------------------------------------
(* The applications: Control and Stream. *)

\* Control::open_stream, accept_stream and close, up to the await of the reply.
\* Calls of one kind at one end differ in nothing else: n is their order.
Call(r) ==
    /\ reply[r] = "idle"
    /\ \A q \in Requests : q.end = r.end /\ q.kind = r.kind /\ q.n < r.n => reply[q] # "idle"
    /\ \/ /\ control_receiver[r.end] \in {"open", "paused"}
          /\ control_cmds' = [control_cmds EXCEPT ![r.end] = Append(@, r)]
          /\ reply' = [reply EXCEPT ![r] = "waiting"]
       \/ /\ control_receiver[r.end] \in {"closed", "terminated"}
          /\ reply' = [reply EXCEPT ![r] = IF r.kind = "close" THEN "ok" ELSE "err"]
          /\ UNCHANGED control_cmds
    /\ UNCHANGED <<socketVars, task, tableVars, stream_cmds, stream_receiver,
                   control_receiver, shutdown, acceptVars, data, handle, historyVars>>

\* Only a Stream whose channel is open sends a command; otherwise its methods
\* return at once and change nothing.
StreamCommand(e, sid, cmd) ==
    /\ sid \in DOMAIN handle[e] /\ handle[e][sid] = "open"
    /\ stream_receiver[e] = "open"
    /\ stream_cmds' = [stream_cmds EXCEPT ![e] = Append(@, cmd)]
    /\ UNCHANGED <<socketVars, task, tableVars, stream_receiver, control_cmds,
                   control_receiver, shutdown, acceptVars, data, reply, got, was_reset>>

\* poll_write
Write(e, sid) ==
    /\ written[e][sid] < MaxWrites[e]
    /\ StreamCommand(e, sid, [type |-> "SendFrame", sid |-> sid,
                              body |-> [from |-> e, sid |-> sid, n |-> written[e][sid] + 1]])
    /\ written' = [written EXCEPT ![e][sid] = @ + 1]
    /\ UNCHANGED handle

\* poll_close
Close(e, sid) ==
    /\ "close" \in StreamOps
    /\ StreamCommand(e, sid, [type |-> "CloseStream", sid |-> sid, body |-> NoBody])
    /\ handle' = [handle EXCEPT ![e][sid] = "closed"]
    /\ UNCHANGED written

\* reset, up to the await of the reply
Reset(e, sid) ==
    /\ "reset" \in StreamOps
    /\ StreamCommand(e, sid, [type |-> "ResetStream", sid |-> sid, body |-> NoBody])
    /\ handle' = [handle EXCEPT ![e][sid] = "resetting"]
    /\ UNCHANGED written

\* poll_read, of a whole message
Read(e, sid) ==
    /\ sid \in DOMAIN handle[e] /\ handle[e][sid] \in {"open", "closed"}
    /\ data[e][sid] # <<>>
    /\ got' = [got EXCEPT ![e][sid] = Append(@, Head(data[e][sid]))]
    /\ data' = [data EXCEPT ![e][sid] = Tail(@)]
    /\ UNCHANGED <<socketVars, task, tableVars, chanVars, shutdown, acceptVars,
                   handle, reply, written, was_reset>>

\* The Stream is dropped: nobody is told.
Drop(e, sid) ==
    /\ "drop" \in StreamOps
    /\ sid \in DOMAIN handle[e] /\ handle[e][sid] \in {"open", "closed"}
    /\ handle' = [handle EXCEPT ![e][sid] = "dropped"]
    /\ data' = [data EXCEPT ![e][sid] = <<>>]
    /\ UNCHANGED <<socketVars, task, tableVars, chanVars, shutdown, acceptVars,
                   reply, historyVars>>

Break ==
    /\ MayBreak /\ ~broken
    /\ broken' = TRUE
    /\ UNCHANGED <<wire, task, tableVars, chanVars, shutdown, acceptVars, data,
                   handle, reply, historyVars>>
-----------------------------------------------------------------------------
OnFrame(e) ==
    \/ OnNewStream(e)
    \/ OnMessageIgnored(e) \/ OnMessage(e)
    \/ OnClose(e) \/ OnReset(e)
    \/ ReadFails(e)

OnStreamCommand(e) ==
    \/ OnSendFrame(e) \/ OnCloseStream(e) \/ OnResetStream(e)
    \/ OnNoStreamCommand(e)

OnControlCommand(e) ==
    \/ OnOpenStream(e) \/ OnOpenStreamNoId(e)
    \/ OnAcceptStream(e) \/ OnCloseConnection(e)
    \/ OnNoControlCommand(e)

Connection(e) ==
    \/ OnFrame(e) \/ OnStreamCommand(e) \/ OnControlCommand(e)
    \/ Delivered(e) \/ DeliverTimeout(e)
    \/ WriteDone(e) \/ WriteFails(e)

Application ==
    \/ \E r \in Requests : Call(r)
    \/ \E e \in Ends : \E sid \in DOMAIN handle[e] :
           Write(e, sid) \/ Close(e, sid) \/ Reset(e, sid) \/ Read(e, sid) \/ Drop(e, sid)

Next == (\E e \in Ends : Connection(e)) \/ Application \/ Break

Spec == Init /\ [][Next]_vars

\* The runtime polls a task that was woken, and the timer of a delivery fires.
FairSpec == Spec /\ \A e \in Ends : WF_vars(Connection(e))
-----------------------------------------------------------------------------
(* Properties. *)

Causes == {"closed", "eof", "io", "ids"}
Hands == [req : Requests \cup {NoReq}, sid : StreamID,
          status : {"none", "open", "closed"}]
Frames == [hdr : Nat, body : Bodies]
TaskStates ==
         {Select}
    \cup [at : {"deliver"}, sid : StreamID]
    \cup [at : {"write"}, frame : Frames, hand : Hands]
    \cup [at : {"ended"}, cause : Causes]

TypeOK ==
    /\ wire \in [Ends -> Seq(Frames)]
    /\ broken \in BOOLEAN
    /\ task \in [Ends -> TaskStates]
    /\ next_stream_id \in [Ends -> 0 .. MaxId]
    /\ streams \in [Ends -> SUBSET StreamID]
    /\ stream_cmds \in [Ends -> Seq([type : {"SendFrame", "CloseStream", "ResetStream"},
                                     sid : StreamID, body : Bodies])]
    /\ stream_receiver \in [Ends -> {"open", "closed", "terminated"}]
    /\ control_cmds \in [Ends -> Seq(Requests)]
    /\ control_receiver \in [Ends -> {"open", "paused", "closed", "terminated"}]
    /\ shutdown \in [Ends -> [state : {"NotStarted", "InProgress", "Complete"},
                              tx : Requests \cup {NoReq}]]
    /\ waiting_stream_sender \in [Ends -> Requests \cup {NoReq}]
    /\ pending_streams \in [Ends -> Seq(StreamID)]
    /\ accepted \in [Ends -> Seq(StreamID)]
    /\ reply \in [Requests -> {"idle", "waiting", "ok", "err"}]
    /\ \A e \in Ends :
        /\ DOMAIN data[e] \subseteq StreamID
        /\ DOMAIN streams_stat[e] \subseteq DOMAIN data[e]
        /\ DOMAIN handle[e] \subseteq DOMAIN data[e]
        /\ DOMAIN written[e] = DOMAIN data[e] /\ DOMAIN got[e] = DOMAIN data[e]
        /\ \A sid \in DOMAIN streams_stat[e] : streams_stat[e][sid] \in State
        /\ \A sid \in DOMAIN handle[e] :
               handle[e][sid] \in {"open", "closed", "resetting", "dropped"}
        /\ \A sid \in DOMAIN data[e] :
               /\ data[e][sid] \in Seq(Bodies) /\ got[e][sid] \in Seq(Bodies)
               /\ written[e][sid] \in 0 .. MaxWrites[e]
    /\ was_reset \subseteq [opener : Ends, id : Nat]

\* What a Stream has read, and what it can read next, are the first writes on
\* the same stream at the other end, in order: frames of two streams with the
\* same number (one opened by each end) are never confused, and nothing is
\* duplicated or left out, whatever is closed, reset, dropped or broken.
InOrder ==
    \A e \in Ends : \A sid \in DOMAIN data[e] :
        LET read == got[e][sid] \o data[e][sid] IN
        \A i \in 1 .. Len(read) :
            read[i] = [from |-> Other(e), sid |-> Flip(sid), n |-> i]

\* A Stream that is not reset reads its end of file only after all that the
\* other end has written, be it because the other end closed the stream or
\* because it closed the whole connection: poll_write returns before anything
\* is sent, so the queued commands have to survive close() and the shutdown.
EofMeansAll ==
    \A e \in Ends : \A sid \in DOMAIN handle[e] :
        LET o == Other(e) IN
        (/\ handle[e][sid] \in {"open", "closed"}
         /\ sid \notin streams[e] /\ data[e][sid] = <<>>      \* poll_read: UnexpectedEof
         /\ Stream(e, sid) \notin was_reset
         /\ Running(e) \/ task[e].cause = "eof"
         /\ Running(o) \/ task[o].cause = "closed"
         /\ Flip(sid) \in DOMAIN written[o])
        => Len(got[e][sid]) = written[o][Flip(sid)]

\* With no frame on its way the two ends agree on every stream: open at both,
\* half closed at both with the halves exchanged, or gone at both, so that a
\* stream both have closed leaves no entry behind.
Mirror(stat) == CASE stat = "Open" -> "Open"
                  [] stat = "SendClosed" -> "RecvClosed"
                  [] stat = "RecvClosed" -> "SendClosed"
TablesMirror ==
    (\A e \in Ends : wire[e] = <<>> /\ task[e].at \in {"select", "deliver"}) =>
    \A e \in Ends : \A sid \in DOMAIN streams_stat[e] :
        /\ Flip(sid) \in DOMAIN streams_stat[Other(e)]
        /\ streams_stat[Other(e)][Flip(sid)] = Mirror(streams_stat[e][sid])

\* Inbound streams are handed out in the order in which the other end opened
\* them, each once, and never wait in the queue while an accept waits too.
AcceptOrder ==
    \A e \in Ends :
        LET q == accepted[e] \o pending_streams[e] IN
        /\ \A i \in 1 .. Len(q) : q[i] = [id |-> i - 1, initiator |-> FALSE]
        /\ waiting_stream_sender[e] # NoReq => pending_streams[e] = <<>>

\* The error branch of on_frame for a NewStream is never taken: the id in a
\* NewStream frame is not in the table of the end that reads it.
NewStreamIsNew ==
    \A e \in Ends :
        Running(e) /\ wire[Other(e)] # <<>> =>
            LET f == decode(Head(wire[Other(e)]).hdr) IN
            f.tag = "NewStream" => f.sid \notin DOMAIN data[e]

\* What on_frame does with a NewStream: the id is new to this end, and the streams reach
\* accept_stream in the order in which the other end opened them, each once.
AcceptedInOrder == AcceptOrder /\ NewStreamIsNew

\* Every call of a Control is answered; accept_stream may wait while the
\* connection runs.
RequestsAnswered ==
    \A r \in Requests :
        reply[r] = "waiting" ~>
            reply[r] # "waiting" \/ (r.kind = "accept" /\ Running(r.end))

\* A shutdown that has begun ends the tasks of both ends.
ShutdownEnds ==
    \A e \in Ends :
        shutdown[e].state = "InProgress" ~> ~Running(e) /\ ~Running(Other(e))

=============================================================================
