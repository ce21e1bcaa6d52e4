------------------------------- MODULE Swarm -------------------------------
(***************************************************************************)
(* The Swarm main loop (swarm/src/lib.rs) with the tasks that feed it: the *)
(* dial tasks, the accept task of every connection, the tasks that open an *)
(* outbound sub-stream, the Identify task, the tasks that close a stream   *)
(* muxer or a Substream, and the clients that hold a Control.              *)
(*                                                                         *)
(* The main loop owns its tables and never awaits inside a handler, so one *)
(* handler is one action.  What interleaves is everything that happens     *)
(* between a task's decision and the moment the loop takes its message     *)
(* from one of two channels: event_receiver (unbounded, from the tasks)    *)
(* and ctrl_receiver (from the Controls and the Substreams).               *)
(*                                                                         *)
(* A stream muxer (yamux, mplex) is external to this module: it is open    *)
(* until the remote or a local close ends it, and a closed one fails every *)
(* accept_stream and open_stream.  The dialer is the abstract one: a dial  *)
(* task ends once, with a connection to the peer it was given or an error  *)
(* (module Dialer shows that the code in dial.rs does this).               *)
(***************************************************************************)
EXTENDS Integers, Sequences, FiniteSets

CONSTANTS Peers,        \* the remote peers
          Self,         \* local_peer_id
          Requests,     \* one per call of a Control method
          Calls,        \* what the application calls, see CallsAssumption
          HasRouting,   \* with_routing was given an IRouting
          HasIdentify,  \* with_identify was called
          MaxConns,     \* bound on the connections ever established
          MaxStreams,   \* bound on the sub-streams ever opened
          MaxErrors     \* bound on failed accepts and failed negotiations

ASSUME SelfAssumption == Self \notin Peers
ASSUME ConfigAssumption == HasRouting \in BOOLEAN /\ HasIdentify \in BOOLEAN
ASSUME CallsAssumption ==
    Calls \subseteq {"connect", "new_connection", "new_stream", "disconnect",
                     "ban_peer_id", "clear_addrs", "close"}
ASSUME BoundsAssumption ==
    MaxConns \in Nat /\ MaxStreams \in Nat /\ MaxErrors \in Nat

VARIABLES
    phase,               \* "built" before start(), then the main loop's life
    polled,              \* select() has polled event_receiver in this round
    event_queue,         \* the event channel
    ctrl_queue,          \* the control channel
    ctrl_closed,         \* close_channel() was called on a sender
    exit_flag,           \* SWARM_EXIT_FLAG
    closer,              \* the caller of Control::close
    connections_by_id,
    connections_by_peer,
    next_connection_id,
    next_tid,
    dial_transactions,
    dialing,             \* dial tasks that have not reported yet
    banned_peers,
    addr_book,           \* peers that peer_store.get_addrs has addresses for
    base_stats,
    muxer,               \* external: the stream muxer of every connection
    acceptor,            \* the accept task of every connection
    closers,             \* connections with a task running stream_muxer.close
    identify,            \* the Identify task of every connection
    opening,             \* tasks inside open_stream_internal
    streams,             \* every Substream ever created
    reply                \* what the caller of each request has got

loopVars  == <<phase, polled, event_queue, ctrl_queue>>
exitVars  == <<ctrl_closed, exit_flag, closer>>
tableVars == <<connections_by_id, connections_by_peer, next_connection_id>>
dialVars  == <<next_tid, dial_transactions, dialing>>
taskVars  == <<muxer, acceptor, closers, identify, opening, streams>>
vars == <<loopVars, exitVars, tableVars, dialVars, banned_peers, addr_book,
          base_stats, taskVars, reply>>
-----------------------------------------------------------------------------
(* Data. *)

Cids == Nat \ {0}
Sids == Nat \ {0}
Tids == Nat \ {0}
NoTid == 0                           \* tid: None, an incoming connection
Direction == {"Inbound", "Outbound"}
Kinds == {"connect", "new_connection", "new_stream", "disconnect"}
\* The use_routing argument; it makes no difference to a Swarm without routing.
UseRouting(kind) ==
    IF HasRouting /\ kind \in {"new_connection", "new_stream"} THEN BOOLEAN
                                                              ELSE {FALSE}
Callbacks == [kind : {"connect", "stream"}, req : Requests]

\* FnvHashMap::insert, remove and Default.
Empty == [x \in {} |-> x]
Insert(f, k, v) == [x \in DOMAIN f \cup {k} |-> IF x = k THEN v ELSE f[x]]
Remove(f, k) == [x \in DOMAIN f \ {k} |-> f[x]]

SwarmEvent ==
         [type : {"ConnectionEstablished"}, peer : Peers, dir : Direction, tid : Nat]
    \cup [type : {"ConnectionClosed"}, cid : Cids]
    \cup [type : {"OutgoingConnectionError"}, tid : Tids]
    \cup [type : {"IncomingConnectionError"}]
    \cup [type : {"StreamOpened"}, cid : Cids, sid : Sids, dir : Direction]
    \cup [type : {"StreamError"}, cid : Cids, dir : Direction]
    \cup [type : {"IdentifyResult"}, cid : Cids, ok : BOOLEAN]

SwarmControlCmd ==
         [type : Kinds, peer : Peers \cup {Self}, req : Requests, routing : BOOLEAN]
    \cup [type : {"CloseStream"}, cid : Cids, sid : Sids]

\* The ids of connections_by_peer are a set: a connection gets its id and is
\* pushed on the Vec in one handler, so the Vec is always in ascending order.
Connection == [peer : Peers, dir : Direction, closing : BOOLEAN,
               substreams : SUBSET Sids]

SwarmBaseStats ==
    {"connection_incoming_opened", "connection_outgoing_opened",
     "connection_closed", "incoming_connection_error",
     "outgoing_connection_error", "substream_inbound_opened",
     "substream_outbound_opened", "substream_closed",
     "substream_inbound_error", "substream_outbound_error"}
-----------------------------------------------------------------------------
Init ==
    /\ phase = "built"
    /\ polled = FALSE
    /\ event_queue = <<>> /\ ctrl_queue = <<>>
    /\ ctrl_closed = FALSE /\ exit_flag = TRUE /\ closer = "idle"
    /\ connections_by_id = Empty
    /\ connections_by_peer = Empty
    /\ next_connection_id = 0
    /\ next_tid = 0
    /\ dial_transactions = Empty
    /\ dialing = {}
    /\ banned_peers = {}
    /\ addr_book \in SUBSET Peers       \* peer_store.load_data
    /\ base_stats = [f \in SwarmBaseStats |-> 0]
    /\ muxer = Empty /\ acceptor = Empty /\ closers = {} /\ identify = Empty
    /\ opening = {} /\ streams = Empty
    /\ reply = [r \in Requests |-> "idle"]
-----------------------------------------------------------------------------
(* Channels, replies and counters. *)

\* UnboundedSender::send: nothing happens once the receiver is dropped.
Emit(es) == event_queue' = IF phase = "exited" THEN event_queue
                                               ELSE event_queue \o es

QueuedOf(types) ==
    Cardinality({i \in DOMAIN event_queue : event_queue[i].type \in types})

\* oneshot::Sender::send: the receiver is gone once the caller has timed out.
Answer(r, v) == reply' = [reply EXCEPT ![r] = IF @ = "waiting" THEN v ELSE @]

Bump(f) == base_stats' = [base_stats EXCEPT ![f] = @ + 1]

\* The bounds of the model, in the guards of what the environment starts.
MayConnect ==
    next_connection_id + QueuedOf({"ConnectionEstablished"}) < MaxConns
MayOpen ==
    Cardinality(DOMAIN streams) + Cardinality({o \in opening : o.opened})
      + Cardinality({c \in DOMAIN identify : identify[c] = "opened"}) < MaxStreams
MayFail == QueuedOf({"IncomingConnectionError", "StreamError"})
              + base_stats["incoming_connection_error"]
              + base_stats["substream_inbound_error"]
              + base_stats["substream_outbound_error"] < MaxErrors
-----------------------------------------------------------------------------
(* Building and starting the Swarm; closing it through a Control. *)

ban_peer_id(p) ==
    /\ phase = "built" /\ "ban_peer_id" \in Calls
    /\ banned_peers' = banned_peers \cup {p}
    /\ UNCHANGED <<loopVars, exitVars, tableVars, dialVars, addr_book,
                   base_stats, taskVars, reply>>

unban_peer_id(p) ==
    /\ phase = "built"
    /\ banned_peers' = banned_peers \ {p}
    /\ UNCHANGED <<loopVars, exitVars, tableVars, dialVars, addr_book,
                   base_stats, taskVars, reply>>

start ==
    /\ phase = "built"
    /\ phase' = "spawned"
    /\ UNCHANGED <<polled, event_queue, ctrl_queue, exitVars, tableVars,
                   dialVars, banned_peers, addr_book, base_stats, taskVars, reply>>

\* The spawned task gets to run: it resets the exit flag and enters the loop.
MainLoopBegins ==
    /\ phase = "spawned"
    /\ phase' = "running"
    /\ exit_flag' = FALSE
    /\ UNCHANGED <<polled, event_queue, ctrl_queue, ctrl_closed, closer,
                   tableVars, dialVars, banned_peers, addr_book, base_stats,
                   taskVars, reply>>

\* Control::close: close_channel() ...
close ==
    /\ "close" \in Calls /\ phase # "built" /\ closer = "idle"
    /\ closer' = "spinning"
    /\ ctrl_closed' = TRUE
    /\ UNCHANGED <<loopVars, exit_flag, tableVars, dialVars, banned_peers,
                   addr_book, base_stats, taskVars, reply>>

\* ... and a spin on SWARM_EXIT_FLAG.
CloseReturns ==
    /\ closer = "spinning" /\ exit_flag
    /\ closer' = "returned"
    /\ UNCHANGED <<loopVars, ctrl_closed, exit_flag, tableVars, dialVars,
                   banned_peers, addr_book, base_stats, taskVars, reply>>
-----------------------------------------------------------------------------
(* The clients: Control methods, timeouts and the release of a Substream. *)

Submit(r, kind, p, routing) ==
    /\ reply[r] = "idle"
    /\ IF ctrl_closed
       THEN /\ reply' = [reply EXCEPT ![r] = "err"]
            /\ UNCHANGED ctrl_queue
       ELSE /\ reply' = [reply EXCEPT ![r] = "waiting"]
            /\ ctrl_queue' = Append(ctrl_queue, [type |-> kind, peer |-> p,
                                                 req |-> r, routing |-> routing])
    /\ UNCHANGED <<phase, polled, event_queue, exitVars, tableVars, dialVars,
                   banned_peers, addr_book, base_stats, taskVars>>

\* new_stream_with_timeout: the caller gives up and drops the receiver.
RequestTimeout(r) ==
    /\ reply[r] = "waiting"
    /\ \/ \E i \in DOMAIN ctrl_queue : ctrl_queue[i].type = "new_stream"
                                          /\ ctrl_queue[i].req = r
       \/ \E t \in DOMAIN dial_transactions :
             dial_transactions[t] = [kind |-> "stream", req |-> r]
       \/ \E o \in opening : o.req = r
    /\ reply' = [reply EXCEPT ![r] = "timeout"]
    /\ UNCHANGED <<loopVars, exitVars, tableVars, dialVars, banned_peers,
                   addr_book, base_stats, taskVars>>

\* Drop for Substream spawns the task that will tell the Swarm.
DropSubstream(s) ==
    /\ streams[s].state = "held"
    /\ streams' = [streams EXCEPT ![s].state = "dropping"]
    /\ UNCHANGED <<loopVars, exitVars, tableVars, dialVars, banned_peers,
                   addr_book, base_stats, muxer, acceptor, closers, identify,
                   opening, reply>>

\* That task, or poll_close itself: CloseStream on the control channel.
SendCloseStream(s) ==
    /\ streams[s].state = "dropping"
    /\ streams' = [streams EXCEPT ![s].state = IF ctrl_closed THEN "closed"
                                                              ELSE "closing"]
    /\ ctrl_queue' = IF ctrl_closed THEN ctrl_queue
                     ELSE Append(ctrl_queue, [type |-> "CloseStream",
                                              cid |-> streams[s].cid, sid |-> s])
    /\ UNCHANGED <<phase, polled, event_queue, exitVars, tableVars, dialVars,
                   banned_peers, addr_book, base_stats, muxer, acceptor,
                   closers, identify, opening, reply>>
-----------------------------------------------------------------------------
(* The tasks that emit events. *)

taskEventUnchanged ==
    UNCHANGED <<phase, polled, ctrl_queue, exitVars, tableVars, next_tid,
                dial_transactions, banned_peers, addr_book, base_stats>>

\* A listener task: accept() gave a muxer, or an error.
Accepted(p) ==
    /\ MayConnect
    /\ Emit(<<[type |-> "ConnectionEstablished", peer |-> p,
               dir |-> "Inbound", tid |-> NoTid]>>)
    /\ taskEventUnchanged /\ UNCHANGED <<dialing, taskVars, reply>>

AcceptError ==
    /\ MayFail
    /\ Emit(<<[type |-> "IncomingConnectionError"]>>)
    /\ taskEventUnchanged /\ UNCHANGED <<dialing, taskVars, reply>>

\* A dial task (AsyncDialer::dial) reports its one result.
DialSucceeds(d) ==
    /\ MayConnect
    /\ dialing' = dialing \ {d}
    /\ Emit(<<[type |-> "ConnectionEstablished", peer |-> d.peer,
               dir |-> "Outbound", tid |-> d.tid]>>)
    /\ taskEventUnchanged /\ UNCHANGED <<taskVars, reply>>

\* Seeded fault: the task just ends.
DialFails_Silent(d) ==
    /\ dialing' = dialing \ {d}
    /\ UNCHANGED event_queue
    /\ taskEventUnchanged /\ UNCHANGED <<taskVars, reply>>

DialFails(d) ==
    /\ dialing' = dialing \ {d}
    /\ Emit(<<[type |-> "OutgoingConnectionError", tid |-> d.tid]>>)
    /\ taskEventUnchanged /\ UNCHANGED <<taskVars, reply>>

\* A task of Connection::open_stream.  open_stream_internal has negotiated the
\* protocol; the connection may be closed and reaped before the task goes on.
OpenNegotiated(o) ==
    /\ ~o.opened /\ muxer[o.cid] = "open" /\ MayOpen
    /\ opening' = (opening \ {o}) \cup {[cid |-> o.cid, req |-> o.req,
                                       opened |-> TRUE]}
    /\ UNCHANGED <<event_queue, reply, dialing, muxer, acceptor, closers,
                   identify, streams>>
    /\ taskEventUnchanged

\* The event first, then the reply.
OpenSucceeds(o) ==
    LET sid == Cardinality(DOMAIN streams) + 1 IN
    /\ o.opened
    /\ opening' = opening \ {o}
    /\ streams' = Insert(streams, sid,
                    [cid |-> o.cid,
                     state |-> IF reply[o.req] = "waiting" THEN "held"
                                                           ELSE "dropping"])
    /\ Emit(<<[type |-> "StreamOpened", cid |-> o.cid, sid |-> sid,
               dir |-> "Outbound"]>>)
    /\ Answer(o.req, "ok")
    /\ taskEventUnchanged
    /\ UNCHANGED <<dialing, muxer, acceptor, closers, identify>>

OpenFails(o) ==
    /\ ~o.opened
    /\ opening' = opening \ {o}
    /\ Emit(<<[type |-> "StreamError", cid |-> o.cid, dir |-> "Outbound"]>>)
    /\ Answer(o.req, "err")
    /\ taskEventUnchanged
    /\ UNCHANGED <<dialing, muxer, acceptor, closers, identify, streams>>

\* The accept task of connection c: an inbound sub-stream is negotiated and
\* handed to its protocol handler; or the negotiation fails; or the muxer is
\* closed and the task reports it and exits.
AcceptStream(c) ==
    LET sid == Cardinality(DOMAIN streams) + 1 IN
    /\ acceptor[c].running /\ muxer[c] = "open" /\ MayOpen
    /\ streams' = Insert(streams, sid, [cid |-> c, state |-> "held"])
    /\ Emit(<<[type |-> "StreamOpened", cid |-> c, sid |-> sid,
               dir |-> "Inbound"]>>)
    /\ taskEventUnchanged
    /\ UNCHANGED <<dialing, muxer, acceptor, closers, identify, opening, reply>>

\* The event carries dir, the direction of the connection.
SelectInboundFails(c) ==
    /\ acceptor[c].running /\ MayFail
    /\ Emit(<<[type |-> "StreamError", cid |-> c, dir |-> acceptor[c].dir]>>)
    /\ taskEventUnchanged /\ UNCHANGED <<dialing, taskVars, reply>>

\* Seeded fault: the task leaves its loop without telling the Swarm.
AcceptorExits_Silent(c) ==
    /\ acceptor[c].running /\ muxer[c] = "closed"
    /\ acceptor' = [acceptor EXCEPT ![c] = [dir |-> @.dir, running |-> FALSE]]
    /\ UNCHANGED event_queue
    /\ taskEventUnchanged
    /\ UNCHANGED <<dialing, muxer, closers, identify, opening, streams, reply>>

AcceptorExits(c) ==
    /\ acceptor[c].running /\ muxer[c] = "closed"
    /\ acceptor' = [acceptor EXCEPT ![c] = [dir |-> @.dir, running |-> FALSE]]
    /\ Emit(<<[type |-> "ConnectionClosed", cid |-> c]>>)
    /\ taskEventUnchanged
    /\ UNCHANGED <<dialing, muxer, closers, identify, opening, streams, reply>>

\* The Identify task (Connection::start_identify) opens its sub-stream ...
IdentifyNegotiated(c) ==
    /\ identify[c] = "opening" /\ muxer[c] = "open" /\ MayOpen
    /\ identify' = [identify EXCEPT ![c] = "opened"]
    /\ taskEventUnchanged
    /\ UNCHANGED <<event_queue, dialing, muxer, acceptor, closers, opening,
                   streams, reply>>

IdentifyOpens(c) ==
    LET sid == Cardinality(DOMAIN streams) + 1 IN
    /\ identify[c] = "opened"
    /\ identify' = [identify EXCEPT ![c] = "reading"]
    /\ streams' = Insert(streams, sid, [cid |-> c, state |-> "identify"])
    /\ Emit(<<[type |-> "StreamOpened", cid |-> c, sid |-> sid,
               dir |-> "Outbound"]>>)
    /\ taskEventUnchanged
    /\ UNCHANGED <<dialing, muxer, acceptor, closers, opening, reply>>

\* ... or cannot, and reports both errors ...
IdentifyOpenFails(c) ==
    /\ identify[c] = "opening"
    /\ identify' = Remove(identify, c)
    /\ Emit(<<[type |-> "StreamError", cid |-> c, dir |-> "Outbound"],
              [type |-> "IdentifyResult", cid |-> c, ok |-> FALSE]>>)
    /\ taskEventUnchanged
    /\ UNCHANGED <<dialing, muxer, acceptor, closers, opening, streams, reply>>

\* process_message consumes the Substream, so ending the task drops it.
ReleaseIdentifyStream(c) ==
    streams' = [s \in DOMAIN streams |->
                  IF streams[s].cid = c /\ streams[s].state = "identify"
                  THEN [streams[s] EXCEPT !.state = "dropping"]
                  ELSE streams[s]]

\* ... reads the message and reports the result.
IdentifyReads(c, ok) ==
    /\ identify[c] = "reading"
    /\ ok => muxer[c] = "open"
    /\ identify' = Remove(identify, c)
    /\ ReleaseIdentifyStream(c)
    /\ Emit(<<[type |-> "IdentifyResult", cid |-> c, ok |-> ok]>>)
    /\ taskEventUnchanged
    /\ UNCHANGED <<dialing, muxer, acceptor, closers, opening, reply>>

\* The task spawned by handle_connection_closed: wait(), then stop_identify,
\* which cancels the Identify task where it waits: never right before a send.
StopIdentify(c) ==
    /\ phase # "exited"
    /\ c \in 1..next_connection_id \ DOMAIN connections_by_id
    /\ ~acceptor[c].running /\ identify[c] # "opened"
    /\ identify' = Remove(identify, c)
    /\ ReleaseIdentifyStream(c)
    /\ UNCHANGED <<loopVars, exitVars, tableVars, dialVars, banned_peers,
                   addr_book, base_stats, muxer, acceptor, closers, opening, reply>>

\* external: the remote, or the network, closes the connection.
RemoteCloses(c) ==
    /\ muxer[c] = "open"
    /\ muxer' = [muxer EXCEPT ![c] = "closed"]
    /\ UNCHANGED <<loopVars, exitVars, tableVars, dialVars, banned_peers,
                   addr_book, base_stats, acceptor, closers, identify, opening,
                   streams, reply>>

\* Seeded fault: the task ends without closing the muxer.
CloseMuxer_Skips(c) ==
    /\ c \in closers
    /\ closers' = closers \ {c}
    /\ UNCHANGED <<loopVars, exitVars, tableVars, dialVars, banned_peers,
                   addr_book, base_stats, muxer, acceptor, identify, opening,
                   streams, reply>>

\* The task spawned by Connection::close.
CloseMuxer(c) ==
    /\ c \in closers
    /\ closers' = closers \ {c}
    /\ muxer' = [muxer EXCEPT ![c] = "closed"]
    /\ UNCHANGED <<loopVars, exitVars, tableVars, dialVars, banned_peers,
                   addr_book, base_stats, acceptor, identify, opening,
                   streams, reply>>

\* The peer store's GC task, clear_addrs() and the expiry of addresses.
ForgetAddrs(p) ==
    /\ "clear_addrs" \in Calls
    /\ addr_book' = addr_book \ {p}
    /\ UNCHANGED <<loopVars, exitVars, tableVars, dialVars, banned_peers,
                   base_stats, taskVars, reply>>
-----------------------------------------------------------------------------
(* The main loop, select() on the left: one event. *)

Event == Head(event_queue)

TakeEvent(type) ==
    /\ phase = "running" /\ ~polled
    /\ event_queue # <<>> /\ Event.type = type
    /\ event_queue' = Tail(event_queue)
    /\ UNCHANGED <<polled, ctrl_queue, exitVars, banned_peers>>

\* event_receiver.next() is Pending: ctrl_receiver is polled next.
EventsPending ==
    /\ phase = "running" /\ ~polled /\ event_queue = <<>>
    /\ polled' = TRUE
    /\ UNCHANGED <<phase, event_queue, ctrl_queue, exitVars, tableVars, dialVars,
                   banned_peers, addr_book, base_stats, taskVars, reply>>

add_connection(cid, peer, dir) ==
    /\ connections_by_id' = Insert(connections_by_id, cid,
          [peer |-> peer, dir |-> dir, closing |-> FALSE, substreams |-> {}])
    /\ connections_by_peer' = Insert(connections_by_peer, peer,
          {cid} \cup (IF peer \in DOMAIN connections_by_peer
                      THEN connections_by_peer[peer] ELSE {}))

\* The dial callback with Ok(connection): reply, or go on to open the stream.
CallbackOk(callback, cid) ==
    IF callback.kind = "connect"
    THEN Answer(callback.req, "ok") /\ UNCHANGED opening
    ELSE /\ opening' = opening \cup {[cid |-> cid, req |-> callback.req,
                                      opened |-> FALSE]}
         /\ UNCHANGED reply

\* dial_transactions.remove(&tid).expect("no match tid found")
TakeCallback(tid) ==
    /\ tid \in DOMAIN dial_transactions         \* else a panic: ExpectNeverFails
    /\ dial_transactions' = Remove(dial_transactions, tid)
    /\ UNCHANGED <<phase, next_tid, dialing>>

handle_connection_opened ==
    LET cid == next_connection_id + 1 IN
    /\ TakeEvent("ConnectionEstablished")
    /\ Bump(IF Event.dir = "Inbound" THEN "connection_incoming_opened"
                                     ELSE "connection_outgoing_opened")
    /\ next_connection_id' = cid
    /\ muxer' = Insert(muxer, cid, "open")
    /\ acceptor' = Insert(acceptor, cid, [dir |-> Event.dir, running |-> TRUE])
    /\ identify' = IF HasIdentify THEN Insert(identify, cid, "opening")
                   ELSE identify                       \* handler.connected
    /\ \/ /\ Event.tid = NoTid
          /\ UNCHANGED <<phase, dialVars, opening, reply>>
       \/ /\ Event.tid # NoTid
          /\ TakeCallback(Event.tid)
          /\ CallbackOk(dial_transactions[Event.tid], cid)
    /\ add_connection(cid, Event.peer, Event.dir)
    /\ UNCHANGED <<addr_book, closers, streams>>

handle_outgoing_connection_error ==
    /\ TakeEvent("OutgoingConnectionError")
    /\ Bump("outgoing_connection_error")
    /\ TakeCallback(Event.tid)
    /\ Answer(dial_transactions[Event.tid].req, "err")
    /\ UNCHANGED <<tableVars, addr_book, taskVars>>

handle_incoming_connection_error ==
    /\ TakeEvent("IncomingConnectionError")
    /\ Bump("incoming_connection_error")
    /\ UNCHANGED <<phase, tableVars, dialVars, addr_book, taskVars, reply>>

\* Seeded fault: the entry of a peer without connections is kept.
del_from_peer_KeepsEmpty(cid, peer) ==
    connections_by_peer' =
        IF peer \notin DOMAIN connections_by_peer THEN connections_by_peer
        ELSE Insert(connections_by_peer, peer, connections_by_peer[peer] \ {cid})

\* ids.retain(...), and the entry goes with its last id.
del_from_peer(cid, peer) ==
    LET rest == connections_by_peer[peer] \ {cid} IN
    connections_by_peer' =
        IF peer \notin DOMAIN connections_by_peer THEN connections_by_peer
        ELSE IF rest = {} THEN Remove(connections_by_peer, peer)
        ELSE Insert(connections_by_peer, peer, rest)

handle_connection_closed ==
    LET cid == Event.cid IN
    /\ TakeEvent("ConnectionClosed")
    /\ Bump("connection_closed")
    /\ IF cid \in DOMAIN connections_by_id
       THEN /\ connections_by_id' = Remove(connections_by_id, cid)
            /\ del_from_peer(cid, connections_by_id[cid].peer)
       ELSE UNCHANGED <<connections_by_id, connections_by_peer>>
    /\ UNCHANGED <<phase, next_connection_id, dialVars, addr_book, taskVars, reply>>

\* Seeded fault: entry().or_insert() instead of get_mut().
add_stream_Inserts(cid, sid) ==
    connections_by_id' =
        IF cid \in DOMAIN connections_by_id
        THEN [connections_by_id EXCEPT ![cid].substreams = @ \cup {sid}]
        ELSE Insert(connections_by_id, cid,
                    [peer |-> CHOOSE p \in Peers : TRUE, dir |-> "Inbound",
                     closing |-> FALSE, substreams |-> {sid}])

add_stream(cid, sid) ==
    connections_by_id' =
        IF cid \in DOMAIN connections_by_id
        THEN [connections_by_id EXCEPT ![cid].substreams = @ \cup {sid}]
        ELSE connections_by_id

\* Seeded fault: retain() with the condition the wrong way round.
del_stream_Others(cid, sid) ==
    connections_by_id' =
        IF cid \in DOMAIN connections_by_id
        THEN [connections_by_id EXCEPT ![cid].substreams = @ \cap {sid}]
        ELSE connections_by_id

del_stream(cid, sid) ==
    connections_by_id' =
        IF cid \in DOMAIN connections_by_id
        THEN [connections_by_id EXCEPT ![cid].substreams = @ \ {sid}]
        ELSE connections_by_id

handle_stream_opened ==
    /\ TakeEvent("StreamOpened")
    /\ Bump(IF Event.dir = "Inbound" THEN "substream_inbound_opened"
                                     ELSE "substream_outbound_opened")
    /\ add_stream(Event.cid, Event.sid)
    /\ UNCHANGED <<phase, connections_by_peer, next_connection_id, dialVars,
                   addr_book, taskVars, reply>>

handle_stream_error ==
    /\ TakeEvent("StreamError")
    /\ Bump(IF Event.dir = "Outbound" THEN "substream_outbound_error"
                                      ELSE "substream_inbound_error")
    /\ UNCHANGED <<phase, tableVars, dialVars, addr_book, taskVars, reply>>

\* A result that comes after the connection is gone is ignored.
handle_identify_result ==
    /\ TakeEvent("IdentifyResult")
    /\ addr_book' = IF Event.ok /\ Event.cid \in DOMAIN connections_by_id
                    THEN addr_book \cup {connections_by_id[Event.cid].peer}
                    ELSE addr_book
    /\ UNCHANGED <<phase, tableVars, dialVars, base_stats, taskVars, reply>>
-----------------------------------------------------------------------------
(* The main loop, select() on the right: one command, or None. *)

Cmd == Head(ctrl_queue)

TakeCmd(types) ==
    /\ phase = "running" /\ polled
    /\ ctrl_queue # <<>> /\ Cmd.type \in types
    /\ polled' = FALSE
    /\ ctrl_queue' = Tail(ctrl_queue)
    /\ UNCHANGED <<phase, event_queue, exitVars, banned_peers>>

\* Both channels are Pending: the task sleeps until one of them wakes it.
CommandsPending ==
    /\ phase = "running" /\ polled /\ ctrl_queue = <<>> /\ ~ctrl_closed
    /\ polled' = FALSE
    /\ UNCHANGED <<phase, event_queue, ctrl_queue, exitVars, tableVars, dialVars,
                   banned_peers, addr_book, base_stats, taskVars, reply>>

\* What get_best_conn returns: the last of the connections with the most
\* sub-streams.
NumStreams(c) == Cardinality(connections_by_id[c].substreams)
Candidates(p) == IF p \in DOMAIN connections_by_peer
                 THEN connections_by_peer[p] \cap DOMAIN connections_by_id ELSE {}
get_best_conn(p) ==
    {c \in Candidates(p) : \A d \in Candidates(p) :
        NumStreams(d) < NumStreams(c) \/ (NumStreams(d) = NumStreams(c) /\ d <= c)}

\* Seeded fault: assign_tid returns the next id without counting it.
Dial_SameTid(peer, kind, req) ==
    /\ UNCHANGED next_tid
    /\ dial_transactions' = Insert(dial_transactions, next_tid + 1,
                                   [kind |-> kind, req |-> req])
    /\ dialing' = dialing \cup {[tid |-> next_tid + 1, peer |-> peer]}

\* assign_tid, and the dial task is spawned.
Dial(peer, kind, req) ==
    /\ next_tid' = next_tid + 1
    /\ dial_transactions' = Insert(dial_transactions, next_tid',
                                   [kind |-> kind, req |-> req])
    /\ dialing' = dialing \cup {[tid |-> next_tid', peer |-> peer]}

\* dial_addr and dial_peer up to the dialer; the caller is answered if the
\* peer is ourselves or nothing is known about where to find it.
dial_addr(peer, req) ==
    IF peer = Self
    THEN Answer(req, "err") /\ UNCHANGED <<dialVars, addr_book>>
    ELSE /\ addr_book' = addr_book \cup {peer}
         /\ Dial(peer, "connect", req)
         /\ UNCHANGED reply

dial_peer(peer, use_routing, kind, req) ==
    /\ IF peer # Self /\ (peer \in addr_book \/ (use_routing /\ HasRouting))
       THEN Dial(peer, kind, req) /\ UNCHANGED reply
       ELSE Answer(req, "err") /\ UNCHANGED dialVars
    /\ UNCHANGED addr_book

on_connect ==
    /\ TakeCmd({"connect"})
    /\ IF Candidates(Cmd.peer) # {}
       THEN Answer(Cmd.req, "ok") /\ UNCHANGED <<dialVars, addr_book>>
       ELSE dial_addr(Cmd.peer, Cmd.req)
    /\ UNCHANGED <<tableVars, base_stats, taskVars>>

on_new_connection ==
    /\ TakeCmd({"new_connection"})
    /\ IF Candidates(Cmd.peer) # {}
       THEN Answer(Cmd.req, "ok") /\ UNCHANGED <<dialVars, addr_book>>
       ELSE dial_peer(Cmd.peer, Cmd.routing, "connect", Cmd.req)
    /\ UNCHANGED <<tableVars, base_stats, taskVars>>

on_new_stream ==
    /\ TakeCmd({"new_stream"})
    /\ IF Candidates(Cmd.peer) # {}
       THEN /\ \E c \in get_best_conn(Cmd.peer) :
                  opening' = opening \cup {[cid |-> c, req |-> Cmd.req,
                                            opened |-> FALSE]}
            /\ UNCHANGED <<dialVars, addr_book, reply>>
       ELSE /\ dial_peer(Cmd.peer, Cmd.routing, "stream", Cmd.req)
            /\ UNCHANGED opening
    /\ UNCHANGED <<tableVars, base_stats, muxer, acceptor, closers, identify, streams>>

on_close_connection ==
    LET ids == Candidates(Cmd.peer) IN
    /\ TakeCmd({"disconnect"})
    /\ connections_by_id' = [c \in DOMAIN connections_by_id |->
          IF c \in ids THEN [connections_by_id[c] EXCEPT !.closing = TRUE]
                       ELSE connections_by_id[c]]
    /\ closers' = closers \cup ids
    /\ Answer(Cmd.req, IF Cmd.peer \in DOMAIN connections_by_peer THEN "ok"
                                                                  ELSE "err")
    /\ UNCHANGED <<connections_by_peer, next_connection_id, dialVars, addr_book,
                   base_stats, muxer, acceptor, identify, opening, streams>>

\* on_close_stream: handle_stream_closed.
handle_stream_closed ==
    /\ TakeCmd({"CloseStream"})
    /\ Bump("substream_closed")
    /\ del_stream(Cmd.cid, Cmd.sid)
    /\ streams' = [streams EXCEPT ![Cmd.sid].state = "closed"]
    /\ UNCHANGED <<connections_by_peer, next_connection_id, dialVars, addr_book,
                   muxer, acceptor, closers, identify, opening, reply>>

\* ctrl_receiver.next() is None: handle_messages returns Closing(1).
MainLoopQuits ==
    /\ phase = "running" /\ polled /\ ctrl_queue = <<>> /\ ctrl_closed
    /\ phase' = "quitting"
    /\ UNCHANGED <<polled, event_queue, ctrl_queue, exitVars, tableVars, dialVars,
                   banned_peers, addr_book, base_stats, taskVars, reply>>

\* The rest of the task: the exit flag is set, and the Swarm is dropped with
\* its receivers, its connections and the callbacks nobody will call.
MainLoopExits ==
    /\ phase = "quitting"
    /\ phase' = "exited"
    /\ exit_flag' = TRUE
    /\ event_queue' = <<>>
    /\ connections_by_id' = Empty /\ connections_by_peer' = Empty
    /\ dial_transactions' = Empty
    /\ reply' = [r \in Requests |->
          IF reply[r] = "waiting" /\ \E t \in DOMAIN dial_transactions :
                                        dial_transactions[t].req = r
          THEN "canceled" ELSE reply[r]]
    /\ UNCHANGED <<polled, ctrl_queue, ctrl_closed, closer, next_connection_id,
                   next_tid, dialing, banned_peers, addr_book, base_stats, taskVars>>
-----------------------------------------------------------------------------
Lifecycle == start \/ MainLoopBegins \/ close \/ CloseReturns
                \/ \E p \in Peers : ban_peer_id(p) \/ unban_peer_id(p)

OnEvent == handle_connection_opened \/ handle_outgoing_connection_error
              \/ handle_incoming_connection_error \/ handle_connection_closed
              \/ handle_stream_opened \/ handle_stream_error
              \/ handle_identify_result

OnCommand == on_connect \/ on_new_connection \/ on_new_stream
                \/ on_close_connection \/ handle_stream_closed

MainLoop == EventsPending \/ OnEvent \/ CommandsPending \/ OnCommand
               \/ MainLoopQuits \/ MainLoopExits

Clients == \E r \in Requests :
              \/ \E kind \in Calls \cap Kinds, p \in Peers \cup {Self} :
                    \E b \in UseRouting(kind) : Submit(r, kind, p, b)
              \/ RequestTimeout(r)

DialTasks == \E d \in dialing : DialSucceeds(d) \/ DialFails(d)

StreamTasks == \/ \E o \in opening : OpenNegotiated(o) \/ OpenSucceeds(o) \/ OpenFails(o)
               \/ \E s \in DOMAIN streams : DropSubstream(s) \/ SendCloseStream(s)

AcceptTasks == \E c \in DOMAIN acceptor :
    AcceptStream(c) \/ SelectInboundFails(c) \/ AcceptorExits(c)

IdentifyTasks == \E c \in DOMAIN identify :
    \/ IdentifyNegotiated(c) \/ IdentifyOpens(c) \/ IdentifyOpenFails(c)
    \/ StopIdentify(c)
    \/ \E ok \in BOOLEAN : IdentifyReads(c, ok)

Environment == \/ \E p \in Peers : Accepted(p) \/ ForgetAddrs(p)
               \/ AcceptError
               \/ \E c \in DOMAIN muxer : RemoteCloses(c) \/ CloseMuxer(c)

Next == Lifecycle \/ MainLoop \/ Clients \/ DialTasks \/ StreamTasks
           \/ AcceptTasks \/ IdentifyTasks \/ Environment

Spec == Init /\ [][Next]_vars

\* The runtime polls every task that has been woken: the main loop, the dial
\* tasks (module Dialer: they always end), the tasks that close a muxer and the
\* accept tasks, which a closed muxer wakes.  The application starts the Swarm.
\* Nothing is assumed of the remote: opening a stream may hang, and only the
\* timeout of new_stream_with_timeout ends the wait.
Fairness ==
    /\ WF_vars(start) /\ WF_vars(MainLoopBegins)
    /\ WF_vars(MainLoop)
    /\ WF_vars(DialTasks)
    /\ \A c \in 1..MaxConns : /\ WF_vars(c \in DOMAIN muxer /\ CloseMuxer(c))
                              /\ WF_vars(c \in DOMAIN acceptor /\ AcceptorExits(c))
    /\ \A r \in Requests : WF_vars(RequestTimeout(r))

FairSpec == Spec /\ Fairness
-----------------------------------------------------------------------------
(* Properties. *)

\* Every variable stays in its type; the maps are partial functions.
TypeOK ==
    /\ phase \in {"built", "spawned", "running", "quitting", "exited"}
    /\ polled \in BOOLEAN /\ ctrl_closed \in BOOLEAN /\ exit_flag \in BOOLEAN
    /\ closer \in {"idle", "spinning", "returned"}
    /\ event_queue \in Seq(SwarmEvent)
    /\ ctrl_queue \in Seq(SwarmControlCmd)
    /\ connections_by_id \in [DOMAIN connections_by_id -> Connection]
    /\ DOMAIN connections_by_id \subseteq 1..next_connection_id
    /\ connections_by_peer \in [DOMAIN connections_by_peer -> SUBSET Cids]
    /\ DOMAIN connections_by_peer \subseteq Peers
    /\ next_connection_id \in Nat /\ next_tid \in Nat
    /\ dial_transactions \in [DOMAIN dial_transactions -> Callbacks]
    /\ DOMAIN dial_transactions \subseteq 1..next_tid
    /\ dialing \subseteq [tid : Tids, peer : Peers]
    /\ banned_peers \subseteq Peers /\ addr_book \subseteq Peers
    /\ base_stats \in [SwarmBaseStats -> Nat]
    /\ muxer \in [1..next_connection_id -> {"open", "closed"}]
    /\ acceptor \in [1..next_connection_id -> [dir : Direction, running : BOOLEAN]]
    /\ closers \subseteq 1..next_connection_id
    /\ identify \in [DOMAIN identify -> {"opening", "opened", "reading"}]
    /\ DOMAIN identify \subseteq 1..next_connection_id
    /\ opening \subseteq [cid : 1..next_connection_id, req : Requests,
                         opened : BOOLEAN]
    /\ streams \in [DOMAIN streams -> [cid : 1..next_connection_id,
                       state : {"held", "identify", "dropping", "closing", "closed"}]]
    /\ DOMAIN streams \subseteq Sids
    /\ reply \in [Requests -> {"idle", "waiting", "ok", "err", "timeout", "canceled"}]

\* connections_by_id and connections_by_peer are one relation: a connection is
\* listed under its own peer and no other, and no peer keeps an empty list once
\* its last connection is closed, whatever the order of opens and closes.
TablesAgree ==
    /\ \A c \in DOMAIN connections_by_id :
          /\ connections_by_id[c].peer \in DOMAIN connections_by_peer
          /\ c \in connections_by_peer[connections_by_id[c].peer]
    /\ \A p \in DOMAIN connections_by_peer :
          /\ connections_by_peer[p] # {}
          /\ \A c \in connections_by_peer[p] : c \in DOMAIN connections_by_id
                                                  /\ connections_by_id[c].peer = p

TidOf(e) == IF e.type \in {"ConnectionEstablished", "OutgoingConnectionError"}
            THEN e.tid ELSE NoTid

\* The two expect("no match tid found") never panic: every dial result on its
\* way to the main loop still has its callback in dial_transactions.
ExpectNeverFails ==
    \A i \in DOMAIN event_queue :
        TidOf(event_queue[i]) # NoTid =>
            TidOf(event_queue[i]) \in DOMAIN dial_transactions

\* No caller is forgotten and none is answered twice: while the Swarm lives,
\* every callback in dial_transactions has exactly one source, a running dial
\* task or one queued result.
OneReportPerDial ==
    phase # "exited" =>
      \A t \in DOMAIN dial_transactions :
        Cardinality({d \in dialing : d.tid = t})
          + Cardinality({i \in DOMAIN event_queue : TidOf(event_queue[i]) = t}) = 1

ClosedReports(c) == {i \in DOMAIN event_queue :
                        event_queue[i].type = "ConnectionClosed"
                           /\ event_queue[i].cid = c}

\* The race described at the end of handle_connection_opened: the accept task
\* may exit at any moment, also before the connection is in the tables, and
\* the connection is still cleaned up: a connection is in connections_by_id
\* exactly while its accept task runs or its ConnectionClosed is queued, which
\* happens once ("shouldn't happen, wired connection" does not).
ConnectionIsReaped ==
    phase # "exited" =>
      \A c \in 1..next_connection_id :
        Cardinality(ClosedReports(c)) =
          IF c \in DOMAIN connections_by_id /\ ~acceptor[c].running THEN 1 ELSE 0

\* The counters of get_stats agree with the tables of get_network_info: the
\* connections that were opened and not closed are the ones in the table.
StatsMatchTables ==
    phase # "exited" =>
      base_stats["connection_incoming_opened"]
        + base_stats["connection_outgoing_opened"]
      = base_stats["connection_closed"] + Cardinality(DOMAIN connections_by_id)

\* handle_connection_opened and handle_connection_closed account for each connection exactly
\* once, in the tables, in the queue and in the counters, whichever of dial, accept, close
\* and Identify comes first.
ConnectionsAccounted == ConnectionIsReaped /\ StatsMatchTables

OpenReported(s) == ~ \E i \in DOMAIN event_queue :
                        event_queue[i].type = "StreamOpened"
                           /\ event_queue[i].sid = s

\* A sub-stream somebody still uses is in the list of its connection and of no
\* other, from the moment its StreamOpened is handled.
LiveStreamIsListed ==
    phase # "exited" =>
      /\ \A s \in DOMAIN streams :
           /\ streams[s].state \in {"held", "identify"} /\ OpenReported(s)
           /\ streams[s].cid \in DOMAIN connections_by_id
           => s \in connections_by_id[streams[s].cid].substreams
      /\ \A c \in DOMAIN connections_by_id :
           \A s \in connections_by_id[c].substreams : streams[s].cid = c

\* What the Swarm says it does, and the code does not (see the findings).

\* Every call of connect, new_connection, disconnect and of
\* new_stream_with_timeout returns, also when the Swarm is closed under it.
RequestsAnswered == \A r \in Requests : reply[r] = "waiting" ~> reply[r] # "waiting"

\* Connection::close: once closing, a connection leaves the tables.
ClosingConnectionLeaves ==
    \A c \in 1..MaxConns :
        (c \in DOMAIN connections_by_id /\ connections_by_id[c].closing)
            ~> c \notin DOMAIN connections_by_id

\* A closed connection never comes back, and its id is never given away again:
\* late StreamOpened, IdentifyResult or CloseStream messages cannot revive it.
ClosedStaysClosed ==
    [][\A c \in 1..next_connection_id :
          c \in DOMAIN connections_by_id' => c \in DOMAIN connections_by_id]_vars
=============================================================================
