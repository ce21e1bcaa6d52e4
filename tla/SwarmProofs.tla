---------------------------- MODULE SwarmProofs ----------------------------
(***************************************************************************)
(* What holds of Swarm for all peers, requests, calls and bounds: its      *)
(* types, the agreement of its two connection tables, that a closed        *)
(* connection never comes back, and that every dial transaction has one    *)
(* result on its way, so that the expect() on dial_transactions holds.     *)
(***************************************************************************)
EXTENDS Swarm, FiniteSetTheorems, TLAPS

USE DEF loopVars, exitVars, tableVars, dialVars, taskVars, taskEventUnchanged

\* The parts of TypeOK.
StreamStates == {"held", "identify", "dropping", "closing", "closed"}
Substreams == [cid : 1..next_connection_id, state : StreamStates]
Replies == {"idle", "waiting", "ok", "err", "timeout", "canceled"}

FlagTypes ==
    /\ phase \in {"built", "spawned", "running", "quitting", "exited"}
    /\ polled \in BOOLEAN /\ ctrl_closed \in BOOLEAN /\ exit_flag \in BOOLEAN
    /\ closer \in {"idle", "spinning", "returned"}
EventTypes == event_queue \in Seq(SwarmEvent)
CmdTypes == ctrl_queue \in Seq(SwarmControlCmd)
TableTypes ==
    /\ next_connection_id \in Nat
    /\ connections_by_id \in [DOMAIN connections_by_id -> Connection]
    /\ DOMAIN connections_by_id \subseteq 1..next_connection_id
    /\ connections_by_peer \in [DOMAIN connections_by_peer -> SUBSET Cids]
    /\ DOMAIN connections_by_peer \subseteq Peers
DialTypes ==
    /\ next_tid \in Nat
    /\ dial_transactions \in [DOMAIN dial_transactions -> Callbacks]
    /\ DOMAIN dial_transactions \subseteq 1..next_tid
    /\ dialing \subseteq [tid : Tids, peer : Peers]
BookTypes ==
    /\ banned_peers \subseteq Peers /\ addr_book \subseteq Peers
    /\ base_stats \in [SwarmBaseStats -> Nat]
TaskTypes ==
    /\ muxer \in [1..next_connection_id -> {"open", "closed"}]
    /\ acceptor \in [1..next_connection_id -> [dir : Direction, running : BOOLEAN]]
    /\ closers \subseteq 1..next_connection_id
    /\ identify \in [DOMAIN identify -> {"opening", "opened", "reading"}]
    /\ DOMAIN identify \subseteq 1..next_connection_id
OpeningTypes ==
    opening \subseteq [cid : 1..next_connection_id, req : Requests, opened : BOOLEAN]
\* TypeOK says all of this but that the streams are finitely many, which makes
\* the number of the next one a number.
StreamTypes ==
    /\ streams \in [DOMAIN streams -> Substreams]
    /\ DOMAIN streams \subseteq Sids
    /\ IsFiniteSet(DOMAIN streams)
ReplyTypes == reply \in [Requests -> Replies]

TypeInv == /\ FlagTypes /\ EventTypes /\ CmdTypes /\ TableTypes /\ DialTypes
           /\ BookTypes /\ TaskTypes /\ OpeningTypes /\ StreamTypes /\ ReplyTypes
-----------------------------------------------------------------------------
(* What the helpers do to the types. *)

\* The event channel carries events.
LEMMA EmitTypes ==
    ASSUME EventTypes, NEW es \in Seq(SwarmEvent), Emit(es)
    PROVE  EventTypes'
  BY DEF EventTypes, Emit

LEMMA OneEvent ==
    ASSUME NEW e \in SwarmEvent
    PROVE  <<e>> \in Seq(SwarmEvent)
  OBVIOUS

\* Answering a caller.
LEMMA AnswerTypes ==
    ASSUME ReplyTypes, NEW r \in Requests, NEW v \in Replies, Answer(r, v)
    PROVE  ReplyTypes'
  BY DEF ReplyTypes, Answer, Replies

\* Counting.
LEMMA BumpTypes ==
    ASSUME base_stats \in [SwarmBaseStats -> Nat], NEW f \in SwarmBaseStats, Bump(f)
    PROVE  base_stats' \in [SwarmBaseStats -> Nat]
  BY DEF Bump

\* What the main loop takes from the event channel, and what the handlers
\* use of it.
LEMMA TakenEvent ==
    ASSUME EventTypes, NEW t, TakeEvent(t)
    PROVE  Event \in SwarmEvent /\ Event.type = t
  BY DEF EventTypes, TakeEvent, Event

LEMMA TakenEstablished ==
    ASSUME EventTypes, TakeEvent("ConnectionEstablished")
    PROVE  Event.peer \in Peers /\ Event.dir \in Direction /\ Event.tid \in Nat
  <1>1. Event \in SwarmEvent /\ Event.type = "ConnectionEstablished"
    BY TakenEvent
  <1> QED
    BY <1>1 DEF SwarmEvent

LEMMA TakenOpened ==
    ASSUME EventTypes, TakeEvent("StreamOpened")
    PROVE  Event.cid \in Cids /\ Event.sid \in Sids
  <1>1. Event \in SwarmEvent /\ Event.type = "StreamOpened"
    BY TakenEvent
  <1> QED
    BY <1>1 DEF SwarmEvent

\* What the main loop takes from the control channel.
LEMMA TakenRequest ==
    ASSUME CmdTypes, NEW k \in Kinds, TakeCmd({k})
    PROVE  Cmd.peer \in Peers \cup {Self} /\ Cmd.req \in Requests
  <1>1. Cmd \in SwarmControlCmd /\ Cmd.type = k
    BY DEF CmdTypes, TakeCmd, Cmd
  <1> QED
    BY <1>1 DEF SwarmControlCmd, Kinds

\* A new sub-stream gets the next number.
LEMMA NewStream ==
    ASSUME StreamTypes, NEW x \in Substreams, UNCHANGED next_connection_id,
           streams' = Insert(streams, Cardinality(DOMAIN streams) + 1, x)
    PROVE  StreamTypes'
  <1> DEFINE sid == Cardinality(DOMAIN streams) + 1
  <1>1. Cardinality(DOMAIN streams) \in Nat
    BY FS_CardinalityType DEF StreamTypes
  <1>2. sid \in Sids
    BY <1>1 DEF Sids
  <1> HIDE DEF sid
  <1>3. streams' = Insert(streams, sid, x)
    BY DEF sid
  <1>4. DOMAIN streams' = DOMAIN streams \cup {sid}
    BY <1>3 DEF Insert
  <1>5. IsFiniteSet(DOMAIN streams')
    BY <1>4, FS_AddElement DEF StreamTypes
  <1>6. streams' \in [DOMAIN streams' -> Substreams]
    BY <1>3, <1>4 DEF Insert, StreamTypes
  <1> QED
    BY <1>2, <1>4, <1>5, <1>6 DEF StreamTypes, Substreams

\* A sub-stream moves on to another state.
LEMMA StreamKept ==
    ASSUME StreamTypes, NEW s, NEW x \in StreamStates, UNCHANGED next_connection_id,
           streams' = [streams EXCEPT ![s].state = x]
    PROVE  StreamTypes'
  <1>1. DOMAIN streams' = DOMAIN streams
    OBVIOUS
  <1>2. streams' \in [DOMAIN streams -> Substreams]
    BY DEF StreamTypes, Substreams
  <1> QED
    BY <1>1, <1>2 DEF StreamTypes, Substreams

\* The Identify task lets go of its sub-stream.
LEMMA ReleaseTypes ==
    ASSUME StreamTypes, NEW c, ReleaseIdentifyStream(c), UNCHANGED next_connection_id
    PROVE  StreamTypes'
  <1>1. DOMAIN streams' = DOMAIN streams
    BY DEF ReleaseIdentifyStream
  <1>2. \A s \in DOMAIN streams : [streams[s] EXCEPT !.state = "dropping"] \in Substreams
    BY DEF StreamTypes, Substreams, StreamStates
  <1>3. streams' \in [DOMAIN streams -> Substreams]
    BY <1>2 DEF ReleaseIdentifyStream, StreamTypes
  <1> QED
    BY <1>1, <1>3 DEF StreamTypes, Substreams

\* add_stream and del_stream touch nothing but the list of one connection.
LEMMA StreamAdded ==
    ASSUME TableTypes, UNCHANGED <<connections_by_peer, next_connection_id>>,
           NEW c, NEW s \in Sids, add_stream(c, s)
    PROVE  TableTypes'
  <1>1. DOMAIN connections_by_id' = DOMAIN connections_by_id
    BY DEF add_stream
  <1>2. connections_by_id' \in [DOMAIN connections_by_id -> Connection]
    BY DEF TableTypes, Connection, add_stream
  <1> QED
    BY <1>1, <1>2 DEF TableTypes

LEMMA StreamDeleted ==
    ASSUME TableTypes, UNCHANGED <<connections_by_peer, next_connection_id>>,
           NEW c, NEW s, del_stream(c, s)
    PROVE  TableTypes'
  <1>1. DOMAIN connections_by_id' = DOMAIN connections_by_id
    BY DEF del_stream
  <1>2. connections_by_id' \in [DOMAIN connections_by_id -> Connection]
    BY DEF TableTypes, Connection, del_stream
  <1> QED
    BY <1>1, <1>2 DEF TableTypes

\* assign_tid and the callback.
LEMMA DialTyped ==
    ASSUME DialTypes, NEW p \in Peers, NEW kind \in {"connect", "stream"},
           NEW r \in Requests, Dial(p, kind, r)
    PROVE  DialTypes'
  <1>1. [kind |-> kind, req |-> r] \in Callbacks
    BY DEF Callbacks
  <1>2. next_tid' \in Nat /\ next_tid' = next_tid + 1
    BY DEF Dial, DialTypes
  <1>3. /\ dial_transactions' \in [DOMAIN dial_transactions' -> Callbacks]
        /\ DOMAIN dial_transactions' \subseteq 1..next_tid'
    BY <1>1, <1>2 DEF Dial, DialTypes, Insert
  <1>4. [tid |-> next_tid', peer |-> p] \in [tid : Tids, peer : Peers]
    BY <1>2 DEF DialTypes, Tids
  <1> QED
    BY <1>2, <1>3, <1>4 DEF Dial, DialTypes
-----------------------------------------------------------------------------

(* Starting and closing. *)

\* One lemma per action: first the flags, then the parts the action writes,
\* then the parts it leaves alone or writes in a simple way.
LEMMA Typed_Lifecycle ==
    ASSUME TypeInv, Lifecycle
    PROVE  TypeInv'
  <1>1. FlagTypes'
    BY Zenon DEF TypeInv, FlagTypes, Lifecycle, start, MainLoopBegins, close,
                 CloseReturns, ban_peer_id, unban_peer_id
  <1>2. EventTypes' /\ CmdTypes' /\ TableTypes' /\ DialTypes'
        /\ BookTypes' /\ TaskTypes' /\ OpeningTypes' /\ StreamTypes' /\ ReplyTypes'
    BY SMT DEF TypeInv, EventTypes, CmdTypes, TableTypes, DialTypes, BookTypes,
               TaskTypes, OpeningTypes, StreamTypes, ReplyTypes, Replies, Substreams,
               Lifecycle, start, MainLoopBegins, close, CloseReturns, ban_peer_id,
               unban_peer_id
  <1> QED
    BY <1>1, <1>2 DEF TypeInv

(* The clients. *)

LEMMA Typed_Submit ==
    ASSUME TypeInv, NEW r \in Requests, NEW kind \in Calls \cap Kinds,
           NEW p \in Peers \cup {Self}, NEW b \in BOOLEAN, Submit(r, kind, p, b)
    PROVE  TypeInv'
  <1>1. FlagTypes'
    BY Zenon DEF TypeInv, FlagTypes, Submit
  <1>2. CmdTypes'
    <2>1. kind \in Kinds
      OBVIOUS
    <2>2. [type |-> kind, peer |-> p, req |-> r, routing |-> b] \in SwarmControlCmd
      BY <2>1 DEF SwarmControlCmd
    <2> QED
      BY <2>2 DEF Submit, TypeInv, CmdTypes
  <1>3. ReplyTypes'
    BY DEF Submit, TypeInv, ReplyTypes, Replies
  <1>4. EventTypes' /\ TableTypes' /\ DialTypes' /\ BookTypes'
        /\ TaskTypes' /\ OpeningTypes' /\ StreamTypes'
    BY SMT DEF TypeInv, EventTypes, TableTypes, DialTypes, BookTypes, TaskTypes,
               OpeningTypes, StreamTypes, Substreams,
               Submit
  <1> QED
    BY <1>1, <1>2, <1>3, <1>4 DEF TypeInv

LEMMA Typed_RequestTimeout ==
    ASSUME TypeInv, NEW r \in Requests, RequestTimeout(r)
    PROVE  TypeInv'
  <1>1. FlagTypes'
    BY Zenon DEF TypeInv, FlagTypes, RequestTimeout
  <1>2. ReplyTypes'
    BY DEF RequestTimeout, TypeInv, ReplyTypes, Replies
  <1>3. EventTypes' /\ CmdTypes' /\ TableTypes' /\ DialTypes'
        /\ BookTypes' /\ TaskTypes' /\ OpeningTypes' /\ StreamTypes'
    BY SMT DEF TypeInv, EventTypes, CmdTypes, TableTypes, DialTypes, BookTypes,
               TaskTypes, OpeningTypes, StreamTypes, Substreams,
               RequestTimeout
  <1> QED
    BY <1>1, <1>2, <1>3 DEF TypeInv

LEMMA Typed_DropSubstream ==
    ASSUME TypeInv, NEW s \in DOMAIN streams, DropSubstream(s)
    PROVE  TypeInv'
  <1>1. FlagTypes'
    BY Zenon DEF TypeInv, FlagTypes, DropSubstream
  <1>2. StreamTypes'
    BY StreamKept DEF DropSubstream, TypeInv, StreamStates
  <1>3. EventTypes' /\ CmdTypes' /\ TableTypes' /\ DialTypes'
        /\ BookTypes' /\ TaskTypes' /\ OpeningTypes' /\ ReplyTypes'
    BY SMT DEF TypeInv, EventTypes, CmdTypes, TableTypes, DialTypes, BookTypes,
               TaskTypes, OpeningTypes, ReplyTypes, Replies,
               DropSubstream
  <1> QED
    BY <1>1, <1>2, <1>3 DEF TypeInv

LEMMA Typed_SendCloseStream ==
    ASSUME TypeInv, NEW s \in DOMAIN streams, SendCloseStream(s)
    PROVE  TypeInv'
  <1>1. FlagTypes'
    BY Zenon DEF TypeInv, FlagTypes, SendCloseStream
  <1>2. CmdTypes'
    <2>1. [type |-> "CloseStream", cid |-> streams[s].cid, sid |-> s] \in SwarmControlCmd
      BY DEF TypeInv, StreamTypes, TableTypes, SwarmControlCmd, Cids, Substreams
    <2> QED
      BY <2>1 DEF SendCloseStream, TypeInv, CmdTypes
  <1>3. StreamTypes'
    BY StreamKept DEF SendCloseStream, TypeInv, StreamStates
  <1>4. EventTypes' /\ TableTypes' /\ DialTypes' /\ BookTypes'
        /\ TaskTypes' /\ OpeningTypes' /\ ReplyTypes'
    BY SMT DEF TypeInv, EventTypes, TableTypes, DialTypes, BookTypes, TaskTypes,
               OpeningTypes, ReplyTypes, Replies,
               SendCloseStream
  <1> QED
    BY <1>1, <1>2, <1>3, <1>4 DEF TypeInv

(* The tasks that emit events. *)

LEMMA Typed_Accepted ==
    ASSUME TypeInv, NEW p \in Peers, Accepted(p)
    PROVE  TypeInv'
  <1>1. FlagTypes'
    BY Zenon DEF TypeInv, FlagTypes, Accepted
  <1>2. EventTypes'
    <2>1. [type |-> "ConnectionEstablished", peer |-> p, dir |-> "Inbound",
    tid |-> NoTid] \in SwarmEvent
      BY DEF SwarmEvent, TypeInv, Direction, NoTid
    <2> QED
      BY <2>1, OneEvent, EmitTypes DEF Accepted, TypeInv
  <1>3. CmdTypes' /\ TableTypes' /\ DialTypes' /\ BookTypes'
        /\ TaskTypes' /\ OpeningTypes' /\ StreamTypes' /\ ReplyTypes'
    BY SMT DEF TypeInv, CmdTypes, TableTypes, DialTypes, BookTypes, TaskTypes,
               OpeningTypes, StreamTypes, ReplyTypes, Replies, Substreams,
               Accepted, Emit, NoTid
  <1> QED
    BY <1>1, <1>2, <1>3 DEF TypeInv

LEMMA Typed_AcceptError ==
    ASSUME TypeInv, AcceptError
    PROVE  TypeInv'
  <1>1. FlagTypes'
    BY Zenon DEF TypeInv, FlagTypes, AcceptError
  <1>2. EventTypes'
    <2>1. [type |-> "IncomingConnectionError"] \in SwarmEvent
      BY DEF SwarmEvent, TypeInv
    <2> QED
      BY <2>1, OneEvent, EmitTypes DEF AcceptError, TypeInv
  <1>3. CmdTypes' /\ TableTypes' /\ DialTypes' /\ BookTypes'
        /\ TaskTypes' /\ OpeningTypes' /\ StreamTypes' /\ ReplyTypes'
    BY SMT DEF TypeInv, CmdTypes, TableTypes, DialTypes, BookTypes, TaskTypes,
               OpeningTypes, StreamTypes, ReplyTypes, Replies, Substreams,
               AcceptError, Emit
  <1> QED
    BY <1>1, <1>2, <1>3 DEF TypeInv

LEMMA Typed_DialSucceeds ==
    ASSUME TypeInv, NEW d \in dialing, DialSucceeds(d)
    PROVE  TypeInv'
  <1>1. FlagTypes'
    BY Zenon DEF TypeInv, FlagTypes, DialSucceeds
  <1>2. EventTypes'
    <2>1. [type |-> "ConnectionEstablished", peer |-> d.peer, dir |-> "Outbound",
    tid |-> d.tid] \in SwarmEvent
      BY DEF SwarmEvent, TypeInv, Direction, DialTypes, Tids
    <2> QED
      BY <2>1, OneEvent, EmitTypes DEF DialSucceeds, TypeInv
  <1>3. CmdTypes' /\ TableTypes' /\ DialTypes' /\ BookTypes'
        /\ TaskTypes' /\ OpeningTypes' /\ StreamTypes' /\ ReplyTypes'
    BY SMT DEF TypeInv, CmdTypes, TableTypes, DialTypes, BookTypes, TaskTypes,
               OpeningTypes, StreamTypes, ReplyTypes, Replies, Substreams,
               DialSucceeds, Emit
  <1> QED
    BY <1>1, <1>2, <1>3 DEF TypeInv

LEMMA Typed_DialFails ==
    ASSUME TypeInv, NEW d \in dialing, DialFails(d)
    PROVE  TypeInv'
  <1>1. FlagTypes'
    BY Zenon DEF TypeInv, FlagTypes, DialFails
  <1>2. EventTypes'
    <2>1. [type |-> "OutgoingConnectionError", tid |-> d.tid] \in SwarmEvent
      BY DEF SwarmEvent, TypeInv, DialTypes, Tids
    <2> QED
      BY <2>1, OneEvent, EmitTypes DEF DialFails, TypeInv
  <1>3. CmdTypes' /\ TableTypes' /\ DialTypes' /\ BookTypes'
        /\ TaskTypes' /\ OpeningTypes' /\ StreamTypes' /\ ReplyTypes'
    BY SMT DEF TypeInv, CmdTypes, TableTypes, DialTypes, BookTypes, TaskTypes,
               OpeningTypes, StreamTypes, ReplyTypes, Replies, Substreams,
               DialFails, Emit
  <1> QED
    BY <1>1, <1>2, <1>3 DEF TypeInv

LEMMA Typed_OpenNegotiated ==
    ASSUME TypeInv, NEW o \in opening, OpenNegotiated(o)
    PROVE  TypeInv'
  <1>1. FlagTypes'
    BY Zenon DEF TypeInv, FlagTypes, OpenNegotiated
  <1>2. OpeningTypes'
    <2> DEFINE new == [cid |-> o.cid, req |-> o.req, opened |-> TRUE]
    <2>1. o.cid \in 1..next_connection_id /\ o.req \in Requests
      BY DEF TypeInv, OpeningTypes
    <2>2. new \in [cid : 1..next_connection_id, req : Requests, opened : BOOLEAN]
      BY <2>1, Zenon
    <2>3. opening' \subseteq [cid : 1..next_connection_id, req : Requests,
                             opened : BOOLEAN]
      BY <2>2, Zenon DEF OpenNegotiated, TypeInv, OpeningTypes
    <2>4. UNCHANGED next_connection_id
      BY DEF OpenNegotiated
    <2> QED
      BY <2>3, <2>4, Zenon DEF OpeningTypes
  <1>3. EventTypes' /\ CmdTypes' /\ TableTypes' /\ DialTypes'
        /\ BookTypes' /\ TaskTypes' /\ StreamTypes' /\ ReplyTypes'
    BY SMT DEF TypeInv, EventTypes, CmdTypes, TableTypes, DialTypes, BookTypes,
               TaskTypes, StreamTypes, ReplyTypes, Replies, Substreams,
               OpenNegotiated
  <1> QED
    BY <1>1, <1>2, <1>3 DEF TypeInv

LEMMA Typed_OpenSucceeds ==
    ASSUME TypeInv, NEW o \in opening, OpenSucceeds(o)
    PROVE  TypeInv'
  <1>1. FlagTypes'
    BY Zenon DEF TypeInv, FlagTypes, OpenSucceeds
  <1>2. EventTypes'
    <2> DEFINE sid == Cardinality(DOMAIN streams) + 1
    <2>1. sid \in Sids
      BY FS_CardinalityType DEF TypeInv, StreamTypes, Sids
    <2> HIDE DEF sid
    <2>2. [type |-> "StreamOpened", cid |-> o.cid, sid |-> sid,
    dir |-> "Outbound"] \in SwarmEvent
      BY <2>1 DEF SwarmEvent, Direction, TypeInv, OpeningTypes, TableTypes, Cids
    <2> QED
      BY <2>2, OneEvent, EmitTypes DEF OpenSucceeds, TypeInv, sid
  <1>3. StreamTypes'
    <2> DEFINE sid == Cardinality(DOMAIN streams) + 1
               new == [cid |-> o.cid,
               state |-> IF reply[o.req] = "waiting" THEN "held" ELSE "dropping"]
    <2>1. /\ new \in Substreams
          /\ streams' = Insert(streams, sid, new) /\ UNCHANGED next_connection_id
      BY DEF OpenSucceeds, TypeInv, OpeningTypes, Substreams, StreamStates
    <2> QED
      BY <2>1, NewStream DEF TypeInv
  <1>4. ReplyTypes'
    <2>1. o.req \in Requests
      BY DEF TypeInv, OpeningTypes
    <2> QED
      BY <2>1, AnswerTypes DEF OpenSucceeds, TypeInv, Replies
  <1>5. CmdTypes' /\ TableTypes' /\ DialTypes' /\ BookTypes'
        /\ TaskTypes' /\ OpeningTypes'
    BY SMT DEF TypeInv, CmdTypes, TableTypes, DialTypes, BookTypes, TaskTypes,
               OpeningTypes,
               OpenSucceeds, Emit, Answer, Insert
  <1> QED
    BY <1>1, <1>2, <1>3, <1>4, <1>5 DEF TypeInv

LEMMA Typed_OpenFails ==
    ASSUME TypeInv, NEW o \in opening, OpenFails(o)
    PROVE  TypeInv'
  <1>1. FlagTypes'
    BY Zenon DEF TypeInv, FlagTypes, OpenFails
  <1>2. EventTypes'
    <2>1. [type |-> "StreamError", cid |-> o.cid, dir |-> "Outbound"] \in SwarmEvent
      BY DEF SwarmEvent, TypeInv, OpeningTypes, TableTypes, Direction, Cids
    <2> QED
      BY <2>1, OneEvent, EmitTypes DEF OpenFails, TypeInv
  <1>3. ReplyTypes'
    <2>1. o.req \in Requests
      BY DEF TypeInv, OpeningTypes
    <2> QED
      BY <2>1, AnswerTypes DEF OpenFails, TypeInv, Replies
  <1>4. CmdTypes' /\ TableTypes' /\ DialTypes' /\ BookTypes'
        /\ TaskTypes' /\ OpeningTypes' /\ StreamTypes'
    BY SMT DEF TypeInv, CmdTypes, TableTypes, DialTypes, BookTypes, TaskTypes,
               OpeningTypes, StreamTypes, Substreams,
               OpenFails, Emit, Answer
  <1> QED
    BY <1>1, <1>2, <1>3, <1>4 DEF TypeInv

LEMMA Typed_AcceptStream ==
    ASSUME TypeInv, NEW c \in DOMAIN acceptor, AcceptStream(c)
    PROVE  TypeInv'
  <1>1. FlagTypes'
    BY Zenon DEF TypeInv, FlagTypes, AcceptStream
  <1>2. EventTypes'
    <2> DEFINE sid == Cardinality(DOMAIN streams) + 1
    <2>1. sid \in Sids
      BY FS_CardinalityType DEF TypeInv, StreamTypes, Sids
    <2> HIDE DEF sid
    <2>2. [type |-> "StreamOpened", cid |-> c, sid |-> sid,
    dir |-> "Inbound"] \in SwarmEvent
      BY <2>1 DEF SwarmEvent, Direction, TypeInv, TaskTypes, TableTypes, Cids
    <2> QED
      BY <2>2, OneEvent, EmitTypes DEF AcceptStream, TypeInv, sid
  <1>3. StreamTypes'
    <2> DEFINE sid == Cardinality(DOMAIN streams) + 1
               new == [cid |-> c, state |-> "held"]
    <2>1. /\ new \in Substreams
          /\ streams' = Insert(streams, sid, new) /\ UNCHANGED next_connection_id
      BY DEF AcceptStream, TypeInv, TaskTypes, Substreams, StreamStates
    <2> QED
      BY <2>1, NewStream DEF TypeInv
  <1>4. CmdTypes' /\ TableTypes' /\ DialTypes' /\ BookTypes'
        /\ TaskTypes' /\ OpeningTypes' /\ ReplyTypes'
    BY SMT DEF TypeInv, CmdTypes, TableTypes, DialTypes, BookTypes, TaskTypes,
               OpeningTypes, ReplyTypes, Replies,
               AcceptStream, Emit, Insert
  <1> QED
    BY <1>1, <1>2, <1>3, <1>4 DEF TypeInv

LEMMA Typed_SelectInboundFails ==
    ASSUME TypeInv, NEW c \in DOMAIN acceptor, SelectInboundFails(c)
    PROVE  TypeInv'
  <1>1. FlagTypes'
    BY Zenon DEF TypeInv, FlagTypes, SelectInboundFails
  <1>2. EventTypes'
    <2>1. [type |-> "StreamError", cid |-> c, dir |-> acceptor[c].dir] \in SwarmEvent
      BY DEF SwarmEvent, TypeInv, TaskTypes, TableTypes, Direction, Cids
    <2> QED
      BY <2>1, OneEvent, EmitTypes DEF SelectInboundFails, TypeInv
  <1>3. CmdTypes' /\ TableTypes' /\ DialTypes' /\ BookTypes'
        /\ TaskTypes' /\ OpeningTypes' /\ StreamTypes' /\ ReplyTypes'
    BY SMT DEF TypeInv, CmdTypes, TableTypes, DialTypes, BookTypes, TaskTypes,
               OpeningTypes, StreamTypes, ReplyTypes, Replies, Substreams,
               SelectInboundFails, Emit
  <1> QED
    BY <1>1, <1>2, <1>3 DEF TypeInv

LEMMA Typed_AcceptorExits ==
    ASSUME TypeInv, NEW c \in DOMAIN acceptor, AcceptorExits(c)
    PROVE  TypeInv'
  <1>1. FlagTypes'
    BY Zenon DEF TypeInv, FlagTypes, AcceptorExits
  <1>2. EventTypes'
    <2>1. [type |-> "ConnectionClosed", cid |-> c] \in SwarmEvent
      BY DEF SwarmEvent, TypeInv, TaskTypes, TableTypes, Cids
    <2> QED
      BY <2>1, OneEvent, EmitTypes DEF AcceptorExits, TypeInv
  <1>3. TaskTypes'
    <2>1. c \in 1..next_connection_id
      BY DEF TypeInv, TaskTypes
    <2> DEFINE ended == [dir |-> acceptor[c].dir, running |-> FALSE]
    <2>2. acceptor[c].dir \in Direction
      BY <2>1 DEF TypeInv, TaskTypes
    <2>3. ended \in [dir : Direction, running : BOOLEAN]
      BY <2>2, Zenon
    <2>4. acceptor' = [acceptor EXCEPT ![c] = ended]
      BY DEF AcceptorExits
    <2> HIDE DEF ended
    <2>5. acceptor' \in [1..next_connection_id -> [dir : Direction, running : BOOLEAN]]
      BY <2>1, <2>3, <2>4 DEF TypeInv, TaskTypes
    <2> QED
      BY <2>5 DEF AcceptorExits, TypeInv, TaskTypes
  <1>4. CmdTypes' /\ TableTypes' /\ DialTypes' /\ BookTypes'
        /\ OpeningTypes' /\ StreamTypes' /\ ReplyTypes'
    BY SMT DEF TypeInv, CmdTypes, TableTypes, DialTypes, BookTypes, OpeningTypes,
               StreamTypes, ReplyTypes, Replies, Substreams,
               AcceptorExits, Emit
  <1> QED
    BY <1>1, <1>2, <1>3, <1>4 DEF TypeInv

LEMMA Typed_IdentifyNegotiated ==
    ASSUME TypeInv, NEW c \in DOMAIN identify, IdentifyNegotiated(c)
    PROVE  TypeInv'
  <1>1. FlagTypes'
    BY Zenon DEF TypeInv, FlagTypes, IdentifyNegotiated
  <1>2. EventTypes' /\ CmdTypes' /\ TableTypes' /\ DialTypes'
        /\ BookTypes' /\ TaskTypes' /\ OpeningTypes' /\ StreamTypes' /\ ReplyTypes'
    BY SMT DEF TypeInv, EventTypes, CmdTypes, TableTypes, DialTypes, BookTypes,
               TaskTypes, OpeningTypes, StreamTypes, ReplyTypes, Replies, Substreams,
               IdentifyNegotiated
  <1> QED
    BY <1>1, <1>2 DEF TypeInv

LEMMA Typed_IdentifyOpens ==
    ASSUME TypeInv, NEW c \in DOMAIN identify, IdentifyOpens(c)
    PROVE  TypeInv'
  <1>1. FlagTypes'
    BY Zenon DEF TypeInv, FlagTypes, IdentifyOpens
  <1>2. EventTypes'
    <2> DEFINE sid == Cardinality(DOMAIN streams) + 1
    <2>1. sid \in Sids
      BY FS_CardinalityType DEF TypeInv, StreamTypes, Sids
    <2> HIDE DEF sid
    <2>2. [type |-> "StreamOpened", cid |-> c, sid |-> sid,
    dir |-> "Outbound"] \in SwarmEvent
      BY <2>1 DEF SwarmEvent, Direction, TypeInv, TaskTypes, TableTypes, Cids
    <2> QED
      BY <2>2, OneEvent, EmitTypes DEF IdentifyOpens, TypeInv, sid
  <1>3. StreamTypes'
    <2> DEFINE sid == Cardinality(DOMAIN streams) + 1
               new == [cid |-> c, state |-> "identify"]
    <2>1. /\ new \in Substreams
          /\ streams' = Insert(streams, sid, new) /\ UNCHANGED next_connection_id
      BY DEF IdentifyOpens, TypeInv, TaskTypes, Substreams, StreamStates
    <2> QED
      BY <2>1, NewStream DEF TypeInv
  <1>4. CmdTypes' /\ TableTypes' /\ DialTypes' /\ BookTypes'
        /\ TaskTypes' /\ OpeningTypes' /\ ReplyTypes'
    BY SMT DEF TypeInv, CmdTypes, TableTypes, DialTypes, BookTypes, TaskTypes,
               OpeningTypes, ReplyTypes, Replies,
               IdentifyOpens, Emit, Insert
  <1> QED
    BY <1>1, <1>2, <1>3, <1>4 DEF TypeInv

LEMMA Typed_IdentifyOpenFails ==
    ASSUME TypeInv, NEW c \in DOMAIN identify, IdentifyOpenFails(c)
    PROVE  TypeInv'
  <1>1. FlagTypes'
    BY Zenon DEF TypeInv, FlagTypes, IdentifyOpenFails
  <1>2. EventTypes'
    <2> DEFINE failed == [type |-> "StreamError", cid |-> c, dir |-> "Outbound"]
               result == [type |-> "IdentifyResult", cid |-> c, ok |-> FALSE]
    <2>1. failed \in SwarmEvent
      BY DEF SwarmEvent, TypeInv, TaskTypes, TableTypes, Direction, Cids
    <2>2. c \in Cids
      BY DEF TypeInv, TaskTypes, TableTypes, Cids
    <2>3. result \in SwarmEvent
      BY <2>2, Zenon DEF SwarmEvent
    <2>4. <<failed, result>> \in Seq(SwarmEvent)
      BY <2>1, <2>3
    <2> QED
      BY <2>4, EmitTypes DEF IdentifyOpenFails, TypeInv
  <1>3. CmdTypes' /\ TableTypes' /\ DialTypes' /\ BookTypes'
        /\ TaskTypes' /\ OpeningTypes' /\ StreamTypes' /\ ReplyTypes'
    BY SMT DEF TypeInv, CmdTypes, TableTypes, DialTypes, BookTypes, TaskTypes,
               OpeningTypes, StreamTypes, ReplyTypes, Replies, Substreams,
               IdentifyOpenFails, Emit, Remove
  <1> QED
    BY <1>1, <1>2, <1>3 DEF TypeInv

LEMMA Typed_IdentifyReads ==
    ASSUME TypeInv, NEW c \in DOMAIN identify, NEW ok \in BOOLEAN, IdentifyReads(c, ok)
    PROVE  TypeInv'
  <1>1. FlagTypes'
    BY Zenon DEF TypeInv, FlagTypes, IdentifyReads
  <1>2. EventTypes'
    <2>1. c \in Cids
      BY DEF TypeInv, TaskTypes, TableTypes, Cids
    <2>2. [type |-> "IdentifyResult", cid |-> c, ok |-> ok] \in SwarmEvent
      BY <2>1, Zenon DEF SwarmEvent
    <2> QED
      BY <2>2, OneEvent, EmitTypes DEF IdentifyReads, TypeInv
  <1>3. StreamTypes'
    BY ReleaseTypes DEF IdentifyReads, TypeInv
  <1>4. CmdTypes' /\ TableTypes' /\ DialTypes' /\ BookTypes'
        /\ TaskTypes' /\ OpeningTypes' /\ ReplyTypes'
    BY SMT DEF TypeInv, CmdTypes, TableTypes, DialTypes, BookTypes, TaskTypes,
               OpeningTypes, ReplyTypes, Replies,
               IdentifyReads, Emit, Remove
  <1> QED
    BY <1>1, <1>2, <1>3, <1>4 DEF TypeInv

LEMMA Typed_StopIdentify ==
    ASSUME TypeInv, NEW c \in DOMAIN identify, StopIdentify(c)
    PROVE  TypeInv'
  <1>1. FlagTypes'
    BY Zenon DEF TypeInv, FlagTypes, StopIdentify
  <1>2. StreamTypes'
    BY ReleaseTypes DEF StopIdentify, TypeInv
  <1>3. EventTypes' /\ CmdTypes' /\ TableTypes' /\ DialTypes'
        /\ BookTypes' /\ TaskTypes' /\ OpeningTypes' /\ ReplyTypes'
    BY SMT DEF TypeInv, EventTypes, CmdTypes, TableTypes, DialTypes, BookTypes,
               TaskTypes, OpeningTypes, ReplyTypes, Replies,
               StopIdentify, Remove
  <1> QED
    BY <1>1, <1>2, <1>3 DEF TypeInv

LEMMA Typed_Muxer ==
    ASSUME TypeInv, NEW c \in DOMAIN muxer, RemoteCloses(c) \/ CloseMuxer(c)
    PROVE  TypeInv'
  <1>1. FlagTypes'
    BY Zenon DEF TypeInv, FlagTypes, RemoteCloses, CloseMuxer
  <1>2. EventTypes' /\ CmdTypes' /\ TableTypes' /\ DialTypes'
        /\ BookTypes' /\ TaskTypes' /\ OpeningTypes' /\ StreamTypes' /\ ReplyTypes'
    BY SMT DEF TypeInv, EventTypes, CmdTypes, TableTypes, DialTypes, BookTypes,
               TaskTypes, OpeningTypes, StreamTypes, ReplyTypes, Replies, Substreams,
               RemoteCloses, CloseMuxer
  <1> QED
    BY <1>1, <1>2 DEF TypeInv

LEMMA Typed_ForgetAddrs ==
    ASSUME TypeInv, NEW p \in Peers, ForgetAddrs(p)
    PROVE  TypeInv'
  <1>1. FlagTypes'
    BY Zenon DEF TypeInv, FlagTypes, ForgetAddrs
  <1>2. EventTypes' /\ CmdTypes' /\ TableTypes' /\ DialTypes'
        /\ BookTypes' /\ TaskTypes' /\ OpeningTypes' /\ StreamTypes' /\ ReplyTypes'
    BY SMT DEF TypeInv, EventTypes, CmdTypes, TableTypes, DialTypes, BookTypes,
               TaskTypes, OpeningTypes, StreamTypes, ReplyTypes, Replies, Substreams,
               ForgetAddrs
  <1> QED
    BY <1>1, <1>2 DEF TypeInv

(* The main loop. *)

LEMMA Typed_Pending ==
    ASSUME TypeInv, EventsPending \/ CommandsPending \/ MainLoopQuits
    PROVE  TypeInv'
  <1>1. FlagTypes'
    BY Zenon DEF TypeInv, FlagTypes, EventsPending, CommandsPending, MainLoopQuits
  <1>2. EventTypes' /\ CmdTypes' /\ TableTypes' /\ DialTypes'
        /\ BookTypes' /\ TaskTypes' /\ OpeningTypes' /\ StreamTypes' /\ ReplyTypes'
    BY SMT DEF TypeInv, EventTypes, CmdTypes, TableTypes, DialTypes, BookTypes,
               TaskTypes, OpeningTypes, StreamTypes, ReplyTypes, Replies, Substreams,
               EventsPending, CommandsPending, MainLoopQuits
  <1> QED
    BY <1>1, <1>2 DEF TypeInv

LEMMA Typed_handle_connection_opened ==
    ASSUME TypeInv, handle_connection_opened
    PROVE  TypeInv'
  <1>1. FlagTypes'
    BY Zenon DEF TypeInv, FlagTypes, handle_connection_opened, TakeEvent, TakeCallback
  <1>2. TableTypes'
    <2>1. Event.peer \in Peers /\ Event.dir \in Direction
      BY TakenEstablished DEF handle_connection_opened, TypeInv
    <2>2. next_connection_id + 1 \in Cids
      BY DEF TypeInv, TableTypes, Cids
    <2>3. [peer |-> Event.peer, dir |-> Event.dir, closing |-> FALSE, substreams |-> {}]
             \in Connection
      BY <2>1, Zenon DEF Connection
    <2>4. add_connection(next_connection_id + 1, Event.peer, Event.dir)
             /\ next_connection_id' = next_connection_id + 1
      BY DEF handle_connection_opened
    <2>5. /\ connections_by_id' \in [DOMAIN connections_by_id' -> Connection]
          /\ DOMAIN connections_by_id' \subseteq 1..next_connection_id'
      BY <2>3, <2>4 DEF TypeInv, TableTypes, add_connection, Insert
    <2>6. /\ connections_by_peer' \in [DOMAIN connections_by_peer' -> SUBSET Cids]
          /\ DOMAIN connections_by_peer' \subseteq Peers
      BY <2>1, <2>2, <2>4 DEF TypeInv, TableTypes, add_connection, Insert
    <2> QED
      BY <2>4, <2>5, <2>6 DEF TypeInv, TableTypes
  <1>3. BookTypes'
    <2>1. \E f \in SwarmBaseStats : Bump(f)
      BY DEF handle_connection_opened, SwarmBaseStats
    <2> QED
      BY <2>1, BumpTypes DEF handle_connection_opened, TakeEvent, TypeInv, BookTypes
  <1>4. TaskTypes'
    <2> DEFINE cid == next_connection_id + 1
    <2>1. 1..cid = 1..next_connection_id \cup {cid} /\ next_connection_id \in Nat
      BY DEF TypeInv, TableTypes
    <2>2. [dir |-> Event.dir, running |-> TRUE] \in [dir : Direction, running : BOOLEAN]
      BY TakenEstablished DEF handle_connection_opened, TypeInv
    <2>3. muxer' \in [1..cid -> {"open", "closed"}]
      BY <2>1 DEF handle_connection_opened, TypeInv, TaskTypes, Insert
    <2>4. acceptor' \in [1..cid -> [dir : Direction, running : BOOLEAN]]
      BY <2>1, <2>2 DEF handle_connection_opened, TypeInv, TaskTypes, Insert
    <2>5. /\ identify' \in [DOMAIN identify' -> {"opening", "opened", "reading"}]
          /\ DOMAIN identify' \subseteq 1..cid
      BY <2>1 DEF handle_connection_opened, TypeInv, TaskTypes, Insert
    <2>6. next_connection_id' = cid /\ closers' \subseteq 1..cid
      BY <2>1 DEF handle_connection_opened, TypeInv, TaskTypes
    <2> QED
      BY <2>3, <2>4, <2>5, <2>6 DEF TaskTypes
  <1>5. OpeningTypes'
    <2> DEFINE cid == next_connection_id + 1
               Opening(n) == [cid : 1..n, req : Requests, opened : BOOLEAN]
    <2>1. 1..next_connection_id \subseteq 1..cid /\ cid \in 1..cid
             /\ next_connection_id' = cid
      BY DEF handle_connection_opened, TypeInv, TableTypes
    <2>2. opening \subseteq Opening(next_connection_id)
      BY DEF TypeInv, OpeningTypes
    <2>3. opening \subseteq Opening(cid)
      BY <2>1, <2>2
    <2>4. CASE UNCHANGED opening
      BY <2>1, <2>3, <2>4 DEF OpeningTypes
    <2>5. CASE opening' # opening
      <3>1. /\ Event.tid \in DOMAIN dial_transactions
            /\ opening' = opening \cup {[cid |-> cid, opened |-> FALSE,
                                          req |-> dial_transactions[Event.tid].req]}
        BY <2>5 DEF handle_connection_opened, CallbackOk, TakeCallback
      <3>2. dial_transactions[Event.tid].req \in Requests
        BY <3>1 DEF TypeInv, DialTypes, Callbacks
      <3>3. [cid |-> cid, opened |-> FALSE, req |-> dial_transactions[Event.tid].req]
               \in Opening(cid)
        BY <2>1, <3>2
      <3>4. opening' \subseteq Opening(cid)
        BY <2>3, <3>1, <3>3
      <3> QED
        BY <2>1, <3>4 DEF OpeningTypes
    <2> QED
      BY <2>4, <2>5
  <1>6. ReplyTypes'
    <2>1. CASE UNCHANGED reply
      BY <2>1 DEF TypeInv, ReplyTypes
    <2>2. CASE reply' # reply
      <3>1. /\ Event.tid \in DOMAIN dial_transactions
            /\ Answer(dial_transactions[Event.tid].req, "ok")
        BY <2>2 DEF handle_connection_opened, CallbackOk, TakeCallback
      <3>2. dial_transactions[Event.tid].req \in Requests
        BY <3>1 DEF TypeInv, DialTypes, Callbacks
      <3> QED
        BY <3>1, <3>2, AnswerTypes DEF TypeInv, Replies
    <2> QED
      BY <2>1, <2>2
  <1>7. StreamTypes'
    BY DEF handle_connection_opened, TypeInv, StreamTypes, Substreams, TableTypes
  <1>8. EventTypes' /\ CmdTypes' /\ DialTypes'
    BY SMT DEF TypeInv, EventTypes, CmdTypes, DialTypes,
               handle_connection_opened, Bump, TakeEvent, Event, TakeCallback, Remove,
               Insert, NoTid
  <1> QED
    BY <1>1, <1>2, <1>3, <1>4, <1>5, <1>6, <1>7, <1>8 DEF TypeInv

LEMMA Typed_handle_outgoing_connection_error ==
    ASSUME TypeInv, handle_outgoing_connection_error
    PROVE  TypeInv'
  <1>1. FlagTypes'
    BY Zenon DEF TypeInv, FlagTypes, handle_outgoing_connection_error, TakeEvent,
                 TakeCallback
  <1>2. BookTypes'
    <2>1. \E f \in SwarmBaseStats : Bump(f)
      BY DEF handle_outgoing_connection_error, SwarmBaseStats
    <2> QED
      BY <2>1, BumpTypes DEF handle_outgoing_connection_error, TakeEvent, TypeInv,
                             BookTypes
  <1>3. ReplyTypes'
    <2>1. dial_transactions[Event.tid].req \in Requests
      BY DEF handle_outgoing_connection_error, TakeCallback, TypeInv, DialTypes, Callbacks
    <2> QED
      BY <2>1, AnswerTypes DEF handle_outgoing_connection_error, TypeInv, Replies
  <1>4. EventTypes' /\ CmdTypes' /\ TableTypes' /\ DialTypes'
        /\ TaskTypes' /\ OpeningTypes' /\ StreamTypes'
    BY SMT DEF TypeInv, EventTypes, CmdTypes, TableTypes, DialTypes, TaskTypes,
               OpeningTypes, StreamTypes, Substreams,
               handle_outgoing_connection_error, Answer, Bump, TakeEvent, Event,
               TakeCallback, Remove
  <1> QED
    BY <1>1, <1>2, <1>3, <1>4 DEF TypeInv

LEMMA Typed_handle_incoming_connection_error ==
    ASSUME TypeInv, handle_incoming_connection_error
    PROVE  TypeInv'
  <1>1. FlagTypes'
    BY Zenon DEF TypeInv, FlagTypes, handle_incoming_connection_error, TakeEvent
  <1>2. BookTypes'
    <2>1. \E f \in SwarmBaseStats : Bump(f)
      BY DEF handle_incoming_connection_error, SwarmBaseStats
    <2> QED
      BY <2>1, BumpTypes DEF handle_incoming_connection_error, TakeEvent, TypeInv,
                             BookTypes
  <1>3. EventTypes' /\ CmdTypes' /\ TableTypes' /\ DialTypes'
        /\ TaskTypes' /\ OpeningTypes' /\ StreamTypes' /\ ReplyTypes'
    BY SMT DEF TypeInv, EventTypes, CmdTypes, TableTypes, DialTypes, TaskTypes,
               OpeningTypes, StreamTypes, ReplyTypes, Replies, Substreams,
               handle_incoming_connection_error, Bump, TakeEvent, Event
  <1> QED
    BY <1>1, <1>2, <1>3 DEF TypeInv

LEMMA Typed_handle_connection_closed ==
    ASSUME TypeInv, handle_connection_closed
    PROVE  TypeInv'
  <1>1. FlagTypes'
    BY Zenon DEF TypeInv, FlagTypes, handle_connection_closed, TakeEvent
  <1>2. TableTypes'
    <2>1. /\ connections_by_id' \in [DOMAIN connections_by_id' -> Connection]
          /\ DOMAIN connections_by_id' \subseteq DOMAIN connections_by_id
      BY DEF handle_connection_closed, TypeInv, TableTypes, Remove
    <2>2. CASE UNCHANGED connections_by_peer
      BY <2>1, <2>2 DEF handle_connection_closed, TypeInv, TableTypes
    <2>3. ASSUME NEW p, del_from_peer(Event.cid, p)
          PROVE  /\ connections_by_peer' \in [DOMAIN connections_by_peer' -> SUBSET Cids]
                 /\ DOMAIN connections_by_peer' \subseteq Peers
      BY <2>3 DEF del_from_peer, Insert, Remove, TypeInv, TableTypes
    <2> QED
      BY <2>1, <2>2, <2>3 DEF handle_connection_closed, TypeInv, TableTypes
  <1>3. BookTypes'
    <2>1. \E f \in SwarmBaseStats : Bump(f)
      BY DEF handle_connection_closed, SwarmBaseStats
    <2> QED
      BY <2>1, BumpTypes DEF handle_connection_closed, TakeEvent, TypeInv, BookTypes
  <1>4. EventTypes' /\ CmdTypes' /\ DialTypes' /\ TaskTypes'
        /\ OpeningTypes' /\ StreamTypes' /\ ReplyTypes'
    BY SMT DEF TypeInv, EventTypes, CmdTypes, DialTypes, TaskTypes, OpeningTypes,
               StreamTypes, ReplyTypes, Replies, Substreams,
               handle_connection_closed, Bump, TakeEvent, Event, Remove
  <1> QED
    BY <1>1, <1>2, <1>3, <1>4 DEF TypeInv

LEMMA Typed_handle_stream_opened ==
    ASSUME TypeInv, handle_stream_opened
    PROVE  TypeInv'
  <1>1. FlagTypes'
    BY Zenon DEF TypeInv, FlagTypes, handle_stream_opened, TakeEvent
  <1>2. TableTypes'
    <2>1. Event.sid \in Sids
      BY TakenOpened DEF handle_stream_opened, TypeInv
    <2> QED
      BY <2>1, StreamAdded DEF handle_stream_opened, TypeInv
  <1>3. BookTypes'
    <2>1. \E f \in SwarmBaseStats : Bump(f)
      BY DEF handle_stream_opened, SwarmBaseStats
    <2> QED
      BY <2>1, BumpTypes DEF handle_stream_opened, TakeEvent, TypeInv, BookTypes
  <1>4. EventTypes' /\ CmdTypes' /\ DialTypes' /\ TaskTypes'
        /\ OpeningTypes' /\ StreamTypes' /\ ReplyTypes'
    BY SMT DEF TypeInv, EventTypes, CmdTypes, DialTypes, TaskTypes, OpeningTypes,
               StreamTypes, ReplyTypes, Replies, Substreams,
               handle_stream_opened, Bump, TakeEvent, Event
  <1> QED
    BY <1>1, <1>2, <1>3, <1>4 DEF TypeInv

LEMMA Typed_handle_stream_error ==
    ASSUME TypeInv, handle_stream_error
    PROVE  TypeInv'
  <1>1. FlagTypes'
    BY Zenon DEF TypeInv, FlagTypes, handle_stream_error, TakeEvent
  <1>2. BookTypes'
    <2>1. \E f \in SwarmBaseStats : Bump(f)
      BY DEF handle_stream_error, SwarmBaseStats
    <2> QED
      BY <2>1, BumpTypes DEF handle_stream_error, TakeEvent, TypeInv, BookTypes
  <1>3. EventTypes' /\ CmdTypes' /\ TableTypes' /\ DialTypes'
        /\ TaskTypes' /\ OpeningTypes' /\ StreamTypes' /\ ReplyTypes'
    BY SMT DEF TypeInv, EventTypes, CmdTypes, TableTypes, DialTypes, TaskTypes,
               OpeningTypes, StreamTypes, ReplyTypes, Replies, Substreams,
               handle_stream_error, Bump, TakeEvent, Event
  <1> QED
    BY <1>1, <1>2, <1>3 DEF TypeInv

LEMMA Typed_handle_identify_result ==
    ASSUME TypeInv, handle_identify_result
    PROVE  TypeInv'
  <1>1. FlagTypes'
    BY Zenon DEF TypeInv, FlagTypes, handle_identify_result, TakeEvent
  <1>2. BookTypes'
    <2>1. \A c \in DOMAIN connections_by_id : connections_by_id[c].peer \in Peers
      BY DEF TypeInv, TableTypes, Connection
    <2> QED
      BY <2>1 DEF handle_identify_result, TakeEvent, TypeInv, BookTypes
  <1>3. EventTypes' /\ CmdTypes' /\ TableTypes' /\ DialTypes'
        /\ TaskTypes' /\ OpeningTypes' /\ StreamTypes' /\ ReplyTypes'
    BY SMT DEF TypeInv, EventTypes, CmdTypes, TableTypes, DialTypes, TaskTypes,
               OpeningTypes, StreamTypes, ReplyTypes, Replies, Substreams,
               handle_identify_result, TakeEvent, Event
  <1> QED
    BY <1>1, <1>2, <1>3 DEF TypeInv

LEMMA Typed_on_connect ==
    ASSUME TypeInv, on_connect
    PROVE  TypeInv'
  <1>1. FlagTypes'
    BY Zenon DEF TypeInv, FlagTypes, on_connect, TakeCmd
  <1>2. DialTypes'
    <2>1. Cmd.req \in Requests /\ Cmd.peer \in Peers \cup {Self}
      BY TakenRequest DEF on_connect, TypeInv, Kinds
    <2>2. CASE UNCHANGED dialVars
      BY <2>2 DEF TypeInv, DialTypes
    <2>3. CASE Cmd.peer # Self /\ \E kind \in {"connect", "stream"} :
                  Dial(Cmd.peer, kind, Cmd.req)
      BY <2>1, <2>3, DialTyped DEF TypeInv
    <2> QED
      BY <2>2, <2>3 DEF on_connect, dial_peer, dial_addr
  <1>3. BookTypes'
    <2>1. Cmd.peer \in Peers \cup {Self}
      BY TakenRequest DEF on_connect, TypeInv, Kinds
    <2> QED
      BY <2>1 DEF on_connect, dial_peer, dial_addr, TakeCmd, TypeInv, BookTypes
  <1>4. ReplyTypes'
    <2>1. Cmd.req \in Requests
      BY TakenRequest DEF on_connect, TypeInv, Kinds
    <2>2. UNCHANGED reply \/ Answer(Cmd.req, "ok") \/ Answer(Cmd.req, "err")
      BY DEF on_connect, dial_peer, dial_addr
    <2> QED
      BY <2>1, <2>2, AnswerTypes DEF TypeInv, Replies, ReplyTypes
  <1>5. EventTypes' /\ CmdTypes' /\ TableTypes' /\ TaskTypes'
        /\ OpeningTypes' /\ StreamTypes'
    BY SMT DEF TypeInv, EventTypes, CmdTypes, TableTypes, TaskTypes, OpeningTypes,
               StreamTypes, Substreams,
               on_connect, Answer, TakeCmd, Cmd
  <1> QED
    BY <1>1, <1>2, <1>3, <1>4, <1>5 DEF TypeInv

LEMMA Typed_on_new_connection ==
    ASSUME TypeInv, on_new_connection
    PROVE  TypeInv'
  <1>1. FlagTypes'
    BY Zenon DEF TypeInv, FlagTypes, on_new_connection, TakeCmd
  <1>2. DialTypes'
    <2>1. Cmd.req \in Requests /\ Cmd.peer \in Peers \cup {Self}
      BY TakenRequest DEF on_new_connection, TypeInv, Kinds
    <2>2. CASE UNCHANGED dialVars
      BY <2>2 DEF TypeInv, DialTypes
    <2>3. CASE Cmd.peer # Self /\ \E kind \in {"connect", "stream"} :
                  Dial(Cmd.peer, kind, Cmd.req)
      BY <2>1, <2>3, DialTyped DEF TypeInv
    <2> QED
      BY <2>2, <2>3 DEF on_new_connection, dial_peer, dial_addr
  <1>3. BookTypes'
    <2>1. Cmd.peer \in Peers \cup {Self}
      BY TakenRequest DEF on_new_connection, TypeInv, Kinds
    <2> QED
      BY <2>1 DEF on_new_connection, dial_peer, dial_addr, TakeCmd, TypeInv, BookTypes
  <1>4. ReplyTypes'
    <2>1. Cmd.req \in Requests
      BY TakenRequest DEF on_new_connection, TypeInv, Kinds
    <2>2. UNCHANGED reply \/ Answer(Cmd.req, "ok") \/ Answer(Cmd.req, "err")
      BY DEF on_new_connection, dial_peer, dial_addr
    <2> QED
      BY <2>1, <2>2, AnswerTypes DEF TypeInv, Replies, ReplyTypes
  <1>5. EventTypes' /\ CmdTypes' /\ TableTypes' /\ TaskTypes'
        /\ OpeningTypes' /\ StreamTypes'
    BY SMT DEF TypeInv, EventTypes, CmdTypes, TableTypes, TaskTypes, OpeningTypes,
               StreamTypes, Substreams,
               on_new_connection, Answer, TakeCmd, Cmd
  <1> QED
    BY <1>1, <1>2, <1>3, <1>4, <1>5 DEF TypeInv

LEMMA Typed_on_new_stream ==
    ASSUME TypeInv, on_new_stream
    PROVE  TypeInv'
  <1>1. FlagTypes'
    BY Zenon DEF TypeInv, FlagTypes, on_new_stream, TakeCmd
  <1>2. DialTypes'
    <2>1. Cmd.req \in Requests /\ Cmd.peer \in Peers \cup {Self}
      BY TakenRequest DEF on_new_stream, TypeInv, Kinds
    <2>2. CASE UNCHANGED dialVars
      BY <2>2 DEF TypeInv, DialTypes
    <2>3. CASE Cmd.peer # Self /\ \E kind \in {"connect", "stream"} :
                  Dial(Cmd.peer, kind, Cmd.req)
      BY <2>1, <2>3, DialTyped DEF TypeInv
    <2> QED
      BY <2>2, <2>3 DEF on_new_stream, dial_peer, dial_addr
  <1>3. BookTypes'
    <2>1. Cmd.peer \in Peers \cup {Self}
      BY TakenRequest DEF on_new_stream, TypeInv, Kinds
    <2> QED
      BY <2>1 DEF on_new_stream, dial_peer, dial_addr, TakeCmd, TypeInv, BookTypes
  <1>4. ReplyTypes'
    <2>1. Cmd.req \in Requests
      BY TakenRequest DEF on_new_stream, TypeInv, Kinds
    <2>2. UNCHANGED reply \/ Answer(Cmd.req, "ok") \/ Answer(Cmd.req, "err")
      BY DEF on_new_stream, dial_peer, dial_addr
    <2> QED
      BY <2>1, <2>2, AnswerTypes DEF TypeInv, Replies, ReplyTypes
  <1>5. OpeningTypes'
    <2>1. Cmd.req \in Requests
      BY TakenRequest DEF on_new_stream, TypeInv, Kinds
    <2>2. CASE UNCHANGED opening
      BY <2>2 DEF on_new_stream, TypeInv, OpeningTypes
    <2>3. ASSUME NEW c \in get_best_conn(Cmd.peer),
                 opening' = opening \cup {[cid |-> c, req |-> Cmd.req, opened |-> FALSE]}
          PROVE  OpeningTypes'
      <3>1. c \in 1..next_connection_id
        BY DEF get_best_conn, Candidates, TypeInv, TableTypes
      <3>2. [cid |-> c, req |-> Cmd.req, opened |-> FALSE]
               \in [cid : 1..next_connection_id, req : Requests, opened : BOOLEAN]
        BY <2>1, <3>1
      <3>3. UNCHANGED next_connection_id
        BY DEF on_new_stream
      <3> QED
        BY <2>3, <3>2, <3>3, Zenon DEF TypeInv, OpeningTypes
    <2> QED
      BY <2>2, <2>3 DEF on_new_stream
  <1>6. EventTypes' /\ CmdTypes' /\ TableTypes' /\ TaskTypes'
        /\ StreamTypes'
    BY SMT DEF TypeInv, EventTypes, CmdTypes, TableTypes, TaskTypes, StreamTypes,
               Substreams,
               on_new_stream, TakeCmd, Cmd
  <1> QED
    BY <1>1, <1>2, <1>3, <1>4, <1>5, <1>6 DEF TypeInv

LEMMA Typed_on_close_connection ==
    ASSUME TypeInv, on_close_connection
    PROVE  TypeInv'
  <1>1. FlagTypes'
    BY Zenon DEF TypeInv, FlagTypes, on_close_connection, TakeCmd
  <1>2. TableTypes'
    <2>1. \A c \in DOMAIN connections_by_id :
             [connections_by_id[c] EXCEPT !.closing = TRUE] \in Connection
      BY DEF TypeInv, TableTypes, Connection
    <2>2. /\ DOMAIN connections_by_id' = DOMAIN connections_by_id
          /\ \A c \in DOMAIN connections_by_id :
                \/ connections_by_id'[c] = connections_by_id[c]
                \/ connections_by_id'[c] = [connections_by_id[c] EXCEPT !.closing = TRUE]
          /\ connections_by_id' = [c \in DOMAIN connections_by_id |-> connections_by_id'[c]]
      BY DEF on_close_connection
    <2>3. connections_by_id' \in [DOMAIN connections_by_id' -> Connection]
      BY <2>1, <2>2 DEF TypeInv, TableTypes
    <2> QED
      BY <2>2, <2>3 DEF on_close_connection, TypeInv, TableTypes
  <1>3. TaskTypes'
    BY DEF on_close_connection, Candidates, TypeInv, TaskTypes, TableTypes
  <1>4. ReplyTypes'
    <2>1. Cmd.req \in Requests
      BY TakenRequest DEF on_close_connection, TypeInv, Kinds
    <2>2. Answer(Cmd.req, "ok") \/ Answer(Cmd.req, "err")
      BY DEF on_close_connection
    <2> QED
      BY <2>1, <2>2, AnswerTypes DEF TypeInv, Replies
  <1>5. EventTypes' /\ CmdTypes' /\ DialTypes' /\ BookTypes'
        /\ OpeningTypes' /\ StreamTypes'
    BY SMT DEF TypeInv, EventTypes, CmdTypes, DialTypes, BookTypes, OpeningTypes,
               StreamTypes, Substreams,
               on_close_connection, Answer, TakeCmd, Cmd
  <1> QED
    BY <1>1, <1>2, <1>3, <1>4, <1>5 DEF TypeInv

LEMMA Typed_handle_stream_closed ==
    ASSUME TypeInv, handle_stream_closed
    PROVE  TypeInv'
  <1>1. FlagTypes'
    BY Zenon DEF TypeInv, FlagTypes, handle_stream_closed, TakeCmd
  <1>2. TableTypes'
    BY StreamDeleted DEF handle_stream_closed, TypeInv
  <1>3. BookTypes'
    <2>1. \E f \in SwarmBaseStats : Bump(f)
      BY DEF handle_stream_closed, SwarmBaseStats
    <2> QED
      BY <2>1, BumpTypes DEF handle_stream_closed, TakeCmd, TypeInv, BookTypes
  <1>4. StreamTypes'
    BY StreamKept DEF handle_stream_closed, TypeInv, StreamStates
  <1>5. EventTypes' /\ CmdTypes' /\ DialTypes' /\ TaskTypes'
        /\ OpeningTypes' /\ ReplyTypes'
    BY SMT DEF TypeInv, EventTypes, CmdTypes, DialTypes, TaskTypes, OpeningTypes,
               ReplyTypes, Replies,
               handle_stream_closed, Bump, TakeCmd, Cmd
  <1> QED
    BY <1>1, <1>2, <1>3, <1>4, <1>5 DEF TypeInv

LEMMA Typed_MainLoopExits ==
    ASSUME TypeInv, MainLoopExits
    PROVE  TypeInv'
  <1>1. FlagTypes'
    BY Zenon DEF TypeInv, FlagTypes, MainLoopExits
  <1>2. ReplyTypes'
    BY DEF MainLoopExits, TypeInv, ReplyTypes, Replies
  <1>3. EventTypes' /\ CmdTypes' /\ TableTypes' /\ DialTypes'
        /\ BookTypes' /\ TaskTypes' /\ OpeningTypes' /\ StreamTypes'
    BY SMT DEF TypeInv, EventTypes, CmdTypes, TableTypes, DialTypes, BookTypes,
               TaskTypes, OpeningTypes, StreamTypes, Substreams,
               MainLoopExits, Empty
  <1> QED
    BY <1>1, <1>2, <1>3 DEF TypeInv
-----------------------------------------------------------------------------
\* The types hold at the start, and every step keeps them.
LEMMA TypedInit == Init => TypeInv
  <1> SUFFICES ASSUME Init PROVE TypeInv
    OBVIOUS
  <1>1. FlagTypes
    BY Zenon DEF Init, FlagTypes
  <1>2. IsFiniteSet(DOMAIN streams)
    BY FS_EmptySet DEF Init, Empty
  <1>3. EventTypes /\ CmdTypes /\ TableTypes /\ DialTypes
    BY DEF Init, EventTypes, CmdTypes, TableTypes, DialTypes, Empty
  <1>4. BookTypes /\ TaskTypes /\ OpeningTypes /\ ReplyTypes
    BY DEF Init, BookTypes, TaskTypes, OpeningTypes, ReplyTypes, Replies, Empty
  <1>5. StreamTypes
    BY <1>2 DEF Init, StreamTypes, Empty
  <1> QED
    BY <1>1, <1>3, <1>4, <1>5 DEF TypeInv

LEMMA TypedStutter ==
    ASSUME TypeInv, UNCHANGED vars
    PROVE  TypeInv'
  <1>1. FlagTypes'
    BY Zenon DEF TypeInv, FlagTypes, vars
  <1>2. EventTypes' /\ CmdTypes' /\ TableTypes' /\ DialTypes' /\ BookTypes'
           /\ TaskTypes' /\ OpeningTypes' /\ StreamTypes' /\ ReplyTypes'
    BY DEF TypeInv, EventTypes, CmdTypes, TableTypes, DialTypes, BookTypes, TaskTypes,
           OpeningTypes, StreamTypes, Substreams, ReplyTypes, vars
  <1> QED
    BY <1>1, <1>2 DEF TypeInv

LEMMA TypedNext == TypeInv /\ [Next]_vars => TypeInv'
  <1> SUFFICES ASSUME TypeInv, [Next]_vars PROVE TypeInv'
    OBVIOUS
  <1>1. CASE Lifecycle
    BY <1>1, Typed_Lifecycle
  <1>2. CASE Clients
    BY <1>2, Zenon,
       Typed_Submit, Typed_RequestTimeout
    DEF Clients, UseRouting
  <1>3. CASE DialTasks
    BY <1>3, Zenon,
       Typed_DialSucceeds, Typed_DialFails
    DEF DialTasks
  <1>4. CASE StreamTasks
    BY <1>4, Zenon,
       Typed_OpenNegotiated, Typed_OpenSucceeds, Typed_OpenFails,
       Typed_DropSubstream, Typed_SendCloseStream
    DEF StreamTasks
  <1>5. CASE AcceptTasks
    BY <1>5, Zenon,
       Typed_AcceptStream, Typed_SelectInboundFails, Typed_AcceptorExits
    DEF AcceptTasks
  <1>6. CASE IdentifyTasks
    BY <1>6, Zenon,
       Typed_IdentifyNegotiated, Typed_IdentifyOpens, Typed_IdentifyOpenFails,
       Typed_IdentifyReads, Typed_StopIdentify
    DEF IdentifyTasks
  <1>7. CASE Environment
    BY <1>7, Zenon,
       Typed_Accepted, Typed_AcceptError, Typed_ForgetAddrs,
       Typed_Muxer
    DEF Environment
  <1>8. CASE OnEvent
    BY <1>8, Zenon,
       Typed_handle_connection_opened, Typed_handle_outgoing_connection_error,
       Typed_handle_incoming_connection_error, Typed_handle_connection_closed,
       Typed_handle_stream_opened, Typed_handle_stream_error,
       Typed_handle_identify_result
    DEF OnEvent
  <1>9. CASE OnCommand
    BY <1>9, Zenon,
       Typed_on_connect, Typed_on_new_connection, Typed_on_new_stream,
       Typed_on_close_connection, Typed_handle_stream_closed
    DEF OnCommand
  <1>10. CASE MainLoop
    BY <1>10, <1>8, <1>9, Zenon,
       Typed_Pending,
       Typed_MainLoopExits
    DEF MainLoop
  <1>11. CASE UNCHANGED vars
    BY <1>11, TypedStutter
  <1> QED
    BY <1>1, <1>2, <1>3, <1>4, <1>5, <1>6, <1>7, <1>10, <1>11, Zenon DEF Next

\* For all constants, every variable of the Swarm stays in its type.
THEOREM SwarmTypeCorrect == Spec => []TypeOK
  <1>1. TypeInv => TypeOK
    <2> SUFFICES ASSUME TypeInv PROVE TypeOK
      OBVIOUS
    <2> QED
      BY Zenon DEF TypeInv, TypeOK, FlagTypes, EventTypes, CmdTypes, TableTypes,
                   DialTypes,
                   BookTypes, TaskTypes, OpeningTypes, StreamTypes, Substreams,
                   StreamStates,
                   ReplyTypes, Replies
  <1> QED
    BY <1>1, TypedInit, TypedNext, PTL DEF Spec
-----------------------------------------------------------------------------
(* The connection tables. *)

\* Steps that leave the tables alone.
LEMMA TablesKept ==
    ASSUME TablesAgree, UNCHANGED <<connections_by_id, connections_by_peer>>
    PROVE  TablesAgree'
  BY DEF TablesAgree

\* Steps that leave every connection with its peer.
LEMMA TablesKeepPeers ==
    ASSUME TablesAgree, UNCHANGED connections_by_peer,
           DOMAIN connections_by_id' = DOMAIN connections_by_id,
           \A c \in DOMAIN connections_by_id :
               connections_by_id'[c].peer = connections_by_id[c].peer
    PROVE  TablesAgree'
  BY DEF TablesAgree

\* A new connection has an id no table holds.
LEMMA TablesOpened ==
    ASSUME TypeInv, TablesAgree, handle_connection_opened
    PROVE  TablesAgree'
  <1> DEFINE cid == next_connection_id + 1
  <1>1. add_connection(cid, Event.peer, Event.dir)
    BY DEF handle_connection_opened
  <1>2. cid \notin DOMAIN connections_by_id
    BY DEF TypeInv, TableTypes
  <1> HIDE DEF cid
  <1> QED
    BY <1>1, <1>2 DEF TablesAgree, add_connection, Insert

\* A closed connection leaves both tables, its peer's entry with the last one.
LEMMA TablesClosed ==
    ASSUME TypeInv, TablesAgree, handle_connection_closed
    PROVE  TablesAgree'
  <1> DEFINE cid == Event.cid
  <1>1. CASE cid \notin DOMAIN connections_by_id
    BY <1>1, TablesKept DEF handle_connection_closed
  <1>2. CASE cid \in DOMAIN connections_by_id
    <2> DEFINE peer == connections_by_id[cid].peer
    <2>1. /\ connections_by_id' = Remove(connections_by_id, cid)
          /\ del_from_peer(cid, peer)
      BY <1>2 DEF handle_connection_closed
    <2>2. peer \in DOMAIN connections_by_peer
      BY <1>2 DEF TablesAgree
    <2>3. CASE connections_by_peer[peer] \ {cid} = {}
      <3>1. connections_by_peer' = Remove(connections_by_peer, peer)
        BY <2>1, <2>2, <2>3 DEF del_from_peer
      <3> QED
        BY <1>2, <2>1, <2>3, <3>1 DEF TablesAgree, Remove
    <2>4. CASE connections_by_peer[peer] \ {cid} # {}
      <3>1. connections_by_peer' = Insert(connections_by_peer, peer,
                                          connections_by_peer[peer] \ {cid})
        BY <2>1, <2>2, <2>4 DEF del_from_peer
      <3> QED
        BY <1>2, <2>1, <2>2, <2>4, <3>1 DEF TablesAgree, Remove, Insert
    <2> QED
      BY <2>3, <2>4
  <1> QED
    BY <1>1, <1>2

\* The sub-stream lists and the closing flag are no business of the tables.
LEMMA TablesStreams ==
    ASSUME TypeInv, TablesAgree,
           handle_stream_opened \/ handle_stream_closed \/ on_close_connection
    PROVE  TablesAgree'
  <1>0. \A c \in DOMAIN connections_by_id : connections_by_id[c] \in Connection
    BY DEF TypeInv, TableTypes
  <1>1. CASE handle_stream_opened
    BY <1>0, <1>1, TablesKeepPeers DEF handle_stream_opened, add_stream, Connection
  <1>2. CASE handle_stream_closed
    BY <1>0, <1>2, TablesKeepPeers DEF handle_stream_closed, del_stream, Connection
  <1>3. CASE on_close_connection
    BY <1>0, <1>3, TablesKeepPeers DEF on_close_connection, Connection
  <1> QED
    BY <1>1, <1>2, <1>3

\* Only six handlers write the tables.
LEMMA TableSteps ==
    ASSUME [Next]_vars
    PROVE  \/ UNCHANGED <<connections_by_id, connections_by_peer>>
           \/ handle_connection_opened \/ handle_connection_closed
           \/ handle_stream_opened \/ handle_stream_closed
           \/ on_close_connection \/ MainLoopExits
  <1>1. CASE Lifecycle
    BY <1>1 DEF Lifecycle, start, MainLoopBegins, close, CloseReturns, ban_peer_id,
                unban_peer_id
  <1>2. CASE Clients
    BY <1>2 DEF Clients, Submit, RequestTimeout
  <1>3. CASE DialTasks
    BY <1>3 DEF DialTasks, DialSucceeds, DialFails
  <1>4. CASE StreamTasks
    BY <1>4 DEF StreamTasks, OpenNegotiated, OpenSucceeds, OpenFails, DropSubstream,
                SendCloseStream
  <1>5. CASE AcceptTasks
    BY <1>5 DEF AcceptTasks, AcceptStream, SelectInboundFails, AcceptorExits
  <1>6. CASE IdentifyTasks
    BY <1>6 DEF IdentifyTasks, IdentifyNegotiated, IdentifyOpens, IdentifyOpenFails,
                IdentifyReads, StopIdentify
  <1>7. CASE Environment
    BY <1>7 DEF Environment, Accepted, AcceptError, ForgetAddrs, RemoteCloses, CloseMuxer
  <1>8. CASE OnEvent
    BY <1>8 DEF OnEvent, handle_outgoing_connection_error,
                handle_incoming_connection_error, handle_stream_error,
                handle_identify_result
  <1>9. CASE OnCommand
    BY <1>9 DEF OnCommand, on_connect, on_new_connection, on_new_stream
  <1>10. CASE EventsPending \/ CommandsPending \/ MainLoopQuits \/ UNCHANGED vars
    BY <1>10 DEF EventsPending, CommandsPending, MainLoopQuits, vars
  <1> QED
    BY <1>1, <1>2, <1>3, <1>4, <1>5, <1>6, <1>7, <1>8, <1>9, <1>10, Zenon
    DEF Next, MainLoop

\* Every step keeps the tables in agreement.
LEMMA TablesNext == TypeInv /\ TablesAgree /\ [Next]_vars => TablesAgree'
  <1> SUFFICES ASSUME TypeInv, TablesAgree, [Next]_vars PROVE TablesAgree'
    OBVIOUS
  <1>1. CASE MainLoopExits
    BY <1>1 DEF MainLoopExits, TablesAgree, Empty
  <1> QED
    BY <1>1, TableSteps, TablesKept, TablesOpened, TablesClosed, TablesStreams, Zenon

\* For all constants, connections_by_id and connections_by_peer are one
\* relation, whatever the order of opens, closes and late messages.
THEOREM SwarmTablesAgree == Spec => []TablesAgree
  <1>1. Init => TablesAgree
    BY DEF Init, TablesAgree, Empty
  <1> QED
    BY <1>1, TypedInit, TypedNext, TablesNext, PTL DEF Spec

\* The only id a step can add is the next one.
LEMMA TablesGrow ==
    ASSUME TypeInv, [Next]_vars
    PROVE  DOMAIN connections_by_id' \subseteq
              DOMAIN connections_by_id \cup {next_connection_id + 1}
  <1>1. CASE handle_connection_opened
    BY <1>1 DEF handle_connection_opened, add_connection, Insert
  <1>2. CASE handle_connection_closed
    BY <1>2 DEF handle_connection_closed, Remove
  <1>3. CASE handle_stream_opened
    BY <1>3 DEF handle_stream_opened, add_stream
  <1>4. CASE handle_stream_closed
    BY <1>4 DEF handle_stream_closed, del_stream
  <1>5. CASE on_close_connection
    BY <1>5 DEF on_close_connection
  <1>6. CASE MainLoopExits
    BY <1>6 DEF MainLoopExits, Empty
  <1> QED
    BY <1>1, <1>2, <1>3, <1>4, <1>5, <1>6, TableSteps

\* For all constants, no late message brings a closed connection back, and
\* no id is given twice.
THEOREM SwarmClosedStaysClosed == Spec => ClosedStaysClosed
  <1>1. ASSUME TypeInv, [Next]_vars
        PROVE  [\A c \in 1..next_connection_id :
                  c \in DOMAIN connections_by_id' => c \in DOMAIN connections_by_id]_vars
    <2>1. next_connection_id \in Nat
      BY <1>1 DEF TypeInv, TableTypes
    <2> QED
      BY <1>1, <2>1, TablesGrow
  <1> QED
    BY <1>1, TypedInit, TypedNext, PTL DEF Spec, ClosedStaysClosed
-----------------------------------------------------------------------------
(* The dial transactions. *)

\* Every dial transaction has a source, a dial task or a queued result; every
\* source has its transaction, and no two sources have the same one.
DialInv ==
    phase # "exited" =>
      /\ \A d \in dialing : /\ d.tid \in DOMAIN dial_transactions
                            /\ \A e \in dialing : d.tid = e.tid => d = e
      /\ \A i \in DOMAIN event_queue :
            TidOf(event_queue[i]) # NoTid =>
              /\ TidOf(event_queue[i]) \in DOMAIN dial_transactions
              /\ \A d \in dialing : d.tid # TidOf(event_queue[i])
              /\ \A j \in DOMAIN event_queue :
                    TidOf(event_queue[j]) = TidOf(event_queue[i]) => i = j
      /\ \A t \in DOMAIN dial_transactions :
            \/ \E d \in dialing : d.tid = t
            \/ \E i \in DOMAIN event_queue : TidOf(event_queue[i]) = t

\* The channel is gone with the Swarm.
ExitInv == phase = "exited" => event_queue = <<>>

\* The steps of DialInv, by what they do to the channel and the transactions.
Quiet == UNCHANGED <<dialing, dial_transactions>>

\* Neither the channel nor the transactions change.
LEMMA DialKept ==
    ASSUME DialInv, phase' # "exited" => phase # "exited", Quiet, UNCHANGED event_queue
    PROVE  DialInv'
  BY DEF DialInv, Quiet

\* Events without a transaction are sent.
LEMMA DialQuietEvents ==
    ASSUME TypeInv, DialInv, UNCHANGED phase, Quiet,
           NEW S, NEW es \in Seq(S), Emit(es), \A e \in S : TidOf(e) = NoTid
    PROVE  DialInv'
  <1> SUFFICES ASSUME phase # "exited" PROVE DialInv'
    BY DEF DialInv
  <1>0. event_queue \in Seq(SwarmEvent \cup S) /\ es \in Seq(SwarmEvent \cup S)
    BY DEF TypeInv, EventTypes
  <1>1. /\ DOMAIN event_queue' = 1..(Len(event_queue) + Len(es))
        /\ \A i \in DOMAIN event_queue : event_queue'[i] = event_queue[i]
        /\ \A i \in DOMAIN event_queue' \ DOMAIN event_queue :
              i - Len(event_queue) \in DOMAIN es
                 /\ event_queue'[i] = es[i - Len(event_queue)]
    BY <1>0 DEF Emit
  <1>2. /\ DOMAIN event_queue \subseteq DOMAIN event_queue'
        /\ \A i \in DOMAIN event_queue' \ DOMAIN event_queue :
              TidOf(event_queue'[i]) = NoTid
    BY <1>1 DEF TypeInv, EventTypes
  <1>3. \A i \in DOMAIN event_queue' : TidOf(event_queue'[i]) # NoTid =>
           i \in DOMAIN event_queue /\ TidOf(event_queue'[i]) = TidOf(event_queue[i])
    BY <1>1, <1>2
  <1>4. \A i \in DOMAIN event_queue : i \in DOMAIN event_queue'
           /\ TidOf(event_queue'[i]) = TidOf(event_queue[i])
    BY <1>1, <1>2
  <1> HIDE DEF TidOf
  <1>5. NoTid \notin DOMAIN dial_transactions
    BY DEF TypeInv, DialTypes, NoTid
  <1> QED
    BY <1>3, <1>4, <1>5 DEF DialInv, Quiet

LEMMA DialQuietEvent ==
    ASSUME TypeInv, DialInv, UNCHANGED phase, Quiet, NEW e, Emit(<<e>>),
           TidOf(e) = NoTid
    PROVE  DialInv'
  <1> DEFINE es == <<e>>  S == {e}
  <1>1. es \in Seq(S) /\ Emit(es) /\ \A x \in S : TidOf(x) = NoTid
    OBVIOUS
  <1> HIDE DEF es, S
  <1> QED
    BY <1>1, DialQuietEvents

\* A dial task sends its result and is gone.
LEMMA DialReported ==
    ASSUME TypeInv, DialInv, UNCHANGED <<phase, dial_transactions>>,
           NEW d \in dialing, dialing' = dialing \ {d},
           NEW e \in SwarmEvent, TidOf(e) = d.tid, Emit(<<e>>)
    PROVE  DialInv'
  <1> SUFFICES ASSUME phase # "exited" PROVE DialInv'
    BY DEF DialInv
  <1> DEFINE n == Len(event_queue) + 1
  <1>1. /\ DOMAIN event_queue' = DOMAIN event_queue \cup {n}
        /\ n \notin DOMAIN event_queue
        /\ \A i \in DOMAIN event_queue : event_queue'[i] = event_queue[i]
        /\ event_queue'[n] = e
    BY DEF Emit, TypeInv, EventTypes
  <1>2. d.tid # NoTid
    BY DEF TypeInv, DialTypes, Tids, NoTid
  <1> HIDE DEF TidOf, n
  <1> QED
    BY <1>1, <1>2 DEF DialInv

\* An event is taken from the channel, with its transaction if it has one.
LEMMA DialTaken ==
    ASSUME TypeInv, DialInv, NEW type, TakeEvent(type), UNCHANGED <<phase, dialing>>,
           \/ TidOf(Event) = NoTid /\ UNCHANGED dial_transactions
           \/ /\ TidOf(Event) # NoTid
              /\ dial_transactions' = Remove(dial_transactions, TidOf(Event))
    PROVE  DialInv'
  <1>1. phase # "exited"
    BY DEF TakeEvent
  <1>2. /\ 1 \in DOMAIN event_queue /\ Event = event_queue[1]
        /\ \A i \in DOMAIN event_queue' :
              i + 1 \in DOMAIN event_queue /\ event_queue'[i] = event_queue[i + 1]
        /\ \A i \in DOMAIN event_queue \ {1} :
              i - 1 \in DOMAIN event_queue' /\ event_queue[i] = event_queue'[i - 1]
        /\ DOMAIN event_queue \subseteq Nat /\ DOMAIN event_queue' \subseteq Nat \ {0}
    BY DEF TakeEvent, Event, TypeInv, EventTypes
  <1>3. NoTid \notin DOMAIN dial_transactions
    BY DEF TypeInv, DialTypes, NoTid
  <1> HIDE DEF TidOf
  <1>4. \A i, j \in DOMAIN event_queue' : i + 1 = j + 1 => i = j
    BY <1>2
  <1>5. \A i \in DOMAIN event_queue' :
           TidOf(event_queue'[i]) # NoTid => TidOf(event_queue'[i]) # TidOf(Event)
    BY <1>1, <1>2 DEF DialInv
  <1>6. \A d \in dialing : d.tid # TidOf(Event)
    BY <1>1, <1>2, <1>3 DEF DialInv
  <1>7. DOMAIN dial_transactions' = DOMAIN dial_transactions \ {TidOf(Event)}
    BY <1>3 DEF Remove
  <1>8. \A d \in dialing' : /\ d.tid \in DOMAIN dial_transactions'
                            /\ \A e \in dialing' : d.tid = e.tid => d = e
    BY <1>1, <1>6, <1>7 DEF DialInv
  <1>9. \A i \in DOMAIN event_queue' :
            TidOf(event_queue'[i]) # NoTid =>
              /\ TidOf(event_queue'[i]) \in DOMAIN dial_transactions'
              /\ \A d \in dialing' : d.tid # TidOf(event_queue'[i])
              /\ \A j \in DOMAIN event_queue' :
                    TidOf(event_queue'[j]) = TidOf(event_queue'[i]) => i = j
    BY <1>1, <1>2, <1>4, <1>5, <1>7 DEF DialInv
  <1>10. \A t \in DOMAIN dial_transactions' :
            \/ \E d \in dialing' : d.tid = t
            \/ \E i \in DOMAIN event_queue' : TidOf(event_queue'[i]) = t
    BY <1>1, <1>2, <1>7 DEF DialInv
  <1> QED
    BY <1>8, <1>9, <1>10 DEF DialInv

\* A new transaction with its dial task; its id was never used.
LEMMA DialStarted ==
    ASSUME TypeInv, DialInv, UNCHANGED <<phase, event_queue>>,
           NEW p, NEW kind, NEW r, Dial(p, kind, r)
    PROVE  DialInv'
  <1> DEFINE tid == next_tid + 1
  <1>1. /\ tid \notin DOMAIN dial_transactions /\ tid # NoTid
    BY DEF TypeInv, DialTypes, NoTid
  <1>2. /\ DOMAIN dial_transactions' = DOMAIN dial_transactions \cup {tid}
        /\ dialing' = dialing \cup {[tid |-> tid, peer |-> p]}
    BY DEF Dial, Insert
  <1> DEFINE new == [tid |-> tid, peer |-> p]
  <1>3. new.tid = tid
    OBVIOUS
  <1> HIDE DEF TidOf, tid, new
  <1>4. dialing' = dialing \cup {new}
    BY <1>2 DEF new
  <1> SUFFICES ASSUME phase # "exited" PROVE DialInv'
    BY DEF DialInv
  <1>5. \A d \in dialing' : /\ d.tid \in DOMAIN dial_transactions'
                            /\ \A e \in dialing' : d.tid = e.tid => d = e
    BY <1>1, <1>2, <1>3, <1>4 DEF DialInv
  <1>6. \A i \in DOMAIN event_queue' :
            TidOf(event_queue'[i]) # NoTid =>
              /\ TidOf(event_queue'[i]) \in DOMAIN dial_transactions'
              /\ \A d \in dialing' : d.tid # TidOf(event_queue'[i])
              /\ \A j \in DOMAIN event_queue' :
                    TidOf(event_queue'[j]) = TidOf(event_queue'[i]) => i = j
    BY <1>1, <1>2, <1>3, <1>4 DEF DialInv
  <1>7. \A t \in DOMAIN dial_transactions' :
            \/ \E d \in dialing' : d.tid = t
            \/ \E i \in DOMAIN event_queue' : TidOf(event_queue'[i]) = t
    BY <1>2, <1>3, <1>4 DEF DialInv
  <1> QED
    BY <1>5, <1>6, <1>7 DEF DialInv

\* Every step keeps the sources and the transactions matched.
LEMMA DialNext == TypeInv /\ DialInv /\ [Next]_vars => DialInv'
  <1> SUFFICES ASSUME TypeInv, DialInv, [Next]_vars PROVE DialInv'
    OBVIOUS
  <1>1. CASE Lifecycle
    BY <1>1, DialKept DEF Quiet, Lifecycle, start, MainLoopBegins, close, CloseReturns,
                          ban_peer_id, unban_peer_id
  <1>2. CASE Clients
    BY <1>2, DialKept DEF Quiet, Clients, Submit, RequestTimeout
  <1>3. CASE DialTasks
    <2>1. PICK d \in dialing : DialSucceeds(d) \/ DialFails(d)
      BY <1>3 DEF DialTasks
    <2>2. d.tid \in Tids /\ d.peer \in Peers
      BY DEF TypeInv, DialTypes
    <2>3. CASE DialSucceeds(d)
      <3> DEFINE e == [type |-> "ConnectionEstablished", peer |-> d.peer,
                       dir |-> "Outbound", tid |-> d.tid]
      <3>1. e \in SwarmEvent /\ TidOf(e) = d.tid
        BY <2>2 DEF SwarmEvent, Direction, Tids, TidOf
      <3> QED
        BY <2>3, <3>1, DialReported DEF DialSucceeds
    <2>4. CASE DialFails(d)
      <3> DEFINE e == [type |-> "OutgoingConnectionError", tid |-> d.tid]
      <3>1. e \in SwarmEvent /\ TidOf(e) = d.tid
        BY <2>2 DEF SwarmEvent, TidOf
      <3> QED
        BY <2>4, <3>1, DialReported DEF DialFails
    <2> QED
      BY <2>1, <2>3, <2>4
  <1>4. CASE StreamTasks
    <2>1. CASE \E o \in opening : OpenNegotiated(o)
      BY <2>1, DialKept DEF Quiet, OpenNegotiated
    <2>2. CASE \E s \in DOMAIN streams : DropSubstream(s) \/ SendCloseStream(s)
      BY <2>2, DialKept DEF Quiet, DropSubstream, SendCloseStream
    <2>3. ASSUME NEW o \in opening, OpenSucceeds(o) \/ OpenFails(o)
          PROVE  DialInv'
      BY <2>3, DialQuietEvent DEF OpenSucceeds, OpenFails, Quiet, TidOf
    <2> QED
      BY <1>4, <2>1, <2>2, <2>3 DEF StreamTasks
  <1>5. CASE AcceptTasks
    BY <1>5, DialQuietEvent DEF AcceptTasks, AcceptStream, SelectInboundFails,
                                AcceptorExits, Quiet, TidOf
  <1>6. CASE IdentifyTasks
    <2>1. PICK c \in DOMAIN identify :
             \/ IdentifyNegotiated(c) \/ IdentifyOpens(c) \/ IdentifyOpenFails(c)
             \/ StopIdentify(c) \/ \E ok \in BOOLEAN : IdentifyReads(c, ok)
      BY <1>6 DEF IdentifyTasks
    <2>2. CASE IdentifyNegotiated(c) \/ StopIdentify(c)
      BY <2>2, DialKept DEF IdentifyNegotiated, StopIdentify, Quiet
    <2>3. CASE IdentifyOpens(c)
      BY <2>3, DialQuietEvent DEF IdentifyOpens, Quiet, TidOf
    <2>4. CASE IdentifyOpenFails(c)
      <3> DEFINE failed == [type |-> "StreamError", cid |-> c, dir |-> "Outbound"]
                 result == [type |-> "IdentifyResult", cid |-> c, ok |-> FALSE]
      <3>1. TidOf(failed) = NoTid /\ TidOf(result) = NoTid
        BY DEF TidOf
      <3>2. Emit(<<failed, result>>) /\ UNCHANGED phase /\ Quiet
        BY <2>4 DEF IdentifyOpenFails, Quiet
      <3> HIDE DEF failed, result
      <3> DEFINE es == <<failed, result>>  S == {failed, result}
      <3>3. es \in Seq(S) /\ Emit(es) /\ \A x \in S : TidOf(x) = NoTid
        BY <3>1, <3>2
      <3> HIDE DEF es, S
      <3> QED
        BY <3>2, <3>3, DialQuietEvents
    <2>5. ASSUME NEW ok \in BOOLEAN, IdentifyReads(c, ok)
          PROVE  DialInv'
      <3> DEFINE result == [type |-> "IdentifyResult", cid |-> c, ok |-> ok]
      <3>1. TidOf(result) = NoTid
        BY Zenon DEF TidOf
      <3> QED
        BY <2>5, <3>1, DialQuietEvent DEF IdentifyReads, Quiet
    <2> QED
      BY <2>1, <2>2, <2>3, <2>4, <2>5
  <1>7. CASE Environment
    <2>1. CASE \E p \in Peers : Accepted(p)
      BY <2>1, DialQuietEvent DEF Accepted, Quiet, TidOf
    <2>2. CASE AcceptError
      BY <2>2, DialQuietEvent DEF AcceptError, Quiet, TidOf
    <2>3. CASE \/ \E p \in Peers : ForgetAddrs(p)
               \/ \E c \in DOMAIN muxer : RemoteCloses(c) \/ CloseMuxer(c)
      BY <2>3, DialKept DEF ForgetAddrs, RemoteCloses, CloseMuxer, Quiet
    <2> QED
      BY <1>7, <2>1, <2>2, <2>3 DEF Environment
  <1>8. CASE OnEvent
    <2>1. CASE handle_connection_opened
      <3>1. TakeEvent("ConnectionEstablished") /\ TidOf(Event) = Event.tid
        BY <2>1, TakenEvent DEF handle_connection_opened, TypeInv, TidOf
      <3>2. /\ UNCHANGED <<phase, dialing>>
            /\ \/ Event.tid = NoTid /\ UNCHANGED dial_transactions
               \/ /\ Event.tid # NoTid
                  /\ dial_transactions' = Remove(dial_transactions, Event.tid)
        BY <2>1 DEF handle_connection_opened, TakeCallback
      <3>3. \/ TidOf(Event) = NoTid /\ UNCHANGED dial_transactions
            \/ /\ TidOf(Event) # NoTid
               /\ dial_transactions' = Remove(dial_transactions, TidOf(Event))
        BY <3>1, <3>2, Zenon
      <3> QED
        BY <3>1, <3>2, <3>3, DialTaken
    <2>2. CASE handle_outgoing_connection_error
      <3>1. TakeEvent("OutgoingConnectionError") /\ TidOf(Event) = Event.tid
        BY <2>2, TakenEvent DEF handle_outgoing_connection_error, TypeInv, TidOf
      <3>2. Event.tid # NoTid
        BY <2>2 DEF handle_outgoing_connection_error, TakeCallback, TypeInv, DialTypes,
                    NoTid
      <3> QED
        BY <2>2, <3>1, <3>2, DialTaken DEF handle_outgoing_connection_error, TakeCallback
    <2>3. ASSUME NEW type \in {"IncomingConnectionError", "ConnectionClosed",
                               "StreamOpened", "StreamError", "IdentifyResult"},
                 TakeEvent(type), UNCHANGED <<phase, dialing, dial_transactions>>
          PROVE  DialInv'
      <3>1. TidOf(Event) = NoTid
        BY <2>3, TakenEvent DEF TypeInv, TidOf
      <3> QED
        BY <2>3, <3>1, DialTaken
    <2> QED
      BY <1>8, <2>1, <2>2, <2>3
      DEF OnEvent, handle_incoming_connection_error, handle_connection_closed,
          handle_stream_opened, handle_stream_error, handle_identify_result
  <1>9. CASE OnCommand
    <2>1. UNCHANGED <<phase, event_queue>>
      BY <1>9 DEF OnCommand, on_connect, on_new_connection, on_new_stream,
                  on_close_connection, handle_stream_closed, TakeCmd
    <2>2. UNCHANGED dialVars \/ \E p, kind, r : Dial(p, kind, r)
      BY <1>9 DEF OnCommand, on_connect, on_new_connection, on_new_stream,
                  on_close_connection, handle_stream_closed, dial_addr, dial_peer
    <2> QED
      BY <2>1, <2>2, DialKept, DialStarted DEF Quiet
  <1>10. CASE MainLoopExits
    BY <1>10 DEF MainLoopExits, DialInv
  <1>11. CASE EventsPending \/ CommandsPending \/ MainLoopQuits \/ UNCHANGED vars
    BY <1>11, DialKept DEF EventsPending, CommandsPending, MainLoopQuits, vars, Quiet
  <1> QED
    BY <1>1, <1>2, <1>3, <1>4, <1>5, <1>6, <1>7, <1>8, <1>9, <1>10, <1>11, Zenon
    DEF Next, MainLoop

\* Nothing is dialled at the start.
LEMMA DialInit == Init => DialInv /\ ExitInv
  BY DEF Init, DialInv, ExitInv, Empty

\* Nothing gets into the channel of a Swarm that is gone.
LEMMA ExitNext == ExitInv /\ [Next]_vars => ExitInv'
  <1> SUFFICES ASSUME ExitInv, [Next]_vars PROVE ExitInv'
    OBVIOUS
  <1>1. CASE UNCHANGED <<phase, event_queue>>
    BY <1>1 DEF ExitInv
  <1>2. CASE phase' # "exited"
    BY <1>2 DEF ExitInv
  <1>3. ASSUME NEW es, Emit(es), UNCHANGED phase
        PROVE  ExitInv'
    BY <1>3 DEF ExitInv, Emit
  <1>4. CASE Lifecycle \/ Clients
    BY <1>1, <1>2, <1>4
    DEF Lifecycle, start, MainLoopBegins, close, CloseReturns, ban_peer_id,
        unban_peer_id, Clients, Submit, RequestTimeout
  <1>5. CASE DialTasks \/ StreamTasks
    BY <1>1, <1>3, <1>5
    DEF DialTasks, DialSucceeds, DialFails, StreamTasks, OpenNegotiated, OpenSucceeds,
        OpenFails, DropSubstream, SendCloseStream
  <1>6. CASE AcceptTasks \/ IdentifyTasks
    BY <1>1, <1>3, <1>6
    DEF AcceptTasks, AcceptStream, SelectInboundFails, AcceptorExits, IdentifyTasks,
        IdentifyNegotiated, IdentifyOpens, IdentifyOpenFails, IdentifyReads, StopIdentify
  <1>7. CASE Environment
    BY <1>1, <1>3, <1>7
    DEF Environment, Accepted, AcceptError, ForgetAddrs, RemoteCloses, CloseMuxer
  <1>8. CASE OnEvent
    <2>1. phase' = "running"
      BY <1>8
      DEF OnEvent, handle_connection_opened, handle_outgoing_connection_error,
          handle_incoming_connection_error, handle_connection_closed,
          handle_stream_opened, handle_stream_error, handle_identify_result, TakeEvent,
          TakeCallback
    <2> QED
      BY <1>2, <2>1
  <1>9. CASE OnCommand
    BY <1>2, <1>9 DEF OnCommand, on_connect, on_new_connection, on_new_stream,
                      on_close_connection, handle_stream_closed, TakeCmd
  <1>10. CASE MainLoopExits
    BY <1>10 DEF MainLoopExits, ExitInv
  <1>11. CASE EventsPending \/ CommandsPending \/ MainLoopQuits \/ UNCHANGED vars
    BY <1>1, <1>2, <1>11 DEF EventsPending, CommandsPending, MainLoopQuits, vars
  <1> QED
    BY <1>4, <1>5, <1>6, <1>7, <1>8, <1>9, <1>10, <1>11, Zenon DEF Next, MainLoop

\* For all constants, every dial result in the event channel finds its
\* callback: the two expect("no match tid found") never panic.
THEOREM SwarmExpectNeverFails == Spec => []ExpectNeverFails
  <1>1. DialInv /\ ExitInv => ExpectNeverFails
    BY DEF DialInv, ExitInv, ExpectNeverFails
  <1> QED
    BY <1>1, TypedInit, TypedNext, DialInit, DialNext, ExitNext, PTL DEF Spec

\* For all constants, while the Swarm lives each callback has exactly one dial
\* task or queued result: no caller is forgotten, none is answered twice.
THEOREM SwarmOneReportPerDial == Spec => []OneReportPerDial
  <1>1. ASSUME TypeInv, DialInv
        PROVE  OneReportPerDial
    <2> SUFFICES ASSUME phase # "exited", NEW t \in DOMAIN dial_transactions
                 PROVE  Cardinality({d \in dialing : d.tid = t})
                          + Cardinality({i \in DOMAIN event_queue :
                                           TidOf(event_queue[i]) = t}) = 1
      BY DEF OneReportPerDial
    <2> DEFINE Running == {d \in dialing : d.tid = t}
               Queued == {i \in DOMAIN event_queue : TidOf(event_queue[i]) = t}
    <2>1. t # NoTid
      BY <1>1 DEF TypeInv, DialTypes, NoTid
    <2>2. CASE \E d \in dialing : d.tid = t
      <3>1. PICK d \in dialing : d.tid = t
        BY <2>2
      <3>2. Running = {d} /\ Queued = {}
        BY <1>1, <2>1, <3>1 DEF DialInv
      <3>3. Cardinality(Running) = 1 /\ Cardinality(Queued) = 0
        BY <3>2, FS_Singleton, FS_EmptySet, Zenon
      <3> QED
        BY <3>3
    <2>3. CASE ~\E d \in dialing : d.tid = t
      <3>1. PICK i \in DOMAIN event_queue : TidOf(event_queue[i]) = t
        BY <1>1, <2>3 DEF DialInv
      <3>2. Running = {} /\ Queued = {i}
        BY <1>1, <2>1, <2>3, <3>1 DEF DialInv
      <3>3. Cardinality(Running) = 0 /\ Cardinality(Queued) = 1
        BY <3>2, FS_Singleton, FS_EmptySet, Zenon
      <3> QED
        BY <3>3
    <2> QED
      BY <2>2, <2>3
  <1> QED
    BY <1>1, TypedInit, TypedNext, DialInit, DialNext, PTL DEF Spec

(***************************************************************************)
(* The connections and the sub-streams: each connection is reaped exactly  *)
(* once and the counters say so, and a sub-stream in use is in the list of *)
(* its connection and of no other.                                         *)
(***************************************************************************)

\* The connection an event reports closed; no connection has the number 0.
NoCid == 0
ClosedOf(e) == IF e.type = "ConnectionClosed" THEN e.cid ELSE NoCid

\* Every queued ConnectionClosed is for a connection in the table whose accept
\* task is gone, and no two are for the same one.
ReportsSound ==
    \A i \in DOMAIN event_queue :
        ClosedOf(event_queue[i]) # NoCid =>
          /\ ClosedOf(event_queue[i]) \in DOMAIN connections_by_id
          /\ ~acceptor[ClosedOf(event_queue[i])].running
          /\ \A j \in DOMAIN event_queue :
                ClosedOf(event_queue[j]) = ClosedOf(event_queue[i]) => i = j

\* A connection whose accept task runs is in the table, and one in the table
\* whose task is gone is reported.
ReportsComplete ==
    \A c \in 1..next_connection_id :
        /\ acceptor[c].running => c \in DOMAIN connections_by_id
        /\ ~acceptor[c].running /\ c \in DOMAIN connections_by_id =>
              \E i \in DOMAIN event_queue : ClosedOf(event_queue[i]) = c

ReapInv == phase # "exited" => ReportsSound /\ ReportsComplete

\* What is in the two channels, without the order.
Queued == {event_queue[i] : i \in DOMAIN event_queue}
Commands == {ctrl_queue[i] : i \in DOMAIN ctrl_queue}

Live(s) == streams[s].state \in {"held", "identify"}
OpenedReport(e, s) == e.type = "StreamOpened" /\ e.sid = s

\* The sub-streams are numbered in order.
StreamsNumbered == DOMAIN streams = 1..Cardinality(DOMAIN streams)

\* A StreamOpened is for a sub-stream of the connection it names, a CloseStream
\* for one nobody uses, a listed sub-stream is one of the connection that lists
\* it, and one in use is listed or about to be.
StreamInv ==
    phase # "exited" =>
      /\ \A e \in Queued : e.type = "StreamOpened" =>
            e.sid \in DOMAIN streams /\ streams[e.sid].cid = e.cid
      /\ \A m \in Commands : m.type = "CloseStream" =>
            m.sid \in DOMAIN streams /\ ~Live(m.sid)
      /\ \A c \in DOMAIN connections_by_id :
            \A s \in connections_by_id[c].substreams :
               s \in DOMAIN streams /\ streams[s].cid = c
      /\ \A s \in DOMAIN streams :
            Live(s) /\ streams[s].cid \in DOMAIN connections_by_id =>
               \/ s \in connections_by_id[streams[s].cid].substreams
               \/ \E e \in Queued : OpenedReport(e, s)
-----------------------------------------------------------------------------
(* The channel: what it holds after a send and after a take. *)

LEMMA ChannelGrows ==
    ASSUME EventTypes, phase # "exited", NEW S, NEW es \in Seq(S), Emit(es)
    PROVE  /\ DOMAIN event_queue \subseteq DOMAIN event_queue'
           /\ \A i \in DOMAIN event_queue : event_queue'[i] = event_queue[i]
           /\ \A i \in DOMAIN event_queue' \ DOMAIN event_queue :
                 \E k \in DOMAIN es : event_queue'[i] = es[k]
           /\ \A k \in DOMAIN es :
                 \E i \in DOMAIN event_queue' : event_queue'[i] = es[k]
  <1>0. event_queue \in Seq(SwarmEvent \cup S) /\ es \in Seq(SwarmEvent \cup S)
    BY DEF EventTypes
  <1>1. /\ DOMAIN event_queue' = 1..(Len(event_queue) + Len(es))
        /\ \A i \in DOMAIN event_queue : event_queue'[i] = event_queue[i]
        /\ \A i \in DOMAIN event_queue' \ DOMAIN event_queue :
              i - Len(event_queue) \in DOMAIN es
                 /\ event_queue'[i] = es[i - Len(event_queue)]
        /\ \A k \in DOMAIN es : k + Len(event_queue) \in DOMAIN event_queue'
              /\ event_queue'[k + Len(event_queue)] = es[k]
    BY <1>0 DEF Emit
  <1> QED
    BY <1>1 DEF EventTypes

LEMMA ChannelGrowsByOne ==
    ASSUME EventTypes, phase # "exited", NEW e, Emit(<<e>>)
    PROVE  \E n : /\ DOMAIN event_queue' = DOMAIN event_queue \cup {n}
                  /\ n \notin DOMAIN event_queue
                  /\ \A i \in DOMAIN event_queue : event_queue'[i] = event_queue[i]
                  /\ event_queue'[n] = e
  <1> DEFINE n == Len(event_queue) + 1
  <1>1. event_queue' = event_queue \o <<e>> /\ event_queue \in Seq(SwarmEvent \cup {e})
    BY DEF Emit, EventTypes
  <1>2. /\ DOMAIN event_queue' = DOMAIN event_queue \cup {n}
        /\ n \notin DOMAIN event_queue
        /\ \A i \in DOMAIN event_queue : event_queue'[i] = event_queue[i]
        /\ event_queue'[n] = e
    BY <1>1
  <1> QED
    BY <1>2

LEMMA ChannelShifts ==
    ASSUME EventTypes, NEW type, TakeEvent(type)
    PROVE  /\ 1 \in DOMAIN event_queue /\ Event = event_queue[1]
           /\ DOMAIN event_queue \subseteq Nat /\ DOMAIN event_queue' \subseteq Nat \ {0}
           /\ \A i \in DOMAIN event_queue' :
                 i + 1 \in DOMAIN event_queue /\ event_queue'[i] = event_queue[i + 1]
           /\ \A i \in DOMAIN event_queue \ {1} :
                 i - 1 \in DOMAIN event_queue' /\ event_queue[i] = event_queue'[i - 1]
  BY DEF TakeEvent, Event, EventTypes
-----------------------------------------------------------------------------
(* A connection is reaped once. *)

\* What most steps leave alone.
ReapQuiet == /\ UNCHANGED <<next_connection_id, acceptor>>
             /\ DOMAIN connections_by_id' = DOMAIN connections_by_id

LEMMA ReapKept ==
    ASSUME ReapInv, phase' # "exited" => phase # "exited", ReapQuiet,
           UNCHANGED event_queue
    PROVE  ReapInv'
  BY DEF ReapInv, ReportsSound, ReportsComplete, ReapQuiet

\* Other events are sent.
LEMMA ReapQuietEvents ==
    ASSUME TypeInv, ReapInv, UNCHANGED phase, ReapQuiet,
           NEW S, NEW es \in Seq(S), Emit(es), \A e \in S : ClosedOf(e) = NoCid
    PROVE  ReapInv'
  <1> SUFFICES ASSUME phase # "exited" PROVE ReapInv'
    BY DEF ReapInv, ReportsSound, ReportsComplete
  <1>1. /\ DOMAIN event_queue \subseteq DOMAIN event_queue'
        /\ \A i \in DOMAIN event_queue : event_queue'[i] = event_queue[i]
        /\ \A i \in DOMAIN event_queue' \ DOMAIN event_queue :
              \E k \in DOMAIN es : event_queue'[i] = es[k]
    BY ChannelGrows DEF TypeInv
  <1>2. \A k \in DOMAIN es : ClosedOf(es[k]) = NoCid
    OBVIOUS
  <1> HIDE DEF ClosedOf
  <1>3. \A i \in DOMAIN event_queue' : ClosedOf(event_queue'[i]) # NoCid =>
           i \in DOMAIN event_queue /\ ClosedOf(event_queue'[i]) = ClosedOf(event_queue[i])
    BY <1>1, <1>2
  <1>4. \A i \in DOMAIN event_queue : i \in DOMAIN event_queue'
           /\ ClosedOf(event_queue'[i]) = ClosedOf(event_queue[i])
    BY <1>1
  <1> QED
    BY <1>3, <1>4 DEF ReapInv, ReportsSound, ReportsComplete, ReapQuiet

LEMMA ReapQuietEvent ==
    ASSUME TypeInv, ReapInv, UNCHANGED phase, ReapQuiet, NEW e, Emit(<<e>>),
           ClosedOf(e) = NoCid
    PROVE  ReapInv'
  <1> DEFINE es == <<e>>  S == {e}
  <1>1. es \in Seq(S) /\ Emit(es) /\ \A x \in S : ClosedOf(x) = NoCid
    OBVIOUS
  <1> HIDE DEF es, S
  <1> QED
    BY <1>1, ReapQuietEvents

\* The accept task reports and is gone.
LEMMA ReapReported ==
    ASSUME TypeInv, ReapInv, NEW c \in DOMAIN acceptor, AcceptorExits(c)
    PROVE  ReapInv'
  <1> SUFFICES ASSUME phase # "exited" PROVE ReapInv'
    BY DEF ReapInv, ReportsSound, ReportsComplete, AcceptorExits
  <1> DEFINE e == [type |-> "ConnectionClosed", cid |-> c]
  <1>1. c \in 1..next_connection_id /\ c # NoCid /\ ClosedOf(e) = c
    BY DEF TypeInv, TaskTypes, TableTypes, NoCid, ClosedOf
  <1>2. /\ acceptor[c].running /\ Emit(<<e>>)
        /\ acceptor' = [acceptor EXCEPT ![c] = [dir |-> @.dir, running |-> FALSE]]
        /\ UNCHANGED <<connections_by_id, next_connection_id, phase>>
    BY DEF AcceptorExits
  <1> HIDE DEF ClosedOf, e, NoCid
  <1>3. PICK n : /\ DOMAIN event_queue' = DOMAIN event_queue \cup {n}
                 /\ n \notin DOMAIN event_queue
                 /\ \A i \in DOMAIN event_queue : event_queue'[i] = event_queue[i]
                 /\ event_queue'[n] = e
    BY <1>2, ChannelGrowsByOne DEF TypeInv
  <1>4. /\ ~acceptor'[c].running
        /\ \A d \in 1..next_connection_id \ {c} : acceptor'[d] = acceptor[d]
    BY <1>2 DEF TypeInv, TaskTypes
  <1>5. \A i \in DOMAIN event_queue : ClosedOf(event_queue[i]) # c
    BY <1>1, <1>2 DEF ReapInv, ReportsSound, ReportsComplete
  <1>6. c \in DOMAIN connections_by_id
    BY <1>1, <1>2 DEF ReapInv, ReportsSound, ReportsComplete
  <1>7. DOMAIN connections_by_id \subseteq 1..next_connection_id
    BY DEF TypeInv, TableTypes
  <1>8. ReportsSound'
    BY <1>1, <1>2, <1>3, <1>4, <1>5, <1>6, <1>7 DEF ReapInv, ReportsSound, ReportsComplete
  <1>9. ReportsComplete'
    BY <1>1, <1>2, <1>3, <1>4, <1>6 DEF ReapInv, ReportsSound, ReportsComplete
  <1> QED
    BY <1>8, <1>9 DEF ReapInv, ReportsSound, ReportsComplete

\* Another event is taken.
LEMMA ReapQuietTaken ==
    ASSUME TypeInv, ReapInv, NEW type, TakeEvent(type), type # "ConnectionClosed",
           ReapQuiet, UNCHANGED phase
    PROVE  ReapInv'
  <1>1. phase # "exited" /\ ClosedOf(Event) = NoCid
    BY DEF TakeEvent, ClosedOf
  <1>2. /\ 1 \in DOMAIN event_queue /\ Event = event_queue[1]
        /\ \A i \in DOMAIN event_queue' :
              i + 1 \in DOMAIN event_queue /\ event_queue'[i] = event_queue[i + 1]
        /\ \A i \in DOMAIN event_queue \ {1} :
              i - 1 \in DOMAIN event_queue' /\ event_queue[i] = event_queue'[i - 1]
        /\ DOMAIN event_queue \subseteq Nat /\ DOMAIN event_queue' \subseteq Nat \ {0}
    BY ChannelShifts DEF TypeInv
  <1>3. \A i, j \in DOMAIN event_queue' : i + 1 = j + 1 => i = j
    BY <1>2
  <1>4. \A c \in 1..next_connection_id : c # NoCid
    BY DEF NoCid
  <1> HIDE DEF ClosedOf, NoCid
  <1>5. ReportsSound'
    BY <1>1, <1>2, <1>3 DEF ReapInv, ReportsSound, ReportsComplete, ReapQuiet
  <1>6. ReportsComplete'
    BY <1>1, <1>2, <1>4 DEF ReapInv, ReportsSound, ReportsComplete, ReapQuiet
  <1> QED
    BY <1>5, <1>6 DEF ReapInv, ReportsSound, ReportsComplete

\* The connection is opened: it is in the table and its accept task runs.
LEMMA ReapOpened ==
    ASSUME TypeInv, ReapInv, handle_connection_opened
    PROVE  ReapInv'
  <1> DEFINE cid == next_connection_id + 1
  <1>1. /\ TakeEvent("ConnectionEstablished") /\ ClosedOf(Event) = NoCid
        /\ phase # "exited" /\ UNCHANGED phase
    BY DEF handle_connection_opened, TakeEvent, ClosedOf, TakeCallback
  <1>2. /\ 1 \in DOMAIN event_queue /\ Event = event_queue[1]
        /\ \A i \in DOMAIN event_queue' :
              i + 1 \in DOMAIN event_queue /\ event_queue'[i] = event_queue[i + 1]
        /\ \A i \in DOMAIN event_queue \ {1} :
              i - 1 \in DOMAIN event_queue' /\ event_queue[i] = event_queue'[i - 1]
        /\ DOMAIN event_queue \subseteq Nat /\ DOMAIN event_queue' \subseteq Nat \ {0}
    BY <1>1, ChannelShifts DEF TypeInv
  <1>3. \A i, j \in DOMAIN event_queue' : i + 1 = j + 1 => i = j
    BY <1>2
  <1>4. /\ \A c \in 1..next_connection_id : c # NoCid /\ c # cid
        /\ 1..next_connection_id' = 1..next_connection_id \cup {cid}
        /\ DOMAIN connections_by_id \subseteq 1..next_connection_id
        /\ DOMAIN acceptor = 1..next_connection_id
    BY DEF NoCid, handle_connection_opened, TypeInv, TableTypes, TaskTypes
  <1>5. /\ DOMAIN connections_by_id' = DOMAIN connections_by_id \cup {cid}
        /\ acceptor'[cid].running
    BY DEF handle_connection_opened, add_connection, Insert
  <1>6. \A c \in 1..next_connection_id : acceptor'[c] = acceptor[c]
    BY <1>4 DEF handle_connection_opened, Insert
  <1> HIDE DEF ClosedOf, NoCid, cid
  <1>7. ReportsSound'
    BY <1>1, <1>2, <1>3, <1>4, <1>5, <1>6 DEF ReapInv, ReportsSound, ReportsComplete
  <1>8. ReportsComplete'
    BY <1>1, <1>2, <1>4, <1>5, <1>6 DEF ReapInv, ReportsSound, ReportsComplete
  <1> QED
    BY <1>7, <1>8 DEF ReapInv, ReportsSound, ReportsComplete

\* The report is handled: the connection was in the table and leaves it.
LEMMA ReapClosed ==
    ASSUME TypeInv, ReapInv, handle_connection_closed
    PROVE  /\ ReapInv'
           /\ Event.cid \in DOMAIN connections_by_id
           /\ DOMAIN connections_by_id' = DOMAIN connections_by_id \ {Event.cid}
  <1>1. /\ TakeEvent("ConnectionClosed") /\ phase # "exited"
        /\ UNCHANGED <<phase, next_connection_id, acceptor>>
    BY DEF handle_connection_closed, TakeEvent
  <1>2. /\ 1 \in DOMAIN event_queue /\ Event = event_queue[1]
        /\ \A i \in DOMAIN event_queue' :
              i + 1 \in DOMAIN event_queue /\ event_queue'[i] = event_queue[i + 1]
        /\ \A i \in DOMAIN event_queue \ {1} :
              i - 1 \in DOMAIN event_queue' /\ event_queue[i] = event_queue'[i - 1]
        /\ DOMAIN event_queue \subseteq Nat /\ DOMAIN event_queue' \subseteq Nat \ {0}
    BY <1>1, ChannelShifts DEF TypeInv
  <1>3. /\ \A i, j \in DOMAIN event_queue' : i + 1 = j + 1 => i = j
        /\ \A i \in DOMAIN event_queue' : i + 1 # 1
    BY <1>2
  <1>4. ClosedOf(Event) = Event.cid /\ ClosedOf(Event) # NoCid
    <2>1. Event \in SwarmEvent /\ Event.type = "ConnectionClosed"
      BY <1>1, TakenEvent DEF TypeInv
    <2> QED
      BY <2>1 DEF SwarmEvent, Cids, ClosedOf, NoCid
  <1> HIDE DEF ClosedOf, NoCid
  <1>5. Event.cid \in DOMAIN connections_by_id /\ ~acceptor[Event.cid].running
    BY <1>1, <1>2, <1>4 DEF ReapInv, ReportsSound, ReportsComplete
  <1>6. DOMAIN connections_by_id' = DOMAIN connections_by_id \ {Event.cid}
    BY <1>5 DEF handle_connection_closed, Remove
  <1>7. ReportsSound'
    BY <1>1, <1>2, <1>3, <1>4, <1>6 DEF ReapInv, ReportsSound, ReportsComplete
  <1>8. ReportsComplete'
    BY <1>1, <1>2, <1>4, <1>5, <1>6 DEF ReapInv, ReportsSound, ReportsComplete
  <1> QED
    BY <1>5, <1>6, <1>7, <1>8 DEF ReapInv, ReportsSound, ReportsComplete

\* Every step keeps the reports and the tasks matched.
LEMMA ReapNext == TypeInv /\ ReapInv /\ [Next]_vars => ReapInv'
  <1> SUFFICES ASSUME TypeInv, ReapInv, [Next]_vars PROVE ReapInv'
    OBVIOUS
  <1>1. CASE Lifecycle
    BY <1>1, ReapKept DEF ReapQuiet, Lifecycle, start, MainLoopBegins, close,
                          CloseReturns, ban_peer_id, unban_peer_id
  <1>2. CASE Clients
    BY <1>2, ReapKept DEF ReapQuiet, Clients, Submit, RequestTimeout
  <1>3. CASE DialTasks
    BY <1>3, ReapQuietEvent DEF DialTasks, DialSucceeds, DialFails, ReapQuiet, ClosedOf
  <1>4. CASE StreamTasks
    <2>1. CASE \E o \in opening : OpenNegotiated(o)
      BY <2>1, ReapKept DEF ReapQuiet, OpenNegotiated
    <2>2. CASE \E s \in DOMAIN streams : DropSubstream(s) \/ SendCloseStream(s)
      BY <2>2, ReapKept DEF ReapQuiet, DropSubstream, SendCloseStream
    <2>3. ASSUME NEW o \in opening, OpenSucceeds(o) \/ OpenFails(o)
          PROVE  ReapInv'
      BY <2>3, ReapQuietEvent DEF OpenSucceeds, OpenFails, ReapQuiet, ClosedOf
    <2> QED
      BY <1>4, <2>1, <2>2, <2>3 DEF StreamTasks
  <1>5. CASE AcceptTasks
    <2>1. ASSUME NEW c \in DOMAIN acceptor, AcceptStream(c) \/ SelectInboundFails(c)
          PROVE  ReapInv'
      BY <2>1, ReapQuietEvent DEF AcceptStream, SelectInboundFails, ReapQuiet, ClosedOf
    <2> QED
      BY <1>5, <2>1, ReapReported DEF AcceptTasks
  <1>6. CASE IdentifyTasks
    <2>1. PICK c \in DOMAIN identify :
             \/ IdentifyNegotiated(c) \/ IdentifyOpens(c) \/ IdentifyOpenFails(c)
             \/ StopIdentify(c) \/ \E ok \in BOOLEAN : IdentifyReads(c, ok)
      BY <1>6 DEF IdentifyTasks
    <2>2. CASE IdentifyNegotiated(c) \/ StopIdentify(c)
      BY <2>2, ReapKept DEF IdentifyNegotiated, StopIdentify, ReapQuiet
    <2>3. CASE IdentifyOpens(c)
      BY <2>3, ReapQuietEvent DEF IdentifyOpens, ReapQuiet, ClosedOf
    <2>4. CASE IdentifyOpenFails(c)
      <3> DEFINE failed == [type |-> "StreamError", cid |-> c, dir |-> "Outbound"]
                 result == [type |-> "IdentifyResult", cid |-> c, ok |-> FALSE]
      <3>1. ClosedOf(failed) = NoCid /\ ClosedOf(result) = NoCid
        BY DEF ClosedOf
      <3>2. Emit(<<failed, result>>) /\ UNCHANGED phase /\ ReapQuiet
        BY <2>4 DEF IdentifyOpenFails, ReapQuiet
      <3> HIDE DEF failed, result
      <3> DEFINE es == <<failed, result>>  S == {failed, result}
      <3>3. es \in Seq(S) /\ Emit(es) /\ \A x \in S : ClosedOf(x) = NoCid
        BY <3>1, <3>2
      <3> HIDE DEF es, S
      <3> QED
        BY <3>2, <3>3, ReapQuietEvents
    <2>5. ASSUME NEW ok \in BOOLEAN, IdentifyReads(c, ok)
          PROVE  ReapInv'
      <3> DEFINE result == [type |-> "IdentifyResult", cid |-> c, ok |-> ok]
      <3>1. ClosedOf(result) = NoCid
        BY Zenon DEF ClosedOf
      <3> QED
        BY <2>5, <3>1, ReapQuietEvent DEF IdentifyReads, ReapQuiet
    <2> QED
      BY <2>1, <2>2, <2>3, <2>4, <2>5
  <1>7. CASE Environment
    <2>1. CASE \E p \in Peers : Accepted(p)
      BY <2>1, ReapQuietEvent DEF Accepted, ReapQuiet, ClosedOf
    <2>2. CASE AcceptError
      BY <2>2, ReapQuietEvent DEF AcceptError, ReapQuiet, ClosedOf
    <2>3. CASE \/ \E p \in Peers : ForgetAddrs(p)
               \/ \E c \in DOMAIN muxer : RemoteCloses(c) \/ CloseMuxer(c)
      BY <2>3, ReapKept DEF ForgetAddrs, RemoteCloses, CloseMuxer, ReapQuiet
    <2> QED
      BY <1>7, <2>1, <2>2, <2>3 DEF Environment
  <1>8. CASE OnEvent
    <2>1. ASSUME NEW type, TakeEvent(type), type # "ConnectionClosed",
                 DOMAIN connections_by_id' = DOMAIN connections_by_id,
                 UNCHANGED <<phase, next_connection_id, acceptor>>
          PROVE  ReapInv'
      BY <2>1, ReapQuietTaken DEF ReapQuiet
    <2>2. CASE handle_stream_opened
      BY <2>1, <2>2 DEF handle_stream_opened, add_stream
    <2>3. CASE \/ handle_outgoing_connection_error \/ handle_incoming_connection_error
               \/ handle_stream_error \/ handle_identify_result
      BY <2>1, <2>3 DEF handle_outgoing_connection_error, TakeCallback,
         handle_incoming_connection_error, handle_stream_error, handle_identify_result
    <2> QED
      BY <1>8, <2>2, <2>3, ReapOpened, ReapClosed DEF OnEvent
  <1>9. CASE OnCommand
    <2>1. UNCHANGED <<phase, event_queue, next_connection_id, acceptor>>
      BY <1>9 DEF OnCommand, on_connect, on_new_connection, on_new_stream,
                  on_close_connection, handle_stream_closed, TakeCmd
    <2>2. DOMAIN connections_by_id' = DOMAIN connections_by_id
      BY <1>9 DEF OnCommand, on_connect, on_new_connection, on_new_stream,
                  on_close_connection, handle_stream_closed, del_stream
    <2> QED
      BY <2>1, <2>2, ReapKept DEF ReapQuiet
  <1>10. CASE MainLoopExits
    BY <1>10 DEF MainLoopExits, ReapInv, ReportsSound, ReportsComplete
  <1>11. CASE EventsPending \/ CommandsPending \/ MainLoopQuits \/ UNCHANGED vars
    BY <1>11, ReapKept DEF EventsPending, CommandsPending, MainLoopQuits, vars, ReapQuiet
  <1> QED
    BY <1>1, <1>2, <1>3, <1>4, <1>5, <1>6, <1>7, <1>8, <1>9, <1>10, <1>11, Zenon
    DEF Next, MainLoop

\* The three counters change only with the table.
ConnStats == <<base_stats["connection_incoming_opened"],
               base_stats["connection_outgoing_opened"],
               base_stats["connection_closed"]>>

LEMMA StatSteps ==
    ASSUME TypeInv, [Next]_vars
    PROVE  \/ /\ UNCHANGED ConnStats
              /\ DOMAIN connections_by_id' = DOMAIN connections_by_id
              /\ phase' # "exited" => phase # "exited"
           \/ handle_connection_opened \/ handle_connection_closed \/ MainLoopExits
  <1>0. base_stats \in [SwarmBaseStats -> Nat]
    BY DEF TypeInv, BookTypes
  <1>1. CASE Lifecycle
    BY <1>1 DEF ConnStats, Lifecycle, start, MainLoopBegins, close, CloseReturns,
                ban_peer_id, unban_peer_id
  <1>2. CASE Clients \/ DialTasks
    BY <1>2 DEF ConnStats, Clients, Submit, RequestTimeout, DialTasks, DialSucceeds,
                DialFails
  <1>3. CASE StreamTasks \/ AcceptTasks
    BY <1>3 DEF ConnStats, StreamTasks, OpenNegotiated, OpenSucceeds, OpenFails,
                DropSubstream, SendCloseStream, AcceptTasks, AcceptStream,
                SelectInboundFails, AcceptorExits
  <1>4. CASE IdentifyTasks \/ Environment
    BY <1>4 DEF ConnStats, IdentifyTasks, IdentifyNegotiated, IdentifyOpens,
                IdentifyOpenFails, IdentifyReads, StopIdentify, Environment, Accepted,
                AcceptError, ForgetAddrs, RemoteCloses, CloseMuxer
  <1>5. CASE OnEvent
    <2>1. ASSUME NEW f \in SwarmBaseStats \ {"connection_incoming_opened",
                             "connection_outgoing_opened", "connection_closed"}, Bump(f)
          PROVE  UNCHANGED ConnStats
      BY <1>0, <2>1 DEF Bump, ConnStats, SwarmBaseStats
    <2>2. CASE handle_stream_opened
      BY <2>1, <2>2 DEF handle_stream_opened, add_stream, SwarmBaseStats, TakeEvent
    <2>3. CASE handle_stream_error
      BY <2>1, <2>3 DEF handle_stream_error, SwarmBaseStats, TakeEvent
    <2>4. CASE handle_outgoing_connection_error \/ handle_incoming_connection_error
      BY <2>1, <2>4 DEF handle_outgoing_connection_error, TakeEvent,
                        handle_incoming_connection_error, SwarmBaseStats
    <2>5. CASE handle_identify_result
      BY <2>5 DEF handle_identify_result, ConnStats, TakeEvent
    <2> QED
      BY <1>5, <2>2, <2>3, <2>4, <2>5 DEF OnEvent
  <1>6. CASE OnCommand
    <2>1. CASE handle_stream_closed
      BY <1>0, <2>1 DEF handle_stream_closed, Bump, ConnStats, SwarmBaseStats,
                        del_stream, TakeCmd
    <2>2. CASE on_close_connection
      BY <2>2 DEF on_close_connection, ConnStats, TakeCmd
    <2>3. CASE on_connect \/ on_new_connection \/ on_new_stream
      BY <2>3 DEF on_connect, on_new_connection, on_new_stream, ConnStats, TakeCmd
    <2> QED
      BY <1>6, <2>1, <2>2, <2>3 DEF OnCommand
  <1>7. CASE EventsPending \/ CommandsPending \/ MainLoopQuits \/ UNCHANGED vars
    BY <1>7 DEF EventsPending, CommandsPending, MainLoopQuits, vars, ConnStats
  <1> QED
    BY <1>1, <1>2, <1>3, <1>4, <1>5, <1>6, <1>7, Zenon DEF Next, MainLoop

\* The table is finite.
LEMMA TableFinite ==
    ASSUME TypeInv
    PROVE  IsFiniteSet(DOMAIN connections_by_id)
             /\ Cardinality(DOMAIN connections_by_id) \in Nat
  <1>1. IsFiniteSet(1..next_connection_id)
    BY FS_Interval DEF TypeInv, TableTypes
  <1>2. IsFiniteSet(DOMAIN connections_by_id)
    BY <1>1, FS_Subset DEF TypeInv, TableTypes
  <1> QED
    BY <1>2, FS_CardinalityType

\* Every step keeps the counters in step with the table.
LEMMA StatsNext ==
    TypeInv /\ ReapInv /\ StatsMatchTables /\ [Next]_vars => StatsMatchTables'
  <1> SUFFICES ASSUME TypeInv, ReapInv, StatsMatchTables, [Next]_vars
               PROVE  StatsMatchTables'
    OBVIOUS
  <1> DEFINE Table == DOMAIN connections_by_id
  <1>0. /\ base_stats \in [SwarmBaseStats -> Nat]
        /\ IsFiniteSet(Table) /\ Cardinality(Table) \in Nat
    BY TableFinite DEF TypeInv, BookTypes
  <1>1. CASE handle_connection_opened
    <2>1. /\ DOMAIN connections_by_id' = Table \cup {next_connection_id + 1}
          /\ next_connection_id + 1 \notin Table
      BY <1>1 DEF handle_connection_opened, add_connection, Insert, TypeInv, TableTypes
    <2>2. Cardinality(DOMAIN connections_by_id') = Cardinality(Table) + 1
      BY <1>0, <2>1, FS_AddElement
    <2>3. /\ phase # "exited"
          /\ Bump(IF Event.dir = "Inbound" THEN "connection_incoming_opened"
                                           ELSE "connection_outgoing_opened")
      BY <1>1 DEF handle_connection_opened, TakeEvent
    <2> QED
      BY <1>0, <2>2, <2>3 DEF StatsMatchTables, Bump, SwarmBaseStats
  <1>2. CASE handle_connection_closed
    <2>1. /\ DOMAIN connections_by_id' = Table \ {Event.cid}
          /\ Event.cid \in Table
      BY <1>2, ReapClosed
    <2>2. Cardinality(DOMAIN connections_by_id') = Cardinality(Table) - 1
      BY <1>0, <2>1, FS_RemoveElement
    <2>3. phase # "exited" /\ Bump("connection_closed")
      BY <1>2 DEF handle_connection_closed, TakeEvent
    <2> QED
      BY <1>0, <2>2, <2>3 DEF StatsMatchTables, Bump, SwarmBaseStats
  <1>3. CASE MainLoopExits
    BY <1>3 DEF MainLoopExits, StatsMatchTables
  <1> QED
    BY <1>1, <1>2, <1>3, StatSteps DEF StatsMatchTables, ConnStats

LEMMA ReapInit == Init => ReapInv /\ StatsMatchTables
  <1> SUFFICES ASSUME Init PROVE ReapInv /\ StatsMatchTables
    OBVIOUS
  <1>1. DOMAIN connections_by_id = {}
    BY DEF Init, Empty
  <1>2. Cardinality(DOMAIN connections_by_id) = 0
    BY <1>1, FS_EmptySet
  <1> QED
    BY <1>1, <1>2
    DEF Init, ReapInv, ReportsSound, ReportsComplete, StatsMatchTables, SwarmBaseStats

\* For all constants, handle_connection_closed runs exactly once for each
\* connection, also when the accept task exits before the connection is in the
\* tables, and the counters of get_stats agree with the table.
THEOREM SwarmConnectionsAccounted == Spec => []ConnectionsAccounted
  <1>1. ASSUME TypeInv, ReapInv
        PROVE  ConnectionIsReaped
    <2> SUFFICES ASSUME phase # "exited", NEW c \in 1..next_connection_id
                 PROVE  Cardinality(ClosedReports(c)) =
                          IF c \in DOMAIN connections_by_id /\ ~acceptor[c].running
                          THEN 1 ELSE 0
      BY DEF ConnectionIsReaped
    <2>1. c # NoCid
      BY DEF NoCid
    <2>2. \A i \in DOMAIN event_queue :
             i \in ClosedReports(c) <=> ClosedOf(event_queue[i]) = c
      BY <2>1 DEF ClosedReports, ClosedOf
    <2>3. ClosedReports(c) \subseteq DOMAIN event_queue
      BY DEF ClosedReports
    <2> HIDE DEF NoCid, ClosedReports, ClosedOf
    <2>4. CASE c \in DOMAIN connections_by_id /\ ~acceptor[c].running
      <3>1. PICK i \in DOMAIN event_queue : ClosedOf(event_queue[i]) = c
        BY <1>1, <2>4 DEF ReapInv, ReportsSound, ReportsComplete
      <3>2. ClosedReports(c) = {i}
        BY <1>1, <2>1, <2>2, <2>3, <3>1 DEF ReapInv, ReportsSound, ReportsComplete
      <3> QED
        BY <2>4, <3>2, FS_Singleton
    <2>5. CASE ~(c \in DOMAIN connections_by_id /\ ~acceptor[c].running)
      <3>1. ClosedReports(c) = {}
        BY <1>1, <2>1, <2>2, <2>3, <2>5 DEF ReapInv, ReportsSound, ReportsComplete
      <3> QED
        BY <2>5, <3>1, FS_EmptySet
    <2> QED
      BY <2>4, <2>5
  <1> QED
    BY <1>1, TypedInit, TypedNext, ReapInit, ReapNext, StatsNext, PTL
    DEF Spec, ConnectionsAccounted
-----------------------------------------------------------------------------
(* A sub-stream in use is listed. *)

LEMMA QueuedGrows ==
    ASSUME EventTypes, phase # "exited", NEW S, NEW es \in Seq(S), Emit(es)
    PROVE  Queued' = Queued \cup {es[k] : k \in DOMAIN es}
  BY ChannelGrows DEF Queued

LEMMA QueuedShrinks ==
    ASSUME EventTypes, NEW type, TakeEvent(type)
    PROVE  Event \in Queued /\ Queued' \subseteq Queued /\ Queued \ {Event} \subseteq Queued'
  BY ChannelShifts DEF Queued

\* The control channel takes one command at the end or loses its first.
LEMMA CommandsGrow ==
    ASSUME CmdTypes, NEW m, ctrl_queue' = Append(ctrl_queue, m)
    PROVE  Commands' = Commands \cup {m}
  <1>1. ctrl_queue \in Seq(SwarmControlCmd \cup {m})
    BY DEF CmdTypes
  <1>2. /\ DOMAIN ctrl_queue' = DOMAIN ctrl_queue \cup {Len(ctrl_queue) + 1}
        /\ \A i \in DOMAIN ctrl_queue : ctrl_queue'[i] = ctrl_queue[i]
        /\ ctrl_queue'[Len(ctrl_queue) + 1] = m
    BY <1>1
  <1> QED
    BY <1>2 DEF Commands

LEMMA CommandsShrink ==
    ASSUME CmdTypes, NEW types, TakeCmd(types)
    PROVE  Cmd \in Commands /\ Commands' \subseteq Commands
  <1>1. ctrl_queue # <<>> /\ ctrl_queue' = Tail(ctrl_queue) /\ Cmd = ctrl_queue[1]
    BY DEF TakeCmd, Cmd, CmdTypes
  <1>2. /\ 1 \in DOMAIN ctrl_queue
        /\ \A i \in DOMAIN ctrl_queue' :
              i + 1 \in DOMAIN ctrl_queue /\ ctrl_queue'[i] = ctrl_queue[i + 1]
    BY <1>1 DEF CmdTypes
  <1> QED
    BY <1>1, <1>2 DEF Commands

\* What a step has to respect: old sub-streams keep their connection and do not
\* come back to life, new ones are reported, and so on for the reports, the
\* commands and the lists.
LEMMA StreamsFollow ==
    ASSUME StreamInv, phase' # "exited" => phase # "exited",
           \A s \in DOMAIN streams :
              s \in DOMAIN streams' /\ streams'[s].cid = streams[s].cid
                 /\ (Live(s)' => Live(s)),
           \A s \in DOMAIN streams' \ DOMAIN streams :
              \E e \in Queued' : OpenedReport(e, s),
           \A e \in Queued' : e.type = "StreamOpened" =>
              e \in Queued \/ (e.sid \in DOMAIN streams' /\ streams'[e.sid].cid = e.cid),
           \A m \in Commands' : m.type = "CloseStream" =>
              m \in Commands \/ (m.sid \in DOMAIN streams' /\ ~Live(m.sid)'),
           \A c \in DOMAIN connections_by_id' :
              \A s \in connections_by_id'[c].substreams :
                 \/ c \in DOMAIN connections_by_id /\ s \in connections_by_id[c].substreams
                 \/ s \in DOMAIN streams /\ streams[s].cid = c,
           \A c \in DOMAIN connections_by_id', s \in DOMAIN streams :
              streams[s].cid = c /\ Live(s)' =>
                 /\ c \in DOMAIN connections_by_id
                 /\ s \in connections_by_id[c].substreams =>
                       s \in connections_by_id'[c].substreams,
           \A e \in Queued, s \in DOMAIN streams : OpenedReport(e, s) =>
              \/ e \in Queued'
              \/ streams[s].cid \in DOMAIN connections_by_id' =>
                    s \in connections_by_id'[streams[s].cid].substreams
    PROVE  StreamInv'
  <1> SUFFICES ASSUME phase # "exited", phase' # "exited" PROVE StreamInv'
    BY DEF StreamInv
  <1> HIDE DEF Queued, Commands, Live, OpenedReport
  <1>1. \A e \in Queued' : e.type = "StreamOpened" =>
            e.sid \in DOMAIN streams' /\ streams'[e.sid].cid = e.cid
    BY DEF StreamInv
  <1>2. \A m \in Commands' : m.type = "CloseStream" =>
            m.sid \in DOMAIN streams' /\ ~Live(m.sid)'
    BY DEF StreamInv
  <1>3. \A c \in DOMAIN connections_by_id' :
            \A s \in connections_by_id'[c].substreams :
               s \in DOMAIN streams' /\ streams'[s].cid = c
    BY DEF StreamInv
  <1>4. ASSUME NEW s \in DOMAIN streams', Live(s)',
               streams'[s].cid \in DOMAIN connections_by_id'
        PROVE  \/ s \in connections_by_id'[streams'[s].cid].substreams
               \/ \E e \in Queued' : OpenedReport(e, s)
    <2>1. CASE s \notin DOMAIN streams
      BY <2>1
    <2>2. CASE s \in DOMAIN streams
      <3>1. /\ Live(s) /\ streams'[s].cid = streams[s].cid
            /\ streams[s].cid \in DOMAIN connections_by_id
            /\ s \in connections_by_id[streams[s].cid].substreams =>
                  s \in connections_by_id'[streams[s].cid].substreams
        BY <1>4, <2>2
      <3> QED
        BY <1>4, <2>2, <3>1 DEF StreamInv
    <2> QED
      BY <2>1, <2>2
  <1>5. \A e, s : OpenedReport(e, s)' <=> OpenedReport(e, s)
    BY DEF OpenedReport
  <1> QED
    BY <1>1, <1>2, <1>3, <1>4, <1>5 DEF StreamInv

\* The reports and the commands that matter stay as they are.
SameReports == \A e : e.type = "StreamOpened" => (e \in Queued' <=> e \in Queued)
SameCommands == \A m : m.type = "CloseStream" /\ m \in Commands' => m \in Commands

LEMMA StreamsKept ==
    ASSUME StreamInv, phase' # "exited" => phase # "exited", SameReports, SameCommands,
           UNCHANGED <<streams, connections_by_id>>
    PROVE  StreamInv'
  <1>1. \A s : Live(s)' <=> Live(s)
    BY DEF Live
  <1> HIDE DEF Live, Queued, Commands
  <1> QED
    BY <1>1, StreamsFollow DEF SameReports, SameCommands, OpenedReport

\* Other events are sent.
LEMMA StreamsQuietEvents ==
    ASSUME TypeInv, StreamInv, UNCHANGED <<phase, ctrl_queue, streams, connections_by_id>>,
           NEW S, NEW es \in Seq(S), Emit(es), \A e \in S : e.type # "StreamOpened"
    PROVE  StreamInv'
  <1> SUFFICES ASSUME phase # "exited" PROVE StreamInv'
    BY DEF StreamInv
  <1>1. Queued' = Queued \cup {es[k] : k \in DOMAIN es}
    BY QueuedGrows DEF TypeInv
  <1>2. \A k \in DOMAIN es : es[k].type # "StreamOpened"
    OBVIOUS
  <1>3. SameReports
    BY <1>1, <1>2 DEF SameReports
  <1>4. SameCommands
    BY DEF SameCommands, Commands
  <1> QED
    BY <1>3, <1>4, StreamsKept

LEMMA StreamsQuietEvent ==
    ASSUME TypeInv, StreamInv, UNCHANGED <<phase, ctrl_queue, streams, connections_by_id>>,
           NEW e, Emit(<<e>>), e.type # "StreamOpened"
    PROVE  StreamInv'
  <1> DEFINE es == <<e>>  S == {e}
  <1>1. es \in Seq(S) /\ Emit(es) /\ \A x \in S : x.type # "StreamOpened"
    OBVIOUS
  <1> HIDE DEF es, S
  <1> QED
    BY <1>1, StreamsQuietEvents

\* Neither channel changes.
LEMMA StreamsQuiet ==
    ASSUME StreamInv, phase' # "exited" => phase # "exited",
           UNCHANGED <<event_queue, ctrl_queue, streams, connections_by_id>>
    PROVE  StreamInv'
  BY StreamsKept DEF SameReports, SameCommands, Queued, Commands

\* A new sub-stream is reported in the same step.
LEMMA StreamsOpened ==
    ASSUME TypeInv, StreamInv, StreamsNumbered,
           NEW c \in 1..next_connection_id, NEW state \in StreamStates, NEW dir,
           UNCHANGED <<phase, ctrl_queue, connections_by_id>>,
           streams' = Insert(streams, Cardinality(DOMAIN streams) + 1,
                             [cid |-> c, state |-> state]),
           Emit(<<[type |-> "StreamOpened", cid |-> c,
                   sid |-> Cardinality(DOMAIN streams) + 1, dir |-> dir]>>)
    PROVE  StreamInv' /\ StreamsNumbered'
  <1> DEFINE sid == Cardinality(DOMAIN streams) + 1
             e == [type |-> "StreamOpened", cid |-> c, sid |-> sid, dir |-> dir]
             new == [cid |-> c, state |-> state]
  <1>1. IsFiniteSet(DOMAIN streams) /\ Cardinality(DOMAIN streams) \in Nat
    BY FS_CardinalityType DEF TypeInv, StreamTypes
  <1>2. sid \notin DOMAIN streams
    BY <1>1 DEF StreamsNumbered
  <1>3. Emit(<<e>>) /\ streams' = Insert(streams, sid, new)
    OBVIOUS
  <1>4. e.type = "StreamOpened" /\ e.sid = sid /\ e.cid = c /\ new.cid = c
    OBVIOUS
  <1>5. StreamsNumbered'
    <2>1. DOMAIN streams' = DOMAIN streams \cup {sid}
      BY <1>3 DEF Insert
    <2>2. Cardinality(DOMAIN streams') = sid
      BY <1>1, <1>2, <2>1, FS_AddElement
    <2>3. 1..sid = 1..Cardinality(DOMAIN streams) \cup {sid}
      BY <1>1
    <2> QED
      BY <2>1, <2>2, <2>3 DEF StreamsNumbered
  <1> HIDE DEF sid, e, new
  <1>6. StreamInv'
    <2> SUFFICES ASSUME phase # "exited" PROVE StreamInv'
      BY DEF StreamInv
    <2>1. Queued' = Queued \cup {e}
      <3> DEFINE es == <<e>>  S == {e}
      <3>1. es \in Seq(S) /\ Emit(es) /\ {es[k] : k \in DOMAIN es} = {e}
        BY <1>3
      <3> HIDE DEF es, S
      <3> QED
        BY <3>1, QueuedGrows DEF TypeInv
    <2>2. /\ DOMAIN streams' = DOMAIN streams \cup {sid} /\ streams'[sid] = new
          /\ \A s \in DOMAIN streams : streams'[s] = streams[s]
      BY <1>2, <1>3 DEF Insert
    <2>3. \A s \in DOMAIN streams : Live(s)' <=> Live(s)
      BY <2>2 DEF Live
    <2>4. Commands' = Commands
      BY DEF Commands
    <2> HIDE DEF Live, Queued, Commands
    <2>5. \A s \in DOMAIN streams' \ DOMAIN streams :
             \E x \in Queued' : OpenedReport(x, s)
      BY <1>4, <2>1, <2>2 DEF OpenedReport
    <2>6. \A x \in Queued' : x.type = "StreamOpened" =>
             x \in Queued \/ (x.sid \in DOMAIN streams' /\ streams'[x.sid].cid = x.cid)
      BY <1>4, <2>1, <2>2
    <2> QED
      BY <2>1, <2>2, <2>3, <2>4, <2>5, <2>6, StreamsFollow
  <1> QED
    BY <1>5, <1>6

\* Sub-streams are let go; what is sent about them is for those.
LEMMA StreamsReleased ==
    ASSUME StreamInv, StreamsNumbered, phase' # "exited" => phase # "exited",
           SameReports, UNCHANGED connections_by_id,
           DOMAIN streams' = DOMAIN streams,
           \A s \in DOMAIN streams : streams'[s].cid = streams[s].cid
                                       /\ (Live(s)' => Live(s)),
           \A m \in Commands' : m.type = "CloseStream" =>
              m \in Commands \/ (m.sid \in DOMAIN streams /\ ~Live(m.sid)')
    PROVE  StreamInv' /\ StreamsNumbered'
  <1> HIDE DEF Live, Queued, Commands
  <1>1. StreamsNumbered'
    BY DEF StreamsNumbered
  <1> QED
    BY <1>1, StreamsFollow DEF SameReports, OpenedReport

\* The lists change; the sub-streams and the commands do not get any more.
LEMMA StreamsListed ==
    ASSUME TypeInv, StreamInv, handle_stream_opened
    PROVE  StreamInv'
  <1>1. TakeEvent("StreamOpened") /\ phase # "exited"
        /\ UNCHANGED <<phase, streams, ctrl_queue>>
    BY DEF handle_stream_opened, TakeEvent
  <1>2. Event \in Queued /\ Queued' \subseteq Queued /\ Queued \ {Event} \subseteq Queued'
    BY <1>1, QueuedShrinks DEF TypeInv
  <1>3. Event.type = "StreamOpened" /\ add_stream(Event.cid, Event.sid)
    BY DEF handle_stream_opened, TakeEvent
  <1>4. /\ DOMAIN connections_by_id' = DOMAIN connections_by_id
        /\ \A c \in DOMAIN connections_by_id :
              connections_by_id'[c].substreams =
                 IF c = Event.cid THEN connections_by_id[c].substreams \cup {Event.sid}
                                  ELSE connections_by_id[c].substreams
    BY <1>3 DEF add_stream, TypeInv, TableTypes, Connection
  <1>5. Event.sid \in DOMAIN streams /\ streams[Event.sid].cid = Event.cid
    BY <1>1, <1>2, <1>3 DEF StreamInv
  <1>6. Commands' = Commands /\ \A s : Live(s)' <=> Live(s)
    BY <1>1 DEF Commands, Live
  <1> HIDE DEF Live, Queued, Commands
  <1>7. \A e \in Queued, s \in DOMAIN streams : OpenedReport(e, s) =>
              \/ e \in Queued'
              \/ streams[s].cid \in DOMAIN connections_by_id' =>
                    s \in connections_by_id'[streams[s].cid].substreams
    <2> SUFFICES ASSUME NEW s \in DOMAIN streams, OpenedReport(Event, s),
                        streams[s].cid \in DOMAIN connections_by_id'
                 PROVE  s \in connections_by_id'[streams[s].cid].substreams
      BY <1>2
    <2>1. s = Event.sid /\ streams[s].cid = Event.cid
      BY <1>5 DEF OpenedReport
    <2> QED
      BY <1>4, <2>1
  <1> QED
    BY <1>1, <1>2, <1>4, <1>5, <1>6, <1>7, StreamsFollow

LEMMA StreamsUnlisted ==
    ASSUME TypeInv, StreamInv, StreamsNumbered, handle_stream_closed
    PROVE  StreamInv' /\ StreamsNumbered'
  <1>1. /\ TakeCmd({"CloseStream"}) /\ del_stream(Cmd.cid, Cmd.sid)
        /\ streams' = [streams EXCEPT ![Cmd.sid].state = "closed"]
        /\ phase # "exited" /\ UNCHANGED <<phase, event_queue>>
    BY DEF handle_stream_closed, TakeCmd
  <1>2. Cmd \in Commands /\ Commands' \subseteq Commands /\ Cmd.type = "CloseStream"
    BY <1>1, CommandsShrink DEF TypeInv, TakeCmd
  <1>0. PICK sid : sid = Cmd.sid
    OBVIOUS
  <1>3. sid \in DOMAIN streams /\ ~Live(sid)
    BY <1>0, <1>1, <1>2 DEF StreamInv
  <1>4. /\ DOMAIN connections_by_id' = DOMAIN connections_by_id
        /\ \A c \in DOMAIN connections_by_id :
              connections_by_id'[c].substreams =
                 IF c = Cmd.cid THEN connections_by_id[c].substreams \ {sid}
                                ELSE connections_by_id[c].substreams
    BY <1>0, <1>1 DEF del_stream, TypeInv, TableTypes, Connection
  <1>5. /\ DOMAIN streams' = DOMAIN streams
        /\ \A s \in DOMAIN streams : streams'[s].cid = streams[s].cid
                                       /\ (Live(s)' => Live(s))
        /\ ~Live(sid)'
    <2>1. \A s \in DOMAIN streams : streams[s] \in Substreams
      BY DEF TypeInv, StreamTypes
    <2>2. /\ DOMAIN streams' = DOMAIN streams
          /\ \A s \in DOMAIN streams \ {sid} : streams'[s] = streams[s]
          /\ streams'[sid].cid = streams[sid].cid
          /\ streams'[sid].state = "closed"
      BY <1>0, <1>1, <1>3, <2>1 DEF Substreams
    <2> QED
      BY <1>3, <2>2 DEF Live
  <1>6. Queued' = Queued
    BY <1>1 DEF Queued
  <1> HIDE DEF Live, Queued, Commands
  <1>7. StreamsNumbered'
    BY <1>5 DEF StreamsNumbered
  <1> QED
    BY <1>1, <1>2, <1>3, <1>4, <1>5, <1>6, <1>7, StreamsFollow

\* A new connection has no sub-streams yet.
LEMMA StreamsConnOpened ==
    ASSUME TypeInv, StreamInv, handle_connection_opened
    PROVE  StreamInv'
  <1> DEFINE cid == next_connection_id + 1
  <1>1. TakeEvent("ConnectionEstablished") /\ phase # "exited"
        /\ UNCHANGED <<phase, streams, ctrl_queue>>
    BY DEF handle_connection_opened, TakeEvent, TakeCallback
  <1>2. Event \in Queued /\ Queued' \subseteq Queued /\ Queued \ {Event} \subseteq Queued'
    BY <1>1, QueuedShrinks DEF TypeInv
  <1>3. Event.type # "StreamOpened"
    BY <1>1 DEF TakeEvent
  <1>4. \A s \in DOMAIN streams : streams[s].cid # cid
    BY DEF TypeInv, TableTypes, StreamTypes, Substreams
  <1>5. cid \notin DOMAIN connections_by_id
    BY DEF TypeInv, TableTypes
  <1>6. /\ DOMAIN connections_by_id' = DOMAIN connections_by_id \cup {cid}
        /\ connections_by_id'[cid].substreams = {}
        /\ \A c \in DOMAIN connections_by_id : connections_by_id'[c] = connections_by_id[c]
    BY <1>5 DEF handle_connection_opened, add_connection, Insert
  <1>7. Commands' = Commands /\ \A s : Live(s)' <=> Live(s)
    BY <1>1 DEF Commands, Live
  <1> HIDE DEF Live, Queued, Commands, cid
  <1> QED
    BY <1>1, <1>2, <1>3, <1>4, <1>6, <1>7, StreamsFollow DEF OpenedReport

\* A connection leaves with its list.
LEMMA StreamsConnClosed ==
    ASSUME TypeInv, StreamInv, handle_connection_closed
    PROVE  StreamInv'
  <1>1. TakeEvent("ConnectionClosed") /\ phase # "exited"
        /\ UNCHANGED <<phase, streams, ctrl_queue>>
    BY DEF handle_connection_closed, TakeEvent
  <1>2. Event \in Queued /\ Queued' \subseteq Queued /\ Queued \ {Event} \subseteq Queued'
    BY <1>1, QueuedShrinks DEF TypeInv
  <1>3. Event.type # "StreamOpened"
    BY <1>1 DEF TakeEvent
  <1>4. /\ DOMAIN connections_by_id' \subseteq DOMAIN connections_by_id
        /\ \A c \in DOMAIN connections_by_id' :
              connections_by_id'[c] = connections_by_id[c]
    BY DEF handle_connection_closed, Remove
  <1>5. Commands' = Commands /\ \A s : Live(s)' <=> Live(s)
    BY <1>1 DEF Commands, Live
  <1> HIDE DEF Live, Queued, Commands
  <1> QED
    BY <1>1, <1>2, <1>3, <1>4, <1>5, StreamsFollow DEF OpenedReport

\* disconnect leaves the lists alone.
LEMMA StreamsDisconnect ==
    ASSUME TypeInv, StreamInv, on_close_connection
    PROVE  StreamInv'
  <1>1. /\ TakeCmd({"disconnect"}) /\ phase # "exited"
        /\ UNCHANGED <<phase, streams, event_queue>>
    BY DEF on_close_connection, TakeCmd
  <1>2. /\ DOMAIN connections_by_id' = DOMAIN connections_by_id
        /\ \A c \in DOMAIN connections_by_id :
              connections_by_id'[c].substreams = connections_by_id[c].substreams
    BY DEF on_close_connection, TypeInv, TableTypes, Connection
  <1>3. Commands' \subseteq Commands
    BY <1>1, CommandsShrink DEF TypeInv
  <1>4. Queued' = Queued /\ \A s : Live(s)' <=> Live(s)
    BY <1>1 DEF Queued, Live
  <1> HIDE DEF Live, Queued, Commands
  <1> QED
    BY <1>1, <1>2, <1>3, <1>4, StreamsFollow

\* A sub-stream is dropped, and then its CloseStream is sent.
LEMMA StreamsDropped ==
    ASSUME TypeInv, StreamInv, StreamsNumbered, NEW s \in DOMAIN streams,
           DropSubstream(s) \/ SendCloseStream(s)
    PROVE  StreamInv' /\ StreamsNumbered'
  <1>0. \A x \in DOMAIN streams : streams[x] \in Substreams
    BY DEF TypeInv, StreamTypes
  <1>1. UNCHANGED <<phase, event_queue, connections_by_id>>
    BY DEF DropSubstream, SendCloseStream
  <1>2. /\ DOMAIN streams' = DOMAIN streams
        /\ \A x \in DOMAIN streams \ {s} : streams'[x] = streams[x]
        /\ streams'[s].cid = streams[s].cid
        /\ streams'[s].state \in {"dropping", "closing", "closed"}
    BY <1>0 DEF DropSubstream, SendCloseStream, Substreams
  <1>3. ~Live(s)' /\ \A x \in DOMAIN streams : streams'[x].cid = streams[x].cid
                                                 /\ (Live(x)' => Live(x))
    BY <1>2 DEF Live
  <1>4. SameReports
    BY <1>1 DEF SameReports, Queued
  <1>5. \A m \in Commands' : m \in Commands \/ m.sid = s
    <2>1. CASE UNCHANGED ctrl_queue
      BY <2>1 DEF Commands
    <2>2. CASE SendCloseStream(s) /\ ~ctrl_closed
      <3> DEFINE m == [type |-> "CloseStream", cid |-> streams[s].cid, sid |-> s]
      <3>1. ctrl_queue' = Append(ctrl_queue, m)
        BY <2>2 DEF SendCloseStream
      <3>2. Commands' = Commands \cup {m}
        BY <3>1, CommandsGrow DEF TypeInv
      <3> QED
        BY <3>2
    <2> QED
      BY <2>1, <2>2 DEF DropSubstream, SendCloseStream
  <1> HIDE DEF Live, Queued, Commands
  <1> QED
    BY <1>1, <1>2, <1>3, <1>4, <1>5, StreamsReleased

\* The Identify task ends and lets go of its sub-stream.
LEMMA StreamsIdentifyEnds ==
    ASSUME TypeInv, StreamInv, StreamsNumbered, NEW c, ReleaseIdentifyStream(c),
           SameReports, phase' # "exited" => phase # "exited",
           UNCHANGED <<ctrl_queue, connections_by_id>>
    PROVE  StreamInv' /\ StreamsNumbered'
  <1>0. \A x \in DOMAIN streams : streams[x] \in Substreams
    BY DEF TypeInv, StreamTypes
  <1>1. /\ DOMAIN streams' = DOMAIN streams
        /\ \A x \in DOMAIN streams :
              /\ streams'[x].cid = streams[x].cid
              /\ streams'[x] = streams[x] \/ streams'[x].state = "dropping"
    BY <1>0 DEF ReleaseIdentifyStream, Substreams
  <1>2. \A x \in DOMAIN streams : Live(x)' => Live(x)
    BY <1>1 DEF Live
  <1>3. Commands' = Commands
    BY DEF Commands
  <1> HIDE DEF Live, Queued, Commands
  <1> QED
    BY <1>1, <1>2, <1>3, StreamsReleased

\* Every step keeps the lists in order.
LEMMA StreamsNext ==
    TypeInv /\ StreamInv /\ StreamsNumbered /\ [Next]_vars => StreamInv' /\ StreamsNumbered'
  <1> SUFFICES ASSUME TypeInv, StreamInv, StreamsNumbered, [Next]_vars
               PROVE  StreamInv' /\ StreamsNumbered'
    OBVIOUS
  <1>0. UNCHANGED streams => StreamsNumbered'
    BY DEF StreamsNumbered
  <1>1. CASE Lifecycle
    BY <1>0, <1>1, StreamsQuiet DEF Lifecycle, start, MainLoopBegins, close,
                          CloseReturns, ban_peer_id, unban_peer_id
  <1>2. CASE Clients
    <2>1. CASE \E r \in Requests : RequestTimeout(r)
      BY <1>0, <2>1, StreamsQuiet DEF RequestTimeout
    <2>2. ASSUME NEW r \in Requests, NEW kind \in Kinds, NEW p, NEW b,
                 Submit(r, kind, p, b)
          PROVE  StreamInv' /\ StreamsNumbered'
      <3> DEFINE m == [type |-> kind, peer |-> p, req |-> r, routing |-> b]
      <3>1. m.type # "CloseStream"
        BY DEF Kinds
      <3>2. ctrl_queue' = ctrl_queue \/ ctrl_queue' = Append(ctrl_queue, m)
        BY <2>2 DEF Submit
      <3> HIDE DEF m
      <3>3. Commands' = Commands \/ Commands' = Commands \cup {m}
        BY <3>2, CommandsGrow DEF TypeInv, Commands
      <3>4. UNCHANGED <<phase, event_queue, streams, connections_by_id>>
        BY <2>2 DEF Submit
      <3>5. SameReports /\ SameCommands
        BY <3>1, <3>3, <3>4 DEF SameReports, SameCommands, Queued
      <3> QED
        BY <1>0, <3>4, <3>5, StreamsKept
    <2> QED
      BY <1>2, <2>1, <2>2 DEF Clients
  <1>3. CASE DialTasks
    BY <1>0, <1>3, StreamsQuietEvent DEF DialTasks, DialSucceeds, DialFails
  <1>4. CASE StreamTasks
    <2>1. CASE \E o \in opening : OpenNegotiated(o)
      BY <1>0, <2>1, StreamsQuiet DEF OpenNegotiated
    <2>2. CASE \E o \in opening : OpenFails(o)
      BY <1>0, <2>2, StreamsQuietEvent DEF OpenFails
    <2>3. ASSUME NEW o \in opening, OpenSucceeds(o)
          PROVE  StreamInv' /\ StreamsNumbered'
      <3>1. o.cid \in 1..next_connection_id
        BY DEF TypeInv, OpeningTypes
      <3> QED
        BY <2>3, <3>1, StreamsOpened DEF OpenSucceeds, StreamStates
    <2> QED
      BY <1>4, <2>1, <2>2, <2>3, StreamsDropped DEF StreamTasks
  <1>5. CASE AcceptTasks
    <2>1. ASSUME NEW c \in DOMAIN acceptor, SelectInboundFails(c) \/ AcceptorExits(c)
          PROVE  StreamInv' /\ StreamsNumbered'
      BY <1>0, <2>1, StreamsQuietEvent DEF SelectInboundFails, AcceptorExits
    <2>2. ASSUME NEW c \in DOMAIN acceptor, AcceptStream(c)
          PROVE  StreamInv' /\ StreamsNumbered'
      <3>1. c \in 1..next_connection_id
        BY DEF TypeInv, TaskTypes
      <3> QED
        BY <2>2, <3>1, StreamsOpened DEF AcceptStream, StreamStates
    <2> QED
      BY <1>5, <2>1, <2>2 DEF AcceptTasks
  <1>6. CASE IdentifyTasks
    <2>1. PICK c \in DOMAIN identify :
             \/ IdentifyNegotiated(c) \/ IdentifyOpens(c) \/ IdentifyOpenFails(c)
             \/ StopIdentify(c) \/ \E ok \in BOOLEAN : IdentifyReads(c, ok)
      BY <1>6 DEF IdentifyTasks
    <2>2. CASE IdentifyNegotiated(c)
      BY <1>0, <2>2, StreamsQuiet DEF IdentifyNegotiated
    <2>3. CASE IdentifyOpens(c)
      <3>1. c \in 1..next_connection_id
        BY DEF TypeInv, TaskTypes
      <3> QED
        BY <2>3, <3>1, StreamsOpened DEF IdentifyOpens, StreamStates
    <2>4. CASE IdentifyOpenFails(c)
      <3> DEFINE failed == [type |-> "StreamError", cid |-> c, dir |-> "Outbound"]
                 result == [type |-> "IdentifyResult", cid |-> c, ok |-> FALSE]
      <3>1. failed.type # "StreamOpened" /\ result.type # "StreamOpened"
        OBVIOUS
      <3>2. /\ Emit(<<failed, result>>)
            /\ UNCHANGED <<phase, ctrl_queue, streams, connections_by_id>>
        BY <2>4 DEF IdentifyOpenFails
      <3> HIDE DEF failed, result
      <3> DEFINE es == <<failed, result>>  S == {failed, result}
      <3>3. es \in Seq(S) /\ Emit(es) /\ \A x \in S : x.type # "StreamOpened"
        BY <3>1, <3>2
      <3> HIDE DEF es, S
      <3> QED
        BY <1>0, <3>2, <3>3, StreamsQuietEvents
    <2>5. ASSUME NEW ok \in BOOLEAN, IdentifyReads(c, ok)
          PROVE  StreamInv' /\ StreamsNumbered'
      <3> DEFINE result == [type |-> "IdentifyResult", cid |-> c, ok |-> ok]
      <3>1. /\ Emit(<<result>>) /\ result.type # "StreamOpened"
            /\ ReleaseIdentifyStream(c)
            /\ UNCHANGED <<phase, ctrl_queue, connections_by_id>>
        BY <2>5, Zenon DEF IdentifyReads
      <3> HIDE DEF result
      <3>2. phase # "exited" => SameReports
        <4> SUFFICES ASSUME phase # "exited" PROVE SameReports
          OBVIOUS
        <4> DEFINE es == <<result>>  S == {result}
        <4>1. es \in Seq(S) /\ Emit(es) /\ {es[k] : k \in DOMAIN es} = {result}
          BY <3>1
        <4> HIDE DEF es, S
        <4>2. Queued' = Queued \cup {result}
          BY <4>1, QueuedGrows DEF TypeInv
        <4> QED
          BY <3>1, <4>2 DEF SameReports
      <3>3. phase = "exited" => SameReports
        BY <3>1 DEF Emit, SameReports, Queued
      <3> QED
        BY <3>1, <3>2, <3>3, StreamsIdentifyEnds
    <2>6. CASE StopIdentify(c)
      <3>1. SameReports
        BY <2>6 DEF StopIdentify, SameReports, Queued
      <3> QED
        BY <2>6, <3>1, StreamsIdentifyEnds DEF StopIdentify
    <2> QED
      BY <2>1, <2>2, <2>3, <2>4, <2>5, <2>6
  <1>7. CASE Environment
    <2>1. CASE \E p \in Peers : Accepted(p)
      BY <1>0, <2>1, StreamsQuietEvent DEF Accepted
    <2>2. CASE AcceptError
      BY <1>0, <2>2, StreamsQuietEvent DEF AcceptError
    <2>3. CASE \/ \E p \in Peers : ForgetAddrs(p)
               \/ \E c \in DOMAIN muxer : RemoteCloses(c) \/ CloseMuxer(c)
      BY <1>0, <2>3, StreamsQuiet DEF ForgetAddrs, RemoteCloses, CloseMuxer
    <2> QED
      BY <1>7, <2>1, <2>2, <2>3 DEF Environment
  <1>8. CASE OnEvent
    <2>1. ASSUME NEW type, TakeEvent(type), type # "StreamOpened",
                 UNCHANGED <<phase, streams, connections_by_id>>
          PROVE  StreamInv'
      <3>1. Event.type # "StreamOpened" /\ Queued' \subseteq Queued
               /\ Queued \ {Event} \subseteq Queued' /\ UNCHANGED ctrl_queue
        BY <2>1, QueuedShrinks DEF TypeInv, TakeEvent
      <3>2. SameReports /\ SameCommands
        BY <3>1 DEF SameReports, SameCommands, Commands
      <3> QED
        BY <2>1, <3>2, StreamsKept
    <2>2. CASE \/ handle_outgoing_connection_error \/ handle_incoming_connection_error
               \/ handle_stream_error \/ handle_identify_result
      BY <1>0, <2>1, <2>2 DEF handle_outgoing_connection_error, TakeCallback,
         handle_incoming_connection_error, handle_stream_error, handle_identify_result
    <2>3. CASE \/ handle_connection_opened \/ handle_connection_closed
               \/ handle_stream_opened
      <3>1. UNCHANGED streams
        BY <2>3 DEF handle_connection_opened, handle_connection_closed,
                    handle_stream_opened
      <3> QED
        BY <1>0, <2>3, <3>1, StreamsConnOpened, StreamsConnClosed, StreamsListed
    <2> QED
      BY <1>8, <2>2, <2>3 DEF OnEvent
  <1>9. CASE OnCommand
    <2>1. CASE on_connect \/ on_new_connection \/ on_new_stream
      <3>1. /\ \E types : TakeCmd(types)
            /\ UNCHANGED <<phase, event_queue, streams, connections_by_id>>
        BY <2>1 DEF on_connect, on_new_connection, on_new_stream, TakeCmd
      <3>2. Commands' \subseteq Commands
        BY <3>1, CommandsShrink DEF TypeInv
      <3>3. SameReports /\ SameCommands
        BY <3>1, <3>2 DEF SameReports, SameCommands, Queued
      <3> QED
        BY <1>0, <3>1, <3>3, StreamsKept
    <2>2. CASE on_close_connection
      <3>1. UNCHANGED streams
        BY <2>2 DEF on_close_connection
      <3> QED
        BY <1>0, <2>2, <3>1, StreamsDisconnect
    <2> QED
      BY <1>9, <2>1, <2>2, StreamsUnlisted DEF OnCommand
  <1>10. CASE MainLoopExits
    BY <1>0, <1>10 DEF MainLoopExits, StreamInv
  <1>11. CASE EventsPending \/ CommandsPending \/ MainLoopQuits \/ UNCHANGED vars
    BY <1>0, <1>11, StreamsQuiet DEF EventsPending, CommandsPending, MainLoopQuits, vars
  <1> QED
    BY <1>1, <1>2, <1>3, <1>4, <1>5, <1>6, <1>7, <1>8, <1>9, <1>10, <1>11, Zenon
    DEF Next, MainLoop

LEMMA StreamsInit == Init => StreamInv /\ StreamsNumbered
  <1> SUFFICES ASSUME Init PROVE StreamInv /\ StreamsNumbered
    OBVIOUS
  <1>1. DOMAIN streams = {} /\ DOMAIN connections_by_id = {}
    BY DEF Init, Empty
  <1>2. Cardinality(DOMAIN streams) = 0
    BY <1>1, FS_EmptySet
  <1>3. Queued = {} /\ Commands = {}
    BY DEF Init, Queued, Commands
  <1> QED
    BY <1>1, <1>2, <1>3 DEF StreamInv, StreamsNumbered

\* For all constants, a sub-stream somebody still uses is in the list of its
\* connection once its StreamOpened is handled, and no list has a sub-stream of
\* another connection: late opens and closes do not mix them up.
THEOREM SwarmLiveStreamIsListed == Spec => []LiveStreamIsListed
  <1>1. ASSUME StreamInv
        PROVE  LiveStreamIsListed
    <2>1. \A s : OpenReported(s) => ~\E e \in Queued : OpenedReport(e, s)
      BY DEF OpenReported, Queued, OpenedReport
    <2> QED
      BY <1>1, <2>1 DEF StreamInv, LiveStreamIsListed, Live
  <1> QED
    BY <1>1, TypedInit, TypedNext, StreamsInit, StreamsNext, PTL DEF Spec
=============================================================================
