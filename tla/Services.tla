------------------------------ MODULE Services ------------------------------
(***************************************************************************)
(* The parts that stand on their own beside the swarm's main loop: how a   *)
(* connection is upgraded, secured and encrypted before the swarm sees it, *)
(* and the protocols that then run over it.  A behaviour is one of one of  *)
(* them, chosen at the start; the variables of the others stay 0.          *)
(* Variables of the same name are shared.                                  *)
(***************************************************************************)
EXTENDS Integers, Sequences, FiniteSets

CONSTANTS
    Conns, ForeignSets, Names, NameLen, Slash, DialSec, DialMux, ListenSec, ListenMux,
    BadPeer, Limit, Buffer, TimedDial, TimedAccept, MaxListens, ForeignNames, MaxFrames,
    Keys, Configs, MaxCorrupt,
    MAX_FRAME_LEN, Tag, Room, MaxBytes, MaxWrite,
    Jobs, Mixes, Request, Responses, Large, max_reuse_count, read_timeout, MaxLosses,
    Peers, Topics, Subs, SubTopic, Msgs, Ours, Source, MsgTopics, subscribe_local_messages,
    Self, MaxConns, MaxEvents,
    max_transmit_size, Published, Subscriptions, Controls, Foreign, max_subscribed_topics,
    max_subscriptions_per_request, whitelist, MaxItems, NONE,
    max_failures, limit, listened_addrs, Observed, IsIp(_), MaxPings, MaxReports,
    BookPeers, Addrs, Ttls, ADDRESS_TTL, MaxTime, MaxCalls, MaxStarts

\* The bounds of the encrypted stream are numbers, and a frame holds something.
ASSUME StreamBounds ==
    /\ MAX_FRAME_LEN \in Nat \ {0} /\ Tag \in Nat
    /\ Room \in Nat /\ MaxBytes \in Nat /\ MaxWrite \in Nat

\* An end's identity key is a key, and no damage makes one of the two words that
\* stand for no key and for a damaged id.
ASSUME SecureKeys == (\A c \in Configs : c.key \in Keys) /\ Keys \intersect {"none", "ex"} = {}

\* Times to live are durations.
ASSUME BookTimes == Ttls \subseteq Nat /\ ADDRESS_TTL \in Nat

VARIABLES
    which,   \* the part
    wire, events, sent, kind, received, topics,   \* shared
    end, listener, accepting, foreign,
    config, hash, ctx, gone, corrupted,
    written, send_buffer, frames, ws, want, asked, closed, rs, recv_buffer,
    job, cache, streams, posted, reqs, phantom, reply, losses,
    connected_peers, my_topics, peer_rx, incoming_rx, cancel_rx, writers, conns,
    running, handle, got, published, heard, owed,
    authenticity, validation_mode, inline_key, rpc, alive, messages, invalid_messages,
    subscriptions, control_msgs, forwarded,
    up, table, flag, ping, echo, push, stopper, latency, echoed, streak, registry,
    reports,
    store, file, phase, copy, ident, now, calls, starts, until, safe, atExit

upgradeVars == <<end, listener, accepting, foreign>>
handshakeVars == <<config, hash, ctx, gone, corrupted>>
streamVars == <<written, send_buffer, frames, ws, want, asked, closed, rs, recv_buffer>>
kadVars == <<job, cache, streams, posted, reqs, phantom, reply, losses>>
floodsubVars == <<connected_peers, my_topics, peer_rx, incoming_rx, cancel_rx,
                  writers, conns, running, handle, got, published, heard, owed>>
gossipVars == <<authenticity, validation_mode, inline_key, rpc, alive, messages,
                invalid_messages, subscriptions, control_msgs, forwarded>>
connVars == <<up, table, flag, ping, echo, push, stopper, latency, echoed, streak,
              registry, reports>>
bookVars == <<store, file, phase, copy, ident, now, calls, starts, until, safe, atExit>>

all == <<which, wire, events, sent, kind, received, topics,
         upgradeVars, handshakeVars, streamVars, kadVars, floodsubVars, gossipVars,
         connVars, bookVars>>

U == INSTANCE Upgrade
H == INSTANCE SecureHandshake
S == INSTANCE SecureStream
K == INSTANCE KadStream
F == INSTANCE Floodsub
G == INSTANCE GossipRpc
C == INSTANCE ConnServices
B == INSTANCE AddressBook WITH Peers <- BookPeers

\* What this implementation asks and answers with: the fields of each type, and peers
\* whose addresses parse.
IsRequest(m) ==
  \/ m.type \in {"FindNode", "GetProviders", "GetValue"} /\ m = [type |-> m.type, key |-> m.key]
  \/ /\ m.type = "AddProvider" /\ m = [type |-> "AddProvider", key |-> m.key, provider |-> m.provider]
     /\ K!Valid(<<m.provider>>) = <<m.provider>>
  \/ m.type = "PutValue" /\ m = [type |-> "PutValue", record |-> K!record_to_proto(m.record)]
  \/ m = [type |-> "Ping"]
IsAnswer(m) ==
  \/ m.type = "FindNode" /\ m = [type |-> "FindNode", closer |-> K!Valid(m.closer)]
  \/ /\ m.type = "GetProviders"
     /\ m = [type |-> "GetProviders", closer |-> K!Valid(m.closer), providers |-> K!Valid(m.providers)]
  \/ /\ m.type = "GetValue"
     /\ m = [type |-> "GetValue", closer |-> K!Valid(m.closer),
              record |-> IF m.record = <<>> THEN <<>> ELSE <<K!record_to_proto(m.record[1])>>]
  \/ m.type = "PutValue" /\ m = [type |-> "PutValue", key |-> m.key, value |-> m.value]
  \/ m = [type |-> "Pong"]

\* No two jobs ask the same, so that answers can be told apart, and an AddProvider has
\* no answer.
ASSUME KadMessages ==
  /\ \A i, j \in Jobs : Request[i] = Request[j] => i = j
  /\ \A j \in Jobs : IsRequest(Request[j])
  /\ \A j \in Jobs : \A r \in Responses[Request[j]] : IsAnswer(r) /\ Request[j].type # "AddProvider"

------------------------------------------------------------------------------
\* The parts that do not run.
upgradeOff ==
  /\ end = 0 /\ listener = 0 /\ accepting = 0 /\ foreign = 0
handshakeOff ==
  /\ config = 0 /\ hash = 0 /\ ctx = 0 /\ gone = 0 /\ corrupted = 0
streamOff ==
  /\ written = 0 /\ send_buffer = 0 /\ frames = 0 /\ ws = 0 /\ want = 0 /\ asked = 0
  /\ closed = 0 /\ rs = 0 /\ recv_buffer = 0
kadOff ==
  /\ job = 0 /\ cache = 0 /\ streams = 0 /\ posted = 0 /\ reqs = 0 /\ phantom = 0
  /\ reply = 0 /\ losses = 0
floodsubOff ==
  /\ connected_peers = 0 /\ my_topics = 0 /\ peer_rx = 0 /\ incoming_rx = 0
  /\ cancel_rx = 0 /\ writers = 0 /\ conns = 0 /\ running = 0 /\ handle = 0 /\ got = 0
  /\ published = 0 /\ heard = 0 /\ owed = 0
gossipOff ==
  /\ authenticity = 0 /\ validation_mode = 0 /\ inline_key = 0 /\ rpc = 0 /\ alive = 0
  /\ messages = 0 /\ invalid_messages = 0 /\ subscriptions = 0 /\ control_msgs = 0
  /\ forwarded = 0
connOff ==
  /\ up = 0 /\ table = 0 /\ flag = 0 /\ ping = 0 /\ echo = 0 /\ push = 0
  /\ stopper = 0 /\ latency = 0 /\ echoed = 0 /\ streak = 0 /\ registry = 0
  /\ reports = 0
bookOff ==
  /\ store = 0 /\ file = 0 /\ phase = 0 /\ copy = 0 /\ ident = 0 /\ now = 0
  /\ calls = 0 /\ starts = 0 /\ until = 0 /\ safe = 0 /\ atExit = 0

Init ==
  \/ /\ which = "upgrade" /\ U!Init
     /\ handshakeOff /\ streamOff /\ kadOff /\ floodsubOff /\ gossipOff /\ connOff
     /\ bookOff /\ kind = 0 /\ received = 0 /\ topics = 0
  \/ /\ which = "handshake" /\ H!Init
     /\ upgradeOff /\ streamOff /\ kadOff /\ floodsubOff /\ gossipOff /\ connOff
     /\ bookOff /\ events = 0 /\ sent = 0 /\ received = 0 /\ topics = 0
  \/ /\ which = "stream" /\ S!Init
     /\ upgradeOff /\ handshakeOff /\ kadOff /\ floodsubOff /\ gossipOff /\ connOff
     /\ bookOff /\ events = 0 /\ sent = 0 /\ topics = 0
  \/ /\ which = "kad" /\ K!Init
     /\ upgradeOff /\ handshakeOff /\ streamOff /\ floodsubOff /\ gossipOff /\ connOff
     /\ bookOff /\ wire = 0 /\ events = 0 /\ sent = 0 /\ kind = 0 /\ received = 0
     /\ topics = 0
  \/ /\ which = "floodsub" /\ F!Init
     /\ upgradeOff /\ handshakeOff /\ streamOff /\ kadOff /\ gossipOff /\ connOff
     /\ bookOff /\ wire = 0 /\ sent = 0 /\ kind = 0 /\ received = 0
  \/ /\ which = "gossip" /\ G!Init
     /\ upgradeOff /\ handshakeOff /\ streamOff /\ kadOff /\ floodsubOff /\ connOff
     /\ bookOff /\ events = 0 /\ kind = 0 /\ received = 0
  \/ /\ which = "conn" /\ C!Init
     /\ upgradeOff /\ handshakeOff /\ streamOff /\ kadOff /\ floodsubOff /\ gossipOff
     /\ bookOff /\ wire = 0 /\ sent = 0 /\ kind = 0 /\ topics = 0
  \/ /\ which = "book" /\ B!Init
     /\ upgradeOff /\ handshakeOff /\ streamOff /\ kadOff /\ floodsubOff /\ gossipOff
     /\ connOff /\ wire = 0 /\ events = 0 /\ sent = 0 /\ kind = 0 /\ received = 0
     /\ topics = 0

UpgradeAlone ==
  /\ which = "upgrade"
  /\ UNCHANGED <<which, handshakeVars, streamVars, kadVars, floodsubVars, gossipVars,
                 connVars, bookVars, kind, received, topics>>
HandshakeAlone ==
  /\ which = "handshake"
  /\ UNCHANGED <<which, upgradeVars, streamVars, kadVars, floodsubVars, gossipVars,
                 connVars, bookVars, events, sent, received, topics>>
StreamAlone ==
  /\ which = "stream"
  /\ UNCHANGED <<which, upgradeVars, handshakeVars, kadVars, floodsubVars, gossipVars,
                 connVars, bookVars, events, sent, topics>>
KadAlone ==
  /\ which = "kad"
  /\ UNCHANGED <<which, upgradeVars, handshakeVars, streamVars, floodsubVars, gossipVars,
                 connVars, bookVars, wire, events, sent, kind, received, topics>>
FloodsubAlone ==
  /\ which = "floodsub"
  /\ UNCHANGED <<which, upgradeVars, handshakeVars, streamVars, kadVars, gossipVars,
                 connVars, bookVars, wire, sent, kind, received>>
GossipAlone ==
  /\ which = "gossip"
  /\ UNCHANGED <<which, upgradeVars, handshakeVars, streamVars, kadVars, floodsubVars,
                 connVars, bookVars, events, kind, received>>
ConnAlone ==
  /\ which = "conn"
  /\ UNCHANGED <<which, upgradeVars, handshakeVars, streamVars, kadVars, floodsubVars,
                 gossipVars, bookVars, wire, sent, kind, topics>>
BookAlone ==
  /\ which = "book"
  /\ UNCHANGED <<which, upgradeVars, handshakeVars, streamVars, kadVars, floodsubVars,
                 gossipVars, connVars, wire, events, sent, kind, received, topics>>

Next ==
  \/ UpgradeAlone /\ U!Next
  \/ HandshakeAlone /\ H!Next
  \/ StreamAlone /\ S!Next
  \/ KadAlone /\ K!Next
  \/ FloodsubAlone /\ F!Next
  \/ GossipAlone /\ G!Next
  \/ ConnAlone /\ C!Next
  \/ BookAlone /\ B!Next

\* The fairness of each part, for the behaviours that are its own.
Fairness ==
  /\ \A c \in Conns : /\ WF_all(UpgradeAlone /\ U!DialerStep(c))
                      /\ SF_all(UpgradeAlone /\ U!ListenerStep(c))
  /\ WF_all(UpgradeAlone /\ U!accept)
  /\ SF_all(UpgradeAlone /\ U!accept_incoming)
  /\ \A s \in H!Sides : WF_all(HandshakeAlone /\ H!Step(s))
  /\ WF_all(StreamAlone /\ S!flush_frame)
  /\ WF_all(StreamAlone /\ S!flushed)
  /\ WF_all(StreamAlone /\ S!IoWrite)
  /\ WF_all(StreamAlone /\ S!IoRead)
  /\ WF_all(StreamAlone /\ S!read_eof)
  /\ WF_all(StreamAlone /\ S!PollRead)
  /\ \A j \in Jobs : WF_all(KadAlone /\ K!JobStep(j))
  /\ \A s \in 1..Cardinality(Jobs) : WF_all(KadAlone /\ s \in DOMAIN streams /\ K!handle(s))
  /\ WF_all(KadAlone /\ K!answer)
  /\ WF_all(FloodsubAlone /\ F!LoopStep)
  /\ \A k \in 1..MaxConns : WF_all(FloodsubAlone /\ k \in DOMAIN writers /\ F!TaskStep(k))
  /\ WF_all(ConnAlone /\ C!PingStep)
  /\ WF_all(ConnAlone /\ C!PushStep)
  /\ WF_all(ConnAlone /\ C!handle_event)
  /\ WF_all(ConnAlone /\ (C!stop_ping \/ C!stop_identify_push))

Spec == Init /\ [][Next]_all /\ Fairness

------------------------------------------------------------------------------
\* What an upgrade of a connection (multistream-select, core's transport/upgrade.rs) settles on
\* is what both ends run, layer by layer, and the listener hears of each of its upgrades once.
UpgradeSafe == which = "upgrade" => U!SameProtocol /\ U!LayersSeparate /\ U!EachUpgradeReported

\* What a secure channel (noise, secio, plaintext) promises: the handshake ends with the peer
\* that holds the key and with the same ciphers on both sides, or with an error; the stream
\* then hands over the bytes that were written, in order, and its end only after all of them.
SecureSafe ==
  /\ which = "handshake" => H!PeerIsKnown /\ H!EndsAgree
  /\ which = "stream" => S!InOrder /\ S!EofMeansAll

\* Over a stream that several jobs of a Kademlia messenger used one after the other, with
\* requests that nobody answers, timeouts and late answers, each job gets its own answer and
\* the server sees the requests that were sent.
KadAnswers == which = "kad" => K!OwnAnswer /\ K!OnlyRequests


\* What the node learns from its connections is true and is kept: ping and identify report
\* what happened on their substreams, the registry of observed addresses counts the reports
\* that name them, and the peer store keeps an address for the time it was added for, across
\* collections, pins and restarts.
ConnSafe ==
  /\ which = "conn" => C!PingIsTruthful /\ C!RegistryCounts
  /\ which = "book" => B!AddrsHeld

==============================================================================
