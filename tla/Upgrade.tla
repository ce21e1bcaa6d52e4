------------------------------- MODULE Upgrade -------------------------------
(***************************************************************************)
(* Setting up a connection: the in-memory transport (core/transport/       *)
(* memory.rs), the timeout wrapper (timeout.rs), the transport upgrade     *)
(* (transport/upgrade.rs) and multistream-select (core/multistream), which *)
(* both ends run twice on a socket, first for the security layer ("sec")   *)
(* and then, over the secured socket, for the stream muxer ("mux").        *)
(*                                                                         *)
(* A connection c is one dial call.  end[c]["d"] is the dialer's future,   *)
(* end[c]["l"] the upgrade future ListenerUpgrade keeps for the accepted   *)
(* socket; wire[c][s] holds the frames on their way to end s.  A frame is  *)
(* tagged with the layer that wrote it: an end at another layer cannot     *)
(* make sense of it.  Ends listed in foreign are other implementations:    *)
(* they send what they like, or nothing; Init picks them.                  *)
(***************************************************************************)
EXTENDS Integers, Sequences, FiniteSets, Lists

CONSTANTS Conns,        \* the dial calls
          ForeignSets,  \* which ends may be other implementations
          Names,        \* protocol names
          NameLen,      \* length of a name in bytes
          Slash,        \* the names that begin with "/"
          DialSec, DialMux,     \* per connection <<A, B>>: a Selector's halves
          ListenSec, ListenMux, \* <<A, B>>: the listener's
          BadPeer,      \* connections whose security handshake fails
          Limit,        \* ListenerUpgrade.limit
          Buffer,       \* capacity of the memory transport's channel
          TimedDial, TimedAccept,   \* is the transport wrapped in a timeout?
          MaxListens,   \* bound on listen_on calls
          ForeignNames, \* the names foreign ends propose
          MaxFrames     \* bound on the frames foreign ends send

MAX_PROTOCOL_LEN == 140
MAX_PROTOCOLS == 1000

Sides == {"d", "l"}
Other(s) == IF s = "d" THEN "l" ELSE "d"

VARIABLES end,        \* [Conns -> [Sides -> the state of that end's future]]
          wire,       \* [Conns -> [Sides -> [q: frames to that end, eof: no more]]]
          listener,   \* HUB entry: [open, gen, q]: q channels not yet accepted
          accepting,  \* is ListenerUpgrade::accept being polled?
          events,     \* what accept has returned: [Conns -> Seq of outcomes]
          foreign,    \* <<c, s>>: end s of c is another implementation
          sent        \* frames sent by foreign ends

vars == <<end, wire, listener, accepting, events, foreign, sent>>

------------------------------------------------------------------------------
(* Protocols and messages.                                                  *)

Info == [half : {"A", "B"}, name : Names]

\* Selector::protocol_info: the first upgrader's protocols come first.
protocol_info(sel) ==
  [i \in DOMAIN sel[1] |-> [half |-> "A", name |-> sel[1][i]]] \o
  [i \in DOMAIN sel[2] |-> [half |-> "B", name |-> sel[2][i]]]

Protocol_try_from(n) == n \in Slash /\ NameLen[n] <= MAX_PROTOCOL_LEN

\* Negotiator::new_with_protocols drops the names that are not valid.
new_with_protocols(infos) ==
  SelectSeq(infos, LAMBDA i : Protocol_try_from(i.name))

Offers(c, s, layer) ==
  new_with_protocols(protocol_info(
    IF s = "d" THEN (IF layer = "sec" THEN DialSec[c] ELSE DialMux[c])
               ELSE (IF layer = "sec" THEN ListenSec ELSE ListenMux)))

Frame(layer, m, ns) == [layer |-> layer, m |-> m, ns |-> ns]

\* Message::decode of an encoded message: a name is followed by "\n" and what
\* is longer than MAX_PROTOCOL_LEN is read as a list, which it is not.
decode(f, layer) ==
  IF \/ f.layer # layer
     \/ f.m = "protocol" /\ ~(f.ns[1] \in Slash /\ NameLen[f.ns[1]] + 1 <= MAX_PROTOCOL_LEN)
     \/ f.m = "protocols" /\ ~(Len(f.ns) <= MAX_PROTOCOLS
                                 /\ \A i \in DOMAIN f.ns : Protocol_try_from(f.ns[i]))
  THEN [f EXCEPT !.m = "invalid"] ELSE f

\* The message end s of c reads next (MessageIO::recv_message), "eof" when the
\* other end is gone and all it sent has been read.
CanRecv(c, s) == wire[c][s].q # <<>> \/ wire[c][s].eof
recv_message(c, s) ==
  IF wire[c][s].q = <<>> THEN Frame(end[c][s].layer, "eof", <<>>)
  ELSE decode(Head(wire[c][s].q), end[c][s].layer)

\* End s of c has read a message and writes ms (send_message); a frame to an
\* end that is gone is lost.
Exchange(c, s, ms) ==
  wire' = [wire EXCEPT ![c][s].q = Tail(@),
                       ![c][Other(s)].q = IF wire[c][s].eof THEN @ ELSE @ \o ms]

\* End s drops its socket: the peer reads what is under way, then end of file.
Hangup(c, s) ==
  wire' = [wire EXCEPT ![c][s] = [q |-> <<>>, eof |-> TRUE], ![c][Other(s)].eof = TRUE]

------------------------------------------------------------------------------
(* The dialer: MemoryTransport::dial, TransportUpgrade::dial, select_one.   *)

Idle == [pc |-> "idle", layer |-> "sec", opts |-> <<>>, sel |-> <<>>, gen |-> 0]

Init ==
  /\ foreign \in ForeignSets
  /\ end = [c \in Conns |-> [s \in Sides |->
              IF s = "l" /\ <<c, s>> \in foreign THEN [Idle EXCEPT !.pc = "foreign"] ELSE Idle]]
  /\ wire = [c \in Conns |-> [s \in Sides |-> [q |-> <<>>, eof |-> FALSE]]]
  /\ listener = [open |-> FALSE, gen |-> 0, q |-> <<>>]
  /\ accepting = FALSE
  /\ events = [c \in Conns |-> <<>>]
  /\ sent = 0

\* Does c go to another implementation's listener, which is not in our HUB?
Elsewhere(c) == <<c, "l">> \in foreign

\* The sender is cloned under the HUB's lock, or the dial fails: Unreachable.
dial(c) ==
  /\ end[c]["d"].pc = "idle"
  /\ end' = [end EXCEPT ![c]["d"].pc = IF listener.open \/ Elsewhere(c) THEN "sender" ELSE "failed",
                        ![c]["d"].gen = listener.gen]
  /\ UNCHANGED <<wire, listener, accepting, events, foreign, sent>>

\* The socket is there: sec.select_outbound begins with the header.
Begin(e, c, layer) ==
  [e EXCEPT !.pc = "header", !.layer = layer, !.opts = Offers(c, "d", layer)]

Opening(c, layer) ==
  IF <<c, "d">> \in foreign THEN <<>> ELSE <<Frame(layer, "header", <<>>)>>

Connected(c) ==
  /\ end' = [end EXCEPT ![c]["d"] = Begin(@, c, "sec")]
  /\ wire' = [wire EXCEPT ![c]["l"].q = IF wire[c]["d"].eof THEN @
                                         ELSE @ \o Opening(c, "sec")]

\* The channel goes to the listener the sender was cloned from, if it is still
\* there; the dial waits while the queue is over its capacity.
dial_send(c) ==
  /\ end[c]["d"].pc = "sender"
  /\ LET there == listener.open /\ listener.gen = end[c]["d"].gen
         full  == Len(listener.q) >= Buffer IN
     /\ listener' = IF there /\ ~Elsewhere(c) THEN [listener EXCEPT !.q = Append(@, c)] ELSE listener
     /\ IF (there /\ ~full) \/ Elsewhere(c) THEN Connected(c)
        ELSE /\ end' = [end EXCEPT ![c]["d"].pc = IF there THEN "parked" ELSE "failed"]
             /\ UNCHANGED wire
  /\ UNCHANGED <<accepting, events, foreign, sent>>

\* The queue has room again, or the listener is gone: the send has ended.
dial_sent(c) ==
  /\ end[c]["d"].pc = "parked"
  /\ \/ wire[c]["d"].eof
     \/ c \notin { listener.q[i] : i \in (Buffer + 1)..Len(listener.q) }
  /\ Connected(c)
  /\ UNCHANGED <<listener, accepting, events, foreign, sent>>

Native(c, s) == <<c, s>> \notin foreign

Reads(c, s, pcs) == Native(c, s) /\ end[c][s].pc \in pcs /\ CanRecv(c, s)

DialerFails(c, pc) ==
  /\ end' = [end EXCEPT ![c]["d"].pc = pc]
  /\ Hangup(c, "d")

\* The next proposal, or the socket is closed: no protocol could be agreed on.
Propose(c, opts) ==
  IF opts = <<>> THEN DialerFails(c, "failed")
  ELSE /\ end' = [end EXCEPT ![c]["d"].pc = "reply", ![c]["d"].opts = opts]
       /\ Exchange(c, "d", <<Frame(end[c]["d"].layer, "protocol", <<opts[1].name>>)>>)

select_one_header(c) ==
  /\ Reads(c, "d", {"header"})
  /\ recv_message(c, "d").m = "header"
  /\ Propose(c, end[c]["d"].opts)
  /\ UNCHANGED <<listener, accepting, events, foreign, sent>>

select_one_rejected(c) ==
  /\ Reads(c, "d", {"reply"})
  /\ recv_message(c, "d").m = "na"
  /\ Propose(c, Tail(end[c]["d"].opts))
  /\ UNCHANGED <<listener, accepting, events, foreign, sent>>

\* Confirmed: upgrade_outbound runs the security handshake, whose first message
\* is the dialer's; a muxer needs none.
Confirms(c) == LET f == recv_message(c, "d") IN
  f.m = "protocol" /\ f.ns[1] = end[c]["d"].opts[1].name

select_one_confirmed(c) ==
  /\ Reads(c, "d", {"reply"})
  /\ Confirms(c)
  /\ LET e == end[c]["d"] IN
     /\ end' = [end EXCEPT ![c]["d"].sel = Append(@, e.opts[1]),
                           ![c]["d"].pc = IF e.layer = "sec" THEN "handshake" ELSE "done"]
     /\ Exchange(c, "d", IF e.layer = "sec" THEN <<Frame("sec", "handshake", <<e.opts[1].name>>)>>
                         ELSE <<>>)
  /\ UNCHANGED <<listener, accepting, events, foreign, sent>>

\* Anything else, the end of the stream included, is an error.
select_one_invalid(c) ==
  /\ Reads(c, "d", {"header", "reply"})
  /\ LET m == recv_message(c, "d").m IN
     IF end[c]["d"].pc = "header" THEN m # "header" ELSE m # "na" /\ ~Confirms(c)
  /\ DialerFails(c, "failed")
  /\ UNCHANGED <<listener, accepting, events, foreign, sent>>

\* The answer to the handshake of the half of the Selector that was chosen: the
\* muxer is negotiated next, over the secured socket.
upgrade_outbound(c) ==
  /\ Reads(c, "d", {"handshake"})
  /\ LET f == recv_message(c, "d") IN
     IF f.m = "handshake" /\ f.ns[1] = Last(end[c]["d"].sel).name /\ c \notin BadPeer
     THEN /\ end' = [end EXCEPT ![c]["d"] = Begin(@, c, "mux")]
          /\ Exchange(c, "d", <<Frame("mux", "header", <<>>)>>)
     ELSE DialerFails(c, "failed")
  /\ UNCHANGED <<listener, accepting, events, foreign, sent>>

\* TransportTimeout::dial: the future is dropped wherever it is.
dial_timeout(c) ==
  /\ TimedDial
  /\ end[c]["d"].pc \notin {"idle", "done", "failed", "timeout"}
  /\ DialerFails(c, "timeout")
  /\ UNCHANGED <<listener, accepting, events, foreign, sent>>

------------------------------------------------------------------------------
(* The listener: MemoryTransport's Listener, ListenerUpgrade, negotiate.    *)

\* The upgrade futures of the accepted sockets (FuturesUnordered).
futures == { c \in Conns : end[c]["l"].pc \in {"header", "loop", "handshake"} }

listen_on ==
  /\ ~listener.open /\ listener.gen < MaxListens
  /\ listener' = [open |-> TRUE, gen |-> listener.gen + 1, q |-> <<>>]
  /\ UNCHANGED <<end, wire, accepting, events, foreign, sent>>

\* The owner calls accept again once it has dealt with the last event.
accept ==
  /\ listener.open /\ ~accepting
  /\ accepting' = TRUE
  /\ UNCHANGED <<end, wire, listener, events, foreign, sent>>

\* The inner accept is polled only below the limit; the socket's upgrade joins
\* the futures and accept goes round its loop.
accept_incoming ==
  /\ accepting /\ listener.q # <<>>
  /\ Cardinality(futures) < Limit
  /\ listener' = [listener EXCEPT !.q = Tail(@)]
  /\ end' = [end EXCEPT ![Head(listener.q)]["l"] = [@ EXCEPT !.pc = "header"]]
  /\ UNCHANGED <<wire, accepting, events, foreign, sent>>

\* The futures make progress only while accept is polled.
Polled(c, pcs) == accepting /\ Reads(c, "l", pcs)

\* An upgrade has ended: its result is accept's.
Returns(c, pc) ==
  /\ accepting' = FALSE
  /\ events' = [events EXCEPT ![c] = Append(@, pc)]

\* Seeded fault: a failed upgrade is dropped and accept goes round its loop.
UpgradeFails_Silent(c) ==
  /\ end' = [end EXCEPT ![c]["l"].pc = "failed"]
  /\ Hangup(c, "l")
  /\ UNCHANGED <<accepting, events>>


UpgradeFails(c) ==
  /\ end' = [end EXCEPT ![c]["l"].pc = "failed"]
  /\ Hangup(c, "l")
  /\ Returns(c, "failed")

Stays == UNCHANGED <<accepting, events>>

negotiate_header(c) ==
  /\ Polled(c, {"header"})
  /\ IF recv_message(c, "l").m = "header"
     THEN /\ end' = [end EXCEPT ![c]["l"].pc = "loop"]
          /\ Exchange(c, "l", <<Frame(end[c]["l"].layer, "header", <<>>)>>)
          /\ Stays
     ELSE UpgradeFails(c)
  /\ UNCHANGED <<listener, foreign, sent>>

negotiate_list(c) ==
  /\ Polled(c, {"loop"})
  /\ recv_message(c, "l").m = "ls"
  /\ LET e == end[c]["l"]
         offers == Offers(c, "l", e.layer) IN
     Exchange(c, "l", <<Frame(e.layer, "protocols", [i \in DOMAIN offers |-> offers[i].name])>>)
  /\ Stays
  /\ UNCHANGED <<end, listener, foreign, sent>>

\* A proposal is confirmed with the first entry of that name, or refused.
negotiate_protocol(c) ==
  /\ Polled(c, {"loop"})
  /\ recv_message(c, "l").m = "protocol"
  /\ LET e == end[c]["l"]
         name == recv_message(c, "l").ns[1]
         offers == SelectSeq(Offers(c, "l", e.layer), LAMBDA i : i.name = name) IN
     IF offers = <<>>
     THEN /\ Exchange(c, "l", <<Frame(e.layer, "na", <<>>)>>)
          /\ Stays /\ UNCHANGED end
     ELSE /\ Exchange(c, "l", <<Frame(e.layer, "protocol", <<name>>)>>)
          /\ end' = [end EXCEPT ![c]["l"].sel = Append(@, offers[1]),
                                ![c]["l"].pc = IF e.layer = "sec" THEN "handshake" ELSE "done"]
          /\ IF e.layer = "sec" THEN Stays ELSE Returns(c, "accepted")
  /\ UNCHANGED <<listener, foreign, sent>>

negotiate_invalid(c) ==
  /\ Polled(c, {"loop"})
  /\ recv_message(c, "l").m \notin {"ls", "protocol"}
  /\ UpgradeFails(c)
  /\ UNCHANGED <<listener, foreign, sent>>

upgrade_inbound(c) ==
  /\ Polled(c, {"handshake"})
  /\ LET f == recv_message(c, "l")
         name == Last(end[c]["l"].sel).name IN
     IF f.m = "handshake" /\ f.ns[1] = name /\ c \notin BadPeer
     THEN /\ end' = [end EXCEPT ![c]["l"].pc = "header", ![c]["l"].layer = "mux"]
          /\ Exchange(c, "l", <<Frame("sec", "handshake", <<name>>)>>)
          /\ Stays
     ELSE UpgradeFails(c)
  /\ UNCHANGED <<listener, foreign, sent>>

\* TimeoutListener::accept: the call is given up; the upgrades stay where they are.
accept_timeout ==
  /\ TimedAccept /\ accepting
  /\ accepting' = FALSE
  /\ UNCHANGED <<end, wire, listener, events, foreign, sent>>

\* The listener is dropped, with its upgrades and the channels not accepted yet.
drop_listener ==
  /\ listener.open /\ ~accepting
  /\ LET lost == futures \union { listener.q[i] : i \in DOMAIN listener.q } IN
     /\ end' = [c \in Conns |->
                  IF c \in lost THEN [end[c] EXCEPT !["l"].pc = "dropped"] ELSE end[c]]
     /\ wire' = [c \in Conns |->
                   IF c \in lost THEN [wire[c] EXCEPT !["d"].eof = TRUE, !["l"] = [q |-> <<>>, eof |-> TRUE]]
                   ELSE wire[c]]
  /\ listener' = [listener EXCEPT !.open = FALSE, !.q = <<>>]
  /\ UNCHANGED <<accepting, events, foreign, sent>>

------------------------------------------------------------------------------
(* Other implementations at the far end.                                    *)

ForeignFrames(c, s) ==
  { Frame(l, m, <<>>) : l \in {end[c][Other(s)].layer}, m \in {"header", "na", "ls"} } \union
  { Frame(end[c][Other(s)].layer, "protocol", <<n>>) : n \in ForeignNames } \union
  { Frame("sec", "handshake", <<n>>) : n \in ForeignNames }

\* A foreign end sends a message or hangs up, at any time.
ForeignStep(c, s) ==
  /\ <<c, s>> \in foreign /\ sent < MaxFrames /\ ~wire[c][Other(s)].eof
  /\ end[c][s].pc # "idle" /\ end[c][s].pc \notin {"sender", "parked"}
  /\ sent' = sent + 1
  /\ \/ \E f \in ForeignFrames(c, s) :
          /\ wire' = [wire EXCEPT ![c][Other(s)].q = Append(@, f), ![c][s].q = <<>>]
          /\ UNCHANGED end
     \/ /\ Hangup(c, s)
        /\ end' = [end EXCEPT ![c][s].pc = "failed"]
  /\ UNCHANGED <<listener, accepting, events, foreign>>

------------------------------------------------------------------------------
DialerStep(c) ==
  \/ dial_send(c) \/ dial_sent(c)
  \/ select_one_header(c) \/ select_one_rejected(c) \/ select_one_confirmed(c)
  \/ select_one_invalid(c) \/ upgrade_outbound(c)

ListenerStep(c) ==
  \/ negotiate_header(c) \/ negotiate_list(c) \/ negotiate_protocol(c)
  \/ negotiate_invalid(c) \/ upgrade_inbound(c)

Next ==
  \/ listen_on \/ accept \/ accept_incoming \/ accept_timeout \/ drop_listener
  \/ \E c \in Conns : \/ dial(c) \/ DialerStep(c) \/ ListenerStep(c) \/ dial_timeout(c)
                      \/ \E s \in Sides : ForeignStep(c, s)

\* The executor polls every task that can run: a dial goes on, the owner of the
\* listener calls accept again, and an accept that is polled takes what is ready.
Fairness ==
  /\ \A c \in Conns : WF_vars(DialerStep(c)) /\ SF_vars(ListenerStep(c))
  /\ WF_vars(accept) /\ SF_vars(accept_incoming)

Spec == Init /\ [][Next]_vars /\ Fairness

------------------------------------------------------------------------------
TypeOK ==
  /\ \A c \in Conns, s \in Sides :
       /\ end[c][s].pc \in {"idle", "sender", "parked", "header", "reply", "loop", "handshake",
                            "done", "failed", "timeout", "dropped", "foreign"}
       /\ end[c][s].layer \in {"sec", "mux"}
       /\ end[c][s].opts \in Seq(Info) /\ end[c][s].sel \in Seq(Info)
       /\ wire[c][s].eof \in BOOLEAN
  /\ listener.open \in BOOLEAN /\ listener.gen \in 0..MaxListens
  /\ accepting \in BOOLEAN /\ sent \in 0..MaxFrames

BothNative(c) == Native(c, "d") /\ Native(c, "l")

\* The names end s can really agree on at a layer: valid, and still readable
\* with the newline that follows them on the wire.
Negotiable(c, s, layer) ==
  { i.name : i \in { j \in ToSet(Offers(c, s, layer)) : NameLen[j.name] < MAX_PROTOCOL_LEN } }

LayerOf(i) == IF i = 1 THEN "sec" ELSE "mux"

\* What the dialer has chosen at a layer the listener has chosen too, under the
\* same name: the first of the dialer's protocols that both can agree on
\* (negotiator.rs, select_one and negotiate).
SameProtocol == \A c \in Conns : BothNative(c) =>
  LET d == end[c]["d"].sel
      l == end[c]["l"].sel IN
  /\ Len(d) <= Len(l) /\ Len(l) <= Len(d) + 1
  /\ \A i \in DOMAIN d :
       LET offers == Offers(c, "d", LayerOf(i))
           common == Negotiable(c, "d", LayerOf(i)) \intersect Negotiable(c, "l", LayerOf(i)) IN
       /\ d[i].name = l[i].name /\ d[i].name \in common
       /\ \A k \in DOMAIN offers : offers[k] = d[i] =>
            \A j \in 1..(k - 1) : offers[j].name \notin common

\* The negotiator hands the socket over with nothing of its own left on it: the
\* next frame an end reads was written by the same layer of the peer
\* (into_inner, and read_exact in length_delimited.rs).
LayersSeparate == \A c \in Conns, s \in Sides :
  (BothNative(c) /\ end[c][s].pc \in {"header", "reply", "loop", "handshake"}
     /\ wire[c][s].q # <<>>) => Head(wire[c][s].q).layer = end[c][s].layer

\* accept reports every upgrade exactly once, whether its call was given up in
\* between or not, and never upgrades more sockets at a time than the limit;
\* a dialer that is through has its connection at the listener's owner
\* (ListenerUpgrade::accept, TimeoutListener::accept).
EachUpgradeReported ==
  /\ Cardinality(futures) <= Limit
  /\ \A c \in Conns : Native(c, "l") =>
       /\ events[c] = CASE end[c]["l"].pc = "done"   -> <<"accepted">>
                        [] end[c]["l"].pc = "failed" -> <<"failed">>
                        [] OTHER -> <<>>
       /\ (BothNative(c) /\ end[c]["d"].pc = "done") => end[c]["l"].pc = "done"

\* Every dial between two ends of this implementation comes to an end, although
\* other dialers stay silent in the middle of their upgrade, as long as these
\* are fewer than the limit (TransportUpgrade::dial, ListenerUpgrade::accept).
Settled == \A c \in Conns :
  BothNative(c) => end[c]["d"].pc \in {"idle", "done", "failed", "timeout"}
==============================================================================
