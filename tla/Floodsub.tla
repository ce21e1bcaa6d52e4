------------------------------ MODULE Floodsub ------------------------------
(***************************************************************************)
(* Floodsub (protocols/floodsub/src) on one node: the main loop            *)
(* (FloodSub), the writer task it spawns for every peer, the handlers that *)
(* read what the peers send, and the subscriptions of the application.     *)
(*                                                                         *)
(* writers[k] is one writer task with its channel (rx) and its stream.  A  *)
(* stream belongs to a connection; a peer may have several, and they may   *)
(* break: what is written then is lost, or the write fails.  told is what  *)
(* the reader of the stream believes about our subscriptions when it has   *)
(* read everything.                                                        *)
(***************************************************************************)
EXTENDS Integers, Sequences, FiniteSets, Lists

CONSTANTS Peers,
          Topics,
          Subs,       \* ids of subscriptions
          SubTopic,   \* [Subs -> Topics]
          Msgs,       \* messages, ours and others'
          Ours,       \* the ones we publish
          Source,     \* who made one of the others
          MsgTopics,  \* [Msgs -> SUBSET Topics]
          subscribe_local_messages,
          Self,       \* our own id
          MaxConns,   \* bound on connections
          MaxEvents   \* bound on calls, connection events and packets

VARIABLES connected_peers,  \* [Peers -> index of the writer, or 0]
          topics,           \* [Topics -> SUBSET Peers]
          my_topics,        \* [Topics -> SUBSET Subs]
          peer_rx, incoming_rx, cancel_rx,   \* the queues of the main loop
          writers,          \* Seq of writer tasks
          conns,            \* Seq of [peer, up]
          running,          \* the main loop
          handle,           \* [Subs -> "no", "held", "cancelled", "dropped"]
          got,              \* [Subs -> Seq(Msgs)]: delivered to the subscription
          published,        \* our messages that were published
          heard,            \* [Msgs -> [Peers -> how often the peer sent it]]
          owed,             \* [Msgs -> SUBSET indices of writers it was given to]
          events

vars == <<connected_peers, topics, my_topics, peer_rx, incoming_rx, cancel_rx,
          writers, conns, running, handle, got, published, heard, owed, events>>

Sub(a, t) == [a |-> a, t |-> t]
Rpc(subs, msgs) == [subs |-> subs, msgs |-> msgs]

Init ==
  /\ connected_peers = [p \in Peers |-> 0]
  /\ topics = [t \in Topics |-> {}]
  /\ my_topics = [t \in Topics |-> {}]
  /\ peer_rx = <<>> /\ incoming_rx = <<>> /\ cancel_rx = <<>>
  /\ writers = <<>> /\ conns = <<>>
  /\ running = TRUE
  /\ handle = [s \in Subs |-> "no"]
  /\ got = [s \in Subs |-> <<>>]
  /\ published = {}
  /\ heard = [m \in Msgs |-> [p \in Peers |-> 0]]
  /\ owed = [m \in Msgs |-> {}]
  /\ events = 0

\* Calls, connection events and packets are bounded together.
Event == events < MaxEvents /\ events' = events + 1

------------------------------------------------------------------------------
(* The peers' side of the main loop.                                        *)

\* The topics we are subscribed to.
Mine == { t \in Topics : my_topics[t] # {} }

get_hello_packet == Rpc(SetToSeq({ Sub("Subscribe", t) : t \in Mine }), <<>>)

\* The writer's channel loses its sender: the task ends when it has sent the rest.
Orphan(ws, k) == IF k = 0 THEN ws ELSE [ws EXCEPT ![k].tx = FALSE]

handle_new_peer(p) ==
  LET w == [peer |-> p, rx |-> <<get_hello_packet>>, tx |-> TRUE, st |-> "opening",
            conn |-> 0, told |-> Mine, wrote |-> <<>>] IN
  /\ writers' = Append(Orphan(writers, connected_peers[p]), w)
  /\ connected_peers' = [connected_peers EXCEPT ![p] = Len(writers) + 1]
  /\ UNCHANGED topics

handle_remove_dead_peer(p) ==
  /\ writers' = Orphan(writers, connected_peers[p])
  /\ connected_peers' = [connected_peers EXCEPT ![p] = 0]
  /\ topics' = [t \in Topics |-> topics[t] \ {p}]

handle_peer_event ==
  /\ running /\ peer_rx # <<>>
  /\ LET ev == Head(peer_rx) IN
     \/ ev.e = "NewPeer" /\ handle_new_peer(ev.p)
     \/ ev.e = "DeadPeer" /\ handle_remove_dead_peer(ev.p)
  /\ peer_rx' = Tail(peer_rx)
  /\ UNCHANGED <<my_topics, incoming_rx, cancel_rx, conns, running, handle, got, published, heard, owed, events>>

\* A writer task that is gone has dropped its end of the channel.
Takes(k) == writers[k].st \in {"opening", "open"}
Sent(ws, k, rpc) == IF Takes(k) THEN [ws EXCEPT ![k].rx = Append(@, rpc)] ELSE ws

\* The writers in connected_peers.
Live == { connected_peers[p] : p \in Peers } \ {0}

announce(a, t) ==
  writers' = [k \in DOMAIN writers |->
    IF k \notin Live THEN writers[k]
    ELSE [Sent(writers, k, Rpc(<<Sub(a, t)>>, <<>>))[k] EXCEPT
            !.told = IF a = "Subscribe" THEN @ \union {t} ELSE @ \ {t}]]

------------------------------------------------------------------------------
(* Messages.                                                                *)

subscribed_to_msg(m) == \E t \in MsgTopics[m] : t \in Mine

\* A local message is for local subscribers only if they asked for such.
notify_subs(from, g, m) ==
  IF ~subscribe_local_messages /\ from = Self THEN g
  ELSE [s \in Subs |-> IF s \in my_topics[SubTopic[s]] /\ SubTopic[s] \in MsgTopics[m] /\ handle[s] # "dropped"
                       THEN Append(g[s], m) ELSE g[s]]

\* To the connected subscribers of the message's topics, one copy for each
\* topic; not to the peer it came from nor to its source.
to_send(tps, from, m) ==
  { tp \in MsgTopics[m] \X Peers :
      /\ tp[2] \in tps[tp[1]] /\ connected_peers[tp[2]] # 0
      /\ tp[2] # from /\ tp[2] # Source[m] }

publish(tps, from, ws, m) ==
  FoldSet(LAMBDA tp, acc : Sent(acc, connected_peers[tp[2]], Rpc(<<>>, <<m>>)),
          ws, to_send(tps, from, m))

\* The writers that really took it.
Given(tps, from, m) == { k \in { connected_peers[tp[2]] : tp \in to_send(tps, from, m) } : Takes(k) }

\* The subscriptions of a packet are applied in order.
Subscribed(tps, from, subs) ==
  FoldLeft(LAMBDA acc, s : IF s.a = "Subscribe" THEN [acc EXCEPT ![s.t] = @ \union {from}]
                           ELSE [acc EXCEPT ![s.t] = @ \ {from}], tps, subs)

\* handle_incoming_rpc: subscriptions first, then the messages we want are
\* given to our subscribers and passed on.
handle_incoming_rpc ==
  /\ running /\ incoming_rx # <<>>
  /\ LET r == Head(incoming_rx)
         tps == Subscribed(topics, r.from, r.rpc.subs)
         wanted == SelectSeq(r.rpc.msgs, subscribed_to_msg) IN
     /\ topics' = tps
     /\ got' = FoldLeft(LAMBDA g, m : notify_subs(r.from, g, m), got, wanted)
     /\ writers' = FoldLeft(LAMBDA ws, m : publish(tps, r.from, ws, m), writers, wanted)
     /\ owed' = [m \in Msgs |-> IF m \in ToSet(wanted) THEN owed[m] \union Given(tps, r.from, m) ELSE owed[m]]
  /\ incoming_rx' = Tail(incoming_rx)
  /\ UNCHANGED <<connected_peers, my_topics, peer_rx, cancel_rx, conns, running, handle, published, heard, events>>

------------------------------------------------------------------------------
(* Control: commands are taken from control_rx one by one.                  *)

publish_message(m) ==
  /\ running /\ m \in Ours \ published /\ Event
  /\ got' = notify_subs(Self, got, m)
  /\ writers' = publish(topics, Self, writers, m)
  /\ owed' = [owed EXCEPT ![m] = @ \union Given(topics, Self, m)]
  /\ published' = published \union {m}
  /\ UNCHANGED <<connected_peers, topics, my_topics, peer_rx, incoming_rx, cancel_rx, conns, running, handle, heard>>

\* The first subscription of a topic is announced.
subscribe(s) ==
  LET t == SubTopic[s] IN
  /\ running /\ handle[s] = "no" /\ Event
  /\ IF my_topics[t] = {} THEN announce("Subscribe", t) ELSE UNCHANGED writers
  /\ my_topics' = [my_topics EXCEPT ![t] = @ \union {s}]
  /\ handle' = [handle EXCEPT ![s] = "held"]
  /\ UNCHANGED <<connected_peers, topics, peer_rx, incoming_rx, cancel_rx, conns, running, got, published, heard, owed>>

\* Subscription::cancel, and its drop, which cancels (once more).
cancel(s) ==
  /\ handle[s] \in {"held", "cancelled"} /\ Event
  /\ \E h \in {"cancelled", "dropped"} : h # handle[s] /\ handle' = [handle EXCEPT ![s] = h]
  /\ cancel_rx' = IF running THEN Append(cancel_rx, s) ELSE cancel_rx
  /\ UNCHANGED <<connected_peers, topics, my_topics, peer_rx, incoming_rx, writers, conns, running,
                 got, published, heard, owed>>


\* The end of every subscription is announced, whether another one is left or not.
un_subscribe ==
  /\ running /\ cancel_rx # <<>>
  /\ LET s == Head(cancel_rx)
         t == SubTopic[s] IN
     /\ IF s \in my_topics[t] THEN announce("Unsubscribe", t) ELSE UNCHANGED writers
     /\ my_topics' = [my_topics EXCEPT ![t] = @ \ {s}]
  /\ cancel_rx' = Tail(cancel_rx)
  /\ UNCHANGED <<connected_peers, topics, peer_rx, incoming_rx, conns, running, handle, got, published, heard, owed, events>>

\* Control::close: the loop ends and everything it holds is dropped.
close ==
  /\ running /\ Event
  /\ running' = FALSE
  /\ writers' = [k \in DOMAIN writers |->
                   IF k \in Live THEN [writers[k] EXCEPT !.tx = FALSE] ELSE writers[k]]
  /\ connected_peers' = [p \in Peers |-> 0]
  /\ topics' = [t \in Topics |-> {}]
  /\ my_topics' = [t \in Topics |-> {}]
  /\ peer_rx' = <<>> /\ incoming_rx' = <<>> /\ cancel_rx' = <<>>
  /\ UNCHANGED <<conns, handle, got, published, heard, owed>>

------------------------------------------------------------------------------
(* The writer tasks, the handlers and the swarm.                            *)

Post(e, p) == peer_rx' = IF running THEN Append(peer_rx, [e |-> e, p |-> p]) ELSE peer_rx

UpTo(p) == { c \in DOMAIN conns : conns[c].up /\ conns[c].peer = p }

\* swarm.new_stream over one of the connections, if there is one.
new_stream(k) ==
  /\ writers[k].st = "opening"
  /\ LET p == writers[k].peer IN
     \/ \E c \in UpTo(p) :
          /\ writers' = [writers EXCEPT ![k].st = "open", ![k].conn = c]
          /\ UNCHANGED peer_rx
     \/ /\ UpTo(p) = {}
        /\ writers' = [writers EXCEPT ![k].st = "failed"]
        /\ Post("DeadPeer", p)
  /\ UNCHANGED <<connected_peers, topics, my_topics, incoming_rx, cancel_rx, conns, running, handle,
                 got, published, heard, owed, events>>

\* A packet is written (and lost if the connection is gone), or the write fails;
\* with nothing left and no sender the task just ends.
handle_send_message(k) ==
  /\ writers[k].st = "open"
  /\ LET w == writers[k] IN
     \/ /\ w.rx # <<>>
        /\ writers' = [writers EXCEPT ![k].rx = Tail(@), ![k].wrote = @ \o Head(w.rx).msgs]
        /\ UNCHANGED peer_rx
     \/ /\ w.rx # <<>> /\ ~conns[w.conn].up
        /\ writers' = [writers EXCEPT ![k].st = "failed"]
        /\ Post("DeadPeer", w.peer)
     \/ /\ w.rx = <<>> /\ ~w.tx
        /\ writers' = [writers EXCEPT ![k].st = "done"]
        /\ UNCHANGED peer_rx
  /\ UNCHANGED <<connected_peers, topics, my_topics, incoming_rx, cancel_rx, conns, running, handle,
                 got, published, heard, owed, events>>

Packets == { Rpc(<<Sub(a, t)>>, <<>>) : a \in {"Subscribe", "Unsubscribe"}, t \in Topics }
           \union { Rpc(<<>>, <<m>>) : m \in Msgs \ Ours }

\* Handler::handle: a packet is read from a stream of p and passed to the loop; one that is
\* too long or does not decode ends the handler, and leaves nothing here.
handle_stream(p, rpc) ==
  /\ UpTo(p) # {} /\ running /\ Event
  /\ incoming_rx' = Append(incoming_rx, [from |-> p, rpc |-> rpc])
  /\ heard' = [m \in Msgs |-> IF m \in ToSet(rpc.msgs) THEN [heard[m] EXCEPT ![p] = @ + 1] ELSE heard[m]]
  /\ UNCHANGED <<connected_peers, topics, my_topics, peer_rx, cancel_rx, writers, conns, running, handle,
                 got, published, owed>>

\* Notifiee: every connection of a peer is reported, and its end.
connected(p) ==
  /\ Len(conns) < MaxConns /\ Event
  /\ conns' = Append(conns, [peer |-> p, up |-> TRUE])
  /\ Post("NewPeer", p)
  /\ UNCHANGED <<connected_peers, topics, my_topics, incoming_rx, cancel_rx, writers, running, handle,
                 got, published, heard, owed>>

disconnected(c) ==
  /\ conns[c].up /\ Event
  /\ conns' = [conns EXCEPT ![c].up = FALSE]
  /\ Post("DeadPeer", conns[c].peer)
  /\ UNCHANGED <<connected_peers, topics, my_topics, incoming_rx, cancel_rx, writers, running, handle,
                 got, published, heard, owed>>

------------------------------------------------------------------------------
LoopStep == handle_peer_event \/ handle_incoming_rpc \/ un_subscribe
TaskStep(k) == new_stream(k) \/ handle_send_message(k)

\* The commands of Control that change something, and its end.
on_control_command ==
  \/ \E m \in Msgs : publish_message(m)
  \/ \E s \in Subs : subscribe(s)
  \/ close

Next ==
  \/ LoopStep \/ on_control_command
  \/ \E s \in Subs : cancel(s)
  \/ \E k \in DOMAIN writers : TaskStep(k)
  \/ \E p \in Peers : connected(p)
  \/ \E p \in Peers, rpc \in Packets : handle_stream(p, rpc)
  \/ \E c \in DOMAIN conns : disconnected(c)

\* The executor polls the tasks that can run.
Fairness == WF_vars(LoopStep) /\ \A k \in 1..MaxConns : WF_vars(k \in DOMAIN writers /\ TaskStep(k))

Spec == Init /\ [][Next]_vars /\ Fairness

------------------------------------------------------------------------------
\* Whoever reads a writer's stream to its end never believes us subscribed to a
\* topic we have left: the hello packet and the announcements that follow it add
\* up (get_hello_packet, announce, un_subscribe).
NothingUnwanted == \A p \in Peers :
  connected_peers[p] # 0 => writers[connected_peers[p]].told \subseteq Mine

\* What was meant for p, whichever of its streams it went to.
Copies(p, m) == FoldSet(LAMBDA k, n : n + Len(SelectSeq(writers[k].wrote, LAMBDA x : x = m)),
                        0, { k \in DOMAIN writers : writers[k].peer = p })

\* A peer is sent a message of one topic no more often than others gave it to us: never back
\* to where it came from, nor to its source (publish).
NoEcho == \A p \in Peers, m \in Msgs : Cardinality(MsgTopics[m]) = 1 =>
  Copies(p, m) <= (IF m \in published THEN 1 ELSE 0) +
                  (IF p = Source[m] THEN 0 ELSE FoldSet(LAMBDA q, n : n + heard[m][q], 0, Peers \ {p}))

\* A message that was given to a writer is written to its stream, unless the
\* connection breaks: also when the peer is replaced or the loop ends meanwhile
\* (handle_send_message).
Settled == \A m \in Msgs : \A k \in owed[m] :
  k \in DOMAIN writers => m \in ToSet(writers[k].wrote) \/ writers[k].st = "failed"

==============================================================================
