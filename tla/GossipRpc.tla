------------------------------- MODULE GossipRpc -------------------------------
(***************************************************************************)
(* protocols/gossipsub: what happens to one RPC between two routers.       *)
(* build_raw_message() and into_protobuf() make it, fragment_message()     *)
(* cuts it up, the handler of the remote (protocol.rs) reads the packets,  *)
(* validates the messages and passes the rest on, the subscription filter  *)
(* (subscription_filter.rs) decides on the topics of the sender, and a     *)
(* message that was accepted is forwarded once more to a third router with *)
(* the same configuration.                                                 *)
(*                                                                         *)
(* Bytes are counted, not kept: an item has a size, and one byte of tag    *)
(* and one of length come with every nested field (the sizes stay below    *)
(* 128).  A signature is the content that was signed and the key.          *)
(***************************************************************************)
EXTENDS Integers, Sequences, Lists, FiniteSets

CONSTANTS max_transmit_size,
          Published,            \* messages of the application: [id, size]
          Subscriptions,        \* [action, topic, size]
          Controls,             \* [kind, id, size]
          Foreign,              \* the forms of message another implementation may send
          max_subscribed_topics, max_subscriptions_per_request, whitelist,
          MaxItems, NONE

Authenticities == {"Signed", "Author", "RandomAuthor", "Anonymous"}
ValidationModes == {"Strict", "Permissive", "Anonymous", "None"}

VARIABLES authenticity, validation_mode,
          inline_key,           \* the public key fits into the peer id
          rpc,                  \* what is to be sent: [publish, subscriptions, control]
          sent,                 \* NONE, "ok" or the error of send_message
          wire,                 \* packets on their way
          alive,                \* the handler still reads the stream
          messages, invalid_messages, subscriptions, control_msgs,      \* what it made of them
          topics,               \* peer_topics of the sender
          forwarded             \* the verdicts of the third router on what was accepted

vars == <<authenticity, validation_mode, inline_key, rpc, sent, wire, alive, messages, invalid_messages,
          subscriptions, control_msgs, topics, forwarded>>

-----------------------------------------------------------------------------
(* The sender *)

\* validate_config(): the configurations new() accepts.
validate_config(a, mode) ==
    /\ mode = "Anonymous" => a = "Anonymous"
    /\ mode = "Strict" => a = "Signed"

\* The author's key and what its peer id tells of it.
Author(a) == CASE a = "Signed" -> "author" [] a = "Author" -> "author"
               [] a = "RandomAuthor" -> "random" [] OTHER -> NONE

\* build_raw_message(): the sequence number is random, hence unlike any other.
build_raw_message(a, inline, m) ==
    LET from  == Author(a)
        seqno == IF a = "Anonymous" THEN NONE ELSE m.id
    IN  [source |-> from, sequence_number |-> seqno, data |-> m.id, size |-> m.size,
         signature |-> IF a = "Signed" THEN [by |-> "author", over |-> <<from, seqno, m.id>>] ELSE NONE,
         key |-> IF a = "Signed" /\ ~inline THEN "author" ELSE NONE]

\* GossipsubRpc::into_protobuf() of a message.
into_protobuf(raw) ==
    [from |-> raw.source, seqno |-> raw.sequence_number, data |-> raw.data, size |-> raw.size,
     signature |-> raw.signature, key |-> raw.key]

Sum(s) == FoldLeft(LAMBDA acc, i : acc + i.size + 2, 0, s)
ControlLen(r) == Sum(r.control)
encoded_len(r) == Sum(r.publish) + Sum(r.subscriptions) + (IF r.control = << >> THEN 0 ELSE ControlLen(r) + 2)

new_rpc == [publish |-> << >>, subscriptions |-> << >>, control |-> << >>]

\* create_or_add_rpc!: a new RPC if the object and 5% of its size do not fit into the last one.
create_or_add_rpc(list, object_size) ==
    IF /\ encoded_len(Last(list)) + (object_size * 105) \div 100 > max_transmit_size
       /\ Last(list) # new_rpc
    THEN Append(list, new_rpc) ELSE list

PushLast(list, field, items) ==
    [list EXCEPT ![Len(list)] = [@ EXCEPT ![field] = @ \o items]]

add_item(field, list, i) == PushLast(create_or_add_rpc(list, i.size), field, <<i>>)

\* Messages first, then subscriptions; the control part in one piece if it fits a packet.
fragment_message(r) ==
    LET p == FoldLeft(LAMBDA list, i : add_item("publish", list, i), <<new_rpc>>, r.publish)
        s == FoldLeft(LAMBDA list, i : add_item("subscriptions", list, i), p, r.subscriptions)
    IN  IF encoded_len(r) < max_transmit_size THEN <<r>>
        ELSE IF r.control = << >> THEN s
        ELSE IF ControlLen(r) + 2 > max_transmit_size
        THEN FoldLeft(LAMBDA list, i : add_item("control", list, i), s, r.control)
        ELSE PushLast(create_or_add_rpc(s, ControlLen(r)), "control", r.control)

\* "Individual message too large to fragment"; control items are not tested.
MessageTooLarge(r) ==
    /\ encoded_len(r) >= max_transmit_size
    /\ \E i \in ToSet(r.publish) \union ToSet(r.subscriptions) : i.size + 2 > max_transmit_size

\* send_message()
send_message ==
    /\ sent = NONE
    /\ sent' = IF MessageTooLarge(rpc) THEN "MessageTooLarge" ELSE "ok"
    /\ wire' = IF MessageTooLarge(rpc) THEN << >> ELSE fragment_message(rpc)
    /\ UNCHANGED <<authenticity, validation_mode, inline_key, rpc, alive, messages, invalid_messages,
                   subscriptions, control_msgs, topics, forwarded>>

-----------------------------------------------------------------------------
(* Subscription filters: a MaxCountSubscriptionFilter around a white list *)

can_subscribe(t) == t \in whitelist

\* filter_incoming_subscriptions(): two opposite entries of a topic cancel out, equal ones count once.
filter_incoming_subscriptions(subs) ==
    FoldLeft(LAMBDA kept, s :
                LET same == {k \in kept : k.topic = s.topic}
                IN  IF same = {} THEN kept \union {s}
                    ELSE IF \E k \in same : k.action # s.action THEN kept \ same ELSE kept,
             {}, subs)

filter_incoming_subscription_set(S) == {s \in S : can_subscribe(s.topic)}

\* MaxCountSubscriptionFilter: the whole request is refused if it asks for too much.
WithinMaxCount(subs, result) ==
    LET unsubscribed   == {s \in result : s.action = "Unsubscribe" /\ s.topic \in topics}
        new_subscribed == {s \in result : s.action = "Subscribe" /\ s.topic \notin topics}
    IN  /\ Len(subs) <= max_subscriptions_per_request
        /\ Cardinality(new_subscribed) + Cardinality(topics)
              <= max_subscribed_topics + Cardinality(unsubscribed)

\* handle_received_subscriptions() on peer_topics.
FilteredTopics(subs) ==
    LET result == filter_incoming_subscription_set(filter_incoming_subscriptions(subs))
        Of(a)  == {s.topic : s \in {r \in result : r.action = a}}
    IN  IF WithinMaxCount(subs, result) THEN (topics \union Of("Subscribe")) \ Of("Unsubscribe")
        ELSE topics

-----------------------------------------------------------------------------
(* The handler *)

\* verify_signature(): the key comes with the message or out of the peer id.
verify_signature(m, inline) ==
    LET key == IF m.key # NONE THEN m.key ELSE IF inline THEN m.from ELSE NONE
    IN  /\ m.from \notin {NONE, "empty", "malformed"}
        /\ m.signature # NONE
        /\ key = m.from
        /\ m.signature = [by |-> key, over |-> <<m.from, m.seqno, m.data>>]

\* The first check that fails, in the order of the code, or NONE.
validation_error(m, mode, inline) ==
    LET asked(field) == mode = "Strict" \/ (mode = "Permissive" /\ field # NONE)
    IN  IF mode = "Anonymous" /\ m.signature # NONE THEN "SignaturePresent"
        ELSE IF mode = "Anonymous" /\ m.seqno # NONE THEN "SequenceNumberPresent"
        ELSE IF mode = "Anonymous" /\ m.from # NONE THEN "MessageSourcePresent"
        ELSE IF asked(m.signature) /\ ~verify_signature(m, inline) THEN "InvalidSignature"
        ELSE IF asked(m.seqno) /\ m.seqno = NONE THEN "EmptySequenceNumber"
        ELSE IF asked(m.seqno) /\ m.seqno = "short" THEN "InvalidSequenceNumber"
        ELSE IF asked(m.from) /\ m.from = "malformed" THEN "InvalidPeerId"
        ELSE NONE

\* The fields that are not validated are left out of the message.
validated(m, mode) ==
    LET Kept(field) == IF mode \in {"Strict", "Permissive"} /\ field # "empty" THEN field ELSE NONE
    IN  [source |-> Kept(m.from), sequence_number |-> Kept(m.seqno), data |-> m.data, size |-> m.size,
         signature |-> m.signature, key |-> m.key]

IsValid(m) == validation_error(m, validation_mode, inline_key) = NONE

\* GossipsubHandler::handle(): one packet.  A packet that is too large ends the stream.
handle ==
    /\ alive /\ wire # << >>
    /\ LET r     == Head(wire)
           valid == SelectSeq(r.publish, IsValid)
       IN  \/ /\ encoded_len(r) > max_transmit_size
              /\ alive' = FALSE /\ wire' = << >>
              /\ UNCHANGED <<messages, invalid_messages, subscriptions, control_msgs, topics>>
           \/ /\ encoded_len(r) <= max_transmit_size
              /\ wire' = Tail(wire)
              /\ messages' = messages \o [i \in 1 .. Len(valid) |-> validated(valid[i], validation_mode)]
              /\ invalid_messages' = invalid_messages \o SelectSeq(r.publish, LAMBDA m : ~IsValid(m))
              /\ subscriptions' = subscriptions \o r.subscriptions
              /\ control_msgs' = control_msgs \o r.control
              /\ topics' = FilteredTopics(r.subscriptions)
              /\ UNCHANGED alive
    /\ UNCHANGED <<authenticity, validation_mode, inline_key, rpc, sent, forwarded>>

\* forward_msg() to a router with the same configuration, which validates it again.
forward_msg ==
    /\ Len(forwarded) < Len(messages)
    /\ forwarded' = Append(forwarded, validation_error(into_protobuf(messages[Len(forwarded) + 1]),
                                                       validation_mode, inline_key))
    /\ UNCHANGED <<authenticity, validation_mode, inline_key, rpc, sent, wire, alive, messages,
                   invalid_messages, subscriptions, control_msgs, topics>>

-----------------------------------------------------------------------------
Lists(S, n) == UNION {[1 .. k -> S] : k \in 0 .. n}

OwnMessages(a, inline) == {into_protobuf(build_raw_message(a, inline, m)) : m \in Published}

Init ==
    /\ authenticity \in Authenticities /\ validation_mode \in ValidationModes
    /\ validate_config(authenticity, validation_mode)
    /\ inline_key \in BOOLEAN
    /\ \/ \E m \in Foreign : rpc = [new_rpc EXCEPT !.publish = <<m>>]
       \/ rpc \in [publish : Lists(OwnMessages(authenticity, inline_key), MaxItems),
                   subscriptions : Lists(Subscriptions, MaxItems), control : Lists(Controls, MaxItems)]
    /\ sent = NONE /\ wire = << >> /\ alive = TRUE
    /\ messages = << >> /\ invalid_messages = << >> /\ subscriptions = << >> /\ control_msgs = << >>
    /\ topics = {} /\ forwarded = << >>

Next == send_message \/ handle \/ forward_msg

Spec == Init /\ [][Next]_vars

-----------------------------------------------------------------------------
(* Properties *)

Drained == sent = "ok" /\ alive /\ wire = << >>

\* fragment_message(): however an RPC is cut up, its messages, subscriptions and control
\* items arrive once each and in their order.
NothingLost ==
    Drained => /\ [i \in DOMAIN messages |-> messages[i].data]
                    = LET valid == SelectSeq(rpc.publish, IsValid) IN [i \in DOMAIN valid |-> valid[i].data]
               /\ Len(messages) + Len(invalid_messages) = Len(rpc.publish)
               /\ subscriptions = rpc.subscriptions
               /\ control_msgs = rpc.control

\* validate_config(): "ensure the configuration will not reject published messages", neither
\* by the first router nor by the next one the message is forwarded to.
OwnAreAccepted ==
    (\A m \in ToSet(rpc.publish) : m \in OwnMessages(authenticity, inline_key))
        => invalid_messages = << >> /\ \A i \in DOMAIN forwarded : validation_mode # "None" => forwarded[i] = NONE

\* ValidationMode::Strict: whatever gets through was signed by the author it names.
StrictMeansSigned ==
    validation_mode = "Strict" =>
        \A i \in DOMAIN messages : /\ messages[i].signature # NONE
                                   /\ messages[i].signature.by = messages[i].source
                                   /\ messages[i].signature.over[3] = messages[i].data

\* MaxCountSubscriptionFilter: a peer never has more topics than allowed, over all packets.
TopicCountBounded == Cardinality(topics) <= max_subscribed_topics /\ topics \subseteq whitelist

=============================================================================
