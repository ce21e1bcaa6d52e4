------------------------------ MODULE KadStream ------------------------------
(***************************************************************************)
(* A Kademlia request and its answer (protocols/kad/src/protocol.rs): the  *)
(* jobs of one node that use its cached messengers to another node, the    *)
(* handler of each stream there, which posts what it reads to that node's  *)
(* main loop and writes the reply, and the frames between them             *)
(* (core/src/util).                                                        *)
(*                                                                         *)
(* A direction of a stream is a sequence of tokens: the length prefix of a *)
(* packet and its body.  Peers in messages have an id and addresses that   *)
(* may or may not parse.                                                   *)
(***************************************************************************)
EXTENDS Integers, Sequences, FiniteSets

CONSTANTS Jobs,
          Mixes,            \* sets of jobs that are run together
          Request,          \* [Jobs -> what the job asks]
          Responses,        \* [request -> set of answers the other node may give]
          Large,            \* requests and answers longer than max_packet_size
          max_reuse_count,
          read_timeout,     \* BOOLEAN: whether reads time out
          MaxLosses         \* bound on connections lost

VARIABLES job,      \* [Jobs -> [st, s, res]]: progress, its stream, its result
          cache,    \* the cached messenger's stream, or 0
          streams,  \* Seq of the streams made, see NewStream
          posted,   \* queue of the other node's main loop: [s, req]
          reqs,     \* [Jobs -> number of times its request was posted]
          phantom,  \* requests posted that nobody sent
          reply,    \* [Jobs -> what the main loop answered]
          losses

vars == <<job, cache, streams, posted, reqs, phantom, reply, losses>>

None == <<>>

\* by: the job whose request the stream carries, kept to compare with.
NewStream == [req |-> <<>>, rsp |-> <<>>, reuse |-> 0, open |-> TRUE, handler |-> "reading", up |-> TRUE, by |-> {}]

Init ==
  /\ \E mix \in Mixes : job = [j \in Jobs |-> [st |-> IF j \in mix THEN "idle" ELSE "none", s |-> 0, res |-> None]]
  /\ cache = 0 /\ streams = <<>> /\ posted = <<>>
  /\ reqs = [j \in Jobs |-> 0] /\ phantom = 0
  /\ reply = [j \in Jobs |-> None]
  /\ losses = 0

------------------------------------------------------------------------------
(* Messages on the wire.                                                    *)

\* A protobuf message with nothing set: its type is PUT_VALUE, which is 0.
Default == [type |-> "PutValue", key |-> 0, closer |-> <<>>, providers |-> <<>>, record |-> None]

record_to_proto(r) == [key |-> r.key, value |-> r.value, publisher |-> r.publisher]
record_from_proto(r) == [key |-> r.key, value |-> r.value, publisher |-> r.publisher]

req_msg_to_proto(m) ==
  CASE m.type \in {"FindNode", "GetProviders", "GetValue"} -> [Default EXCEPT !.type = m.type, !.key = m.key]
    [] m.type = "AddProvider" -> [Default EXCEPT !.type = m.type, !.key = m.key, !.providers = <<m.provider>>]
    [] m.type = "PutValue" -> [Default EXCEPT !.type = m.type, !.record = <<record_to_proto(m.record)>>]
    [] m.type = "Ping" -> [Default EXCEPT !.type = m.type]

resp_msg_to_proto(m) ==
  CASE m.type = "FindNode" -> [Default EXCEPT !.type = m.type, !.closer = m.closer]
    [] m.type = "GetProviders" -> [Default EXCEPT !.type = m.type, !.closer = m.closer, !.providers = m.providers]
    [] m.type = "GetValue" -> [Default EXCEPT !.type = m.type, !.closer = m.closer,
                                 !.record = IF m.record = None THEN None ELSE <<record_to_proto(m.record[1])>>]
    [] m.type = "PutValue" -> [Default EXCEPT !.type = m.type, !.key = m.key,
                                 !.record = <<[key |-> m.key, value |-> m.value, publisher |-> None]>>]
    [] m.type = "Pong" -> [Default EXCEPT !.type = "Ping"]

\* KadPeer::try_from: a peer whose addresses do not parse is passed over.
Valid(peers) == SelectSeq(peers, LAMBDA p : p.ok)

EmptyRecord == [key |-> 0, value |-> 0, publisher |-> None]

\* <<request>>, or None if the message is no request.
proto_to_req_msg(m) ==
  CASE m.type = "Ping" -> <<[type |-> "Ping"]>>
    [] m.type = "PutValue" -> <<[type |-> m.type, record |-> IF m.record = None THEN EmptyRecord
                                                             ELSE record_from_proto(m.record[1])]>>
    [] m.type \in {"GetValue", "FindNode", "GetProviders"} -> <<[type |-> m.type, key |-> m.key]>>
    [] m.type = "AddProvider" -> IF Valid(m.providers) = <<>> THEN None
                                 ELSE <<[type |-> m.type, key |-> m.key, provider |-> Valid(m.providers)[1]]>>

\* Seeded fault: the two lists of peers are exchanged.
proto_to_resp_msg_Swapped(m) ==
  IF m.type = "GetProviders" THEN <<[type |-> m.type, closer |-> Valid(m.providers), providers |-> Valid(m.closer)]>>
  ELSE IF m.type = "FindNode" THEN <<[type |-> m.type, closer |-> Valid(m.closer)]>> ELSE None

\* <<answer>>, or None if the message is no answer.
proto_to_resp_msg(m) ==
  CASE m.type = "Ping" -> <<[type |-> "Pong"]>>
    [] m.type = "GetValue" -> <<[type |-> m.type, closer |-> Valid(m.closer),
                                 record |-> IF m.record = None THEN None ELSE <<record_from_proto(m.record[1])>>]>>
    [] m.type = "FindNode" -> <<[type |-> m.type, closer |-> Valid(m.closer)]>>
    [] m.type = "GetProviders" -> <<[type |-> m.type, closer |-> Valid(m.closer), providers |-> Valid(m.providers)]>>
    [] m.type = "PutValue" -> IF m.record = None THEN None
                              ELSE <<[type |-> m.type, key |-> m.key, value |-> m.record[1].value]>>
    [] m.type = "AddProvider" -> None

------------------------------------------------------------------------------
(* Frames: write_one and read_one of core/src/util.                         *)

Prefix(large) == [t |-> "len", large |-> large]
Body(m) == [t |-> "body", m |-> m]

\* The length, the data and a flush.
write_one(w, m, large) == w \o <<Prefix(large), Body(m)>>

\* The muxers' streams report the end of the data as an error.
poll_read == "UnexpectedEof"

\* The length is read byte by byte: the end of the data before the first is a length of 0.
read_varint(w, ended) ==
  IF w # <<>> THEN (IF w[1].large THEN "over" ELSE "some")
  ELSE IF ~ended THEN "pending"
  ELSE IF poll_read = "Zero" THEN "zero" ELSE "err"

\* The whole body, or an error if the data ends before.
read_exact2(w, ended) ==
  IF w # <<>> THEN [st |-> "ok", m |-> w[1].m, rest |-> Tail(w)]
  ELSE IF ended THEN [st |-> "err"] ELSE [st |-> "pending"]

\* What read_one comes to: pending, an error, or a packet and what is left.
read_one(w, ended) ==
  LET len == read_varint(w, ended) IN
  CASE len = "pending" -> [st |-> "pending"]
    [] len \in {"over", "err"} -> [st |-> "err"]
    [] len = "zero" -> [st |-> "ok", m |-> Default, rest |-> <<>>]
    [] len = "some" -> read_exact2(Tail(w), ended)

------------------------------------------------------------------------------
(* The messengers and the jobs that use them.                               *)

\* The cached messenger, which leaves the cache, or a new stream.
get_messenger(j) ==
  /\ job[j].st = "idle"
  /\ LET s == IF cache # 0 THEN cache ELSE Len(streams) + 1 IN
     /\ job' = [job EXCEPT ![j] = [st |-> "sending", s |-> s, res |-> None]]
     /\ streams' = IF cache # 0 THEN streams ELSE Append(streams, NewStream)
  /\ cache' = 0
  /\ UNCHANGED <<posted, reqs, phantom, reply, losses>>

\* KadMessenger::build fails.
build_fails(j) ==
  /\ job[j].st = "idle" /\ cache = 0
  /\ job' = [job EXCEPT ![j].st = "failed"]
  /\ UNCHANGED <<cache, streams, posted, reqs, phantom, reply, losses>>

\* The use is counted; a worn-out messenger is not used again.
reuse(m) == [m EXCEPT !.reuse = @ + 1]

\* The job ends; its messenger is counted as used once more and goes to the
\* cache, unless it is worn out or another one is there.  Dropped, it closes.
put_messenger(s, str) ==
  LET used == [str EXCEPT ![s] = reuse(@)]
      kept == used[s].reuse < max_reuse_count /\ cache = 0 IN
  /\ cache' = IF kept THEN s ELSE cache
  /\ streams' = IF kept THEN used ELSE [used EXCEPT ![s].open = FALSE]

drop_messenger(s) == streams' = [streams EXCEPT ![s].open = FALSE] /\ UNCHANGED cache

\* send_message, for AddProvider: nothing comes back.
send_message(j) ==
  /\ job[j].st = "sending" /\ Request[j].type = "AddProvider"
  /\ LET s == job[j].s IN
     \/ /\ streams[s].up
        /\ put_messenger(s, [streams EXCEPT ![s].req = write_one(@, req_msg_to_proto(Request[j]), Request[j] \in Large),
                                            ![s].by = @ \union {j}])
        /\ job' = [job EXCEPT ![j].st = "ok"]
     \/ /\ ~streams[s].up \/ streams[s].handler = "ended"
        /\ drop_messenger(s)
        /\ job' = [job EXCEPT ![j].st = "failed"]
  /\ UNCHANGED <<posted, reqs, phantom, reply, losses>>

\* send_request writes; a stream the other side has closed may still take it.
send_request(j) ==
  /\ job[j].st = "sending" /\ Request[j].type # "AddProvider"
  /\ LET s == job[j].s IN
     \/ /\ streams[s].up
        /\ streams' = [streams EXCEPT ![s].req = write_one(@, req_msg_to_proto(Request[j]), Request[j] \in Large),
                                      ![s].by = @ \union {j}]
        /\ job' = [job EXCEPT ![j].st = "waiting"]
        /\ UNCHANGED cache
     \/ /\ ~streams[s].up \/ streams[s].handler = "ended"
        /\ drop_messenger(s)
        /\ job' = [job EXCEPT ![j].st = "failed"]
  /\ UNCHANGED <<posted, reqs, phantom, reply, losses>>

\* send_find_node, send_get_providers, send_get_value, send_put_value: any other
\* type of answer is an error.
Expected(j, a) == a # None /\ a[1].type = Request[j].type

\* ... and reads the answer.
receive(j) ==
  /\ job[j].st = "waiting"
  /\ LET s == job[j].s
         r == read_one(streams[s].rsp, streams[s].handler = "ended" \/ ~streams[s].up)
         a == IF r.st = "ok" THEN proto_to_resp_msg(r.m) ELSE None IN
     /\ r.st # "pending"
     /\ IF Expected(j, a)
        THEN /\ put_messenger(s, [streams EXCEPT ![s].rsp = r.rest])
             /\ job' = [job EXCEPT ![j].st = "ok", ![j].res = a]
        ELSE /\ drop_messenger(s)
             /\ job' = [job EXCEPT ![j].st = "failed"]
  /\ UNCHANGED <<posted, reqs, phantom, reply, losses>>

\* The read timer of the substream fires before the answer is there.
time_out(j) ==
  /\ job[j].st = "waiting" /\ read_timeout
  /\ drop_messenger(job[j].s)
  /\ job' = [job EXCEPT ![j].st = "failed"]
  /\ UNCHANGED <<posted, reqs, phantom, reply, losses>>

\* The connection to the other node is gone, and with it a cached messenger; of
\* what is under way any part may still arrive.
Lost(s) ==
  /\ losses < MaxLosses /\ streams[s].up
  /\ \E n \in 0..Len(streams[s].req), m \in 0..Len(streams[s].rsp) :
       streams' = [streams EXCEPT ![s].up = FALSE, ![s].req = SubSeq(@, 1, n), ![s].rsp = SubSeq(@, 1, m)]
  /\ cache' = IF cache = s THEN 0 ELSE cache
  /\ losses' = losses + 1
  /\ UNCHANGED <<job, posted, reqs, phantom, reply>>

------------------------------------------------------------------------------
(* The other node: handle, and its main loop.                               *)

\* The next request of the stream that was not posted yet.
Sender(s, req) == { j \in streams[s].by : Request[j] = req /\ reqs[j] = 0 }

\* One packet is read, decoded and posted; what fails ends the handler, and the stream closes.
handle(s) ==
  /\ streams[s].handler = "reading"
  /\ LET r == read_one(streams[s].req, ~streams[s].open \/ ~streams[s].up)
         q == IF r.st = "ok" THEN proto_to_req_msg(r.m) ELSE None IN
     /\ r.st # "pending"
     /\ IF q # None
        THEN /\ posted' = Append(posted, [s |-> s, req |-> q[1]])
             /\ streams' = [streams EXCEPT ![s].req = r.rest, ![s].handler = "posted"]
             /\ reqs' = [j \in Jobs |-> IF j \in Sender(s, q[1]) THEN reqs[j] + 1 ELSE reqs[j]]
             /\ phantom' = IF Sender(s, q[1]) = {} THEN phantom + 1 ELSE phantom
        ELSE /\ streams' = [streams EXCEPT ![s].handler = "ended"]
             /\ UNCHANGED <<posted, reqs, phantom>>
  /\ UNCHANGED <<job, cache, reply, losses>>

\* The main loop replies with an answer, with none for AddProvider, or with an
\* error; the handler writes the answer and goes on, or ends.
answer ==
  /\ posted # <<>>
  /\ LET s == Head(posted).s
         req == Head(posted).req
         asked(r) == [j \in Jobs |-> IF j \in streams[s].by /\ Request[j] = req THEN <<r>> ELSE reply[j]] IN
     \/ /\ req.type = "AddProvider"
        /\ streams' = [streams EXCEPT ![s].handler = "reading"]
        /\ UNCHANGED reply
     \/ \E rsp \in Responses[req] :
          /\ reply' = asked(rsp)
          /\ streams' = IF streams[s].up /\ streams[s].open
                        THEN [streams EXCEPT ![s].handler = "reading",
                                             ![s].rsp = write_one(@, resp_msg_to_proto(rsp), rsp \in Large)]
                        ELSE [streams EXCEPT ![s].handler = "ended"]
     \/ /\ req.type \in {"PutValue", "AddProvider"}
        /\ streams' = [streams EXCEPT ![s].handler = "ended"]
        /\ UNCHANGED reply
  /\ posted' = Tail(posted)
  /\ UNCHANGED <<job, cache, reqs, phantom, losses>>

------------------------------------------------------------------------------
JobStep(j) == get_messenger(j) \/ build_fails(j) \/ send_message(j) \/ send_request(j) \/ receive(j)

Next ==
  \/ \E j \in Jobs : JobStep(j) \/ time_out(j)
  \/ \E s \in DOMAIN streams : handle(s) \/ Lost(s)
  \/ answer

\* The executor polls the tasks that can run, and the other node's main loop
\* takes what is posted.  No timer is assumed: by default none is set.
Fairness ==
  /\ \A j \in Jobs : WF_vars(JobStep(j))
  /\ \A s \in 1..Cardinality(Jobs) : WF_vars(s \in DOMAIN streams /\ handle(s))
  /\ WF_vars(answer)

Spec == Init /\ [][Next]_vars /\ Fairness

------------------------------------------------------------------------------
\* The answer a job gets is the one the other node gave to its own request, as
\* it was given: no answer is taken for another's, whatever was lost, timed out
\* or reused before (send_request, put_messenger, the conversions).
OwnAnswer == \A j \in Jobs : job[j].st = "ok" /\ Request[j].type # "AddProvider" => job[j].res = reply[j]

\* What reaches the other node's main loop are the requests that were sent, each
\* once and unchanged; the end of a stream is not taken for one, although a
\* message with nothing in it decodes to a PutValue (read_one, proto_to_req_msg).
OnlyRequests == phantom = 0 /\ \A j \in Jobs : reqs[j] <= 1

\* Every job ends, also when no timeout is set: a request that is not answered
\* has its stream closed (handle).
Settled == \A j \in Jobs : job[j].st \in {"ok", "failed", "none"}

==============================================================================
