---------------------------- MODULE ConnServices ----------------------------
(***************************************************************************)
(* What runs beside a connection of the swarm (swarm/src/connection.rs,    *)
(* ping.rs, identify.rs): the Ping task, the Identify push task, the       *)
(* results they and the remote's Identify messages bring to the main loop, *)
(* the external addresses learned from them (registry.rs), and the task    *)
(* that stops all this when the connection is gone.                        *)
(***************************************************************************)
EXTENDS Integers, Sequences, FiniteSets, Lists

CONSTANTS max_failures,   \* of PingConfig
          limit,          \* of Addresses: reports remembered
          listened_addrs, \* our addresses, [ip, port], a sequence
          Observed,       \* addresses the remote may see us at
          IsIp(_),        \* the first protocol is an IP address or a DNS name
          MaxPings, MaxReports   \* bounds on pings and on Identify messages

VARIABLES
    up,        \* the connection itself
    table,     \* it is in connections_by_id
    flag,      \* ping_running
    ping,      \* [st, fail_cnt, n]: the Ping task, and the payload of its last ping
    echo,      \* what came back for it: "none", "right", "wrong"
    push,      \* the Identify push task
    stopper,   \* the task that stops the others
    events,    \* to the main loop
    latency,   \* pings whose round trip was recorded in the peer store
    echoed,    \* pings that came back as they were sent
    streak,    \* failures in a row, as an observer counts them
    registry, reports,   \* external_addrs
    received   \* Identify messages

vars == <<up, table, flag, ping, echo, push, stopper, events, latency, echoed, streak, registry, reports, received>>
addrVars == <<registry, reports>>

\* The handlers' connected: Ping and Identify push start at once.
Init ==
  /\ up = TRUE /\ table = TRUE /\ flag = TRUE
  /\ ping = [st |-> "check", fail_cnt |-> 0, n |-> 0] /\ echo = "none"
  /\ push = "asking" /\ stopper = "none" /\ events = <<>>
  /\ latency = {} /\ echoed = {} /\ streak = 0
  /\ registry = <<>> /\ reports = <<>> /\ received = 0

------------------------------------------------------------------------------
(* External addresses.                                                      *)

\* The listening address with the first protocol of the observed one.
address_translation(original, observed) ==
  IF IsIp(original.ip) /\ IsIp(observed.ip) THEN {[ip |-> observed.ip, port |-> original.port]} ELSE {}

\* In order, without duplicates (listened_addrs is in order).
Translations(observed) ==
  FoldLeft(LAMBDA acc, a : acc \o SetToSeq(address_translation(a, observed) \ ToSet(acc)), <<>>, listened_addrs)

Others(xs, a) == SelectSeq(xs, LAMBDA r : r.addr # a)

\* The score of a changes by d and the list is sorted again, by descending score:
\* an insertion sort, which leaves equal scores in their order.
isort(xs, a, d) ==
  LET r == [addr |-> a, score |-> d + (CHOOSE x \in ToSet(xs) : x.addr = a).score]
      before == SelectSeq(Others(xs, a), LAMBDA x : x.score > r.score \/ (x.score = r.score /\ d > 0))
      after  == SelectSeq(Others(xs, a), LAMBDA x : x.score < r.score \/ (x.score = r.score /\ d < 0))
  IN  before \o <<r>> \o after

\* A new report: counted, or the first of its address.
Reported(xs, a) == IF Others(xs, a) # xs THEN isort(xs, a, 1) ELSE Append(xs, [addr |-> a, score |-> 1])

\* Seeded fault: an address that is no longer reported stays.
add_Keeps(e, a) ==
  IF Len(e.reports) = limit
  THEN [reports |-> Append(Tail(e.reports), a), registry |-> Reported(isort(e.registry, Head(e.reports), -1), a)]
  ELSE [reports |-> Append(e.reports, a), registry |-> Reported(e.registry, a)]

\* Addresses::add: the oldest report is taken back when the limit is reached, an
\* address nobody reports any more goes, the new report is counted.
add(e, a) ==
  IF Len(e.reports) = limit
  THEN [reports |-> Append(Tail(e.reports), a),
        registry |-> Reported(SelectSeq(isort(e.registry, Head(e.reports), -1), LAMBDA r : r.score # 0), a)]
  ELSE [reports |-> Append(e.reports, a), registry |-> Reported(e.registry, a)]

handle_observed_address(observed) ==
  \E addrs \in {Translations(observed)} :
    \E e \in {FoldLeft(add, [registry |-> registry, reports |-> reports], addrs)} :
      registry' = e.registry /\ reports' = e.reports

------------------------------------------------------------------------------
(* The Ping task.                                                           *)

Post(e) == events' = Append(events, e)

Around == UNCHANGED <<up, table, flag, push, stopper, latency, addrVars, received>>

\* Before and after the sleep the task looks whether it is to stop.
start_ping ==
  \/ /\ ping.st = "check"
     /\ ping' = [ping EXCEPT !.st = IF flag THEN "sleep" ELSE "done"]
     /\ UNCHANGED <<echo, events, echoed, streak>> /\ Around
  \/ /\ ping.st = "sleep" /\ (flag => ping.n < MaxPings)
     /\ ping' = [ping EXCEPT !.st = IF flag THEN "opening" ELSE "done", !.n = @ + 1]
     /\ echo' = "none"
     /\ UNCHANGED <<events, echoed, streak>> /\ Around

\* open_stream_internal: a stream, or no connection or no such protocol. (The
\* StreamOpened and StreamError that the main loop counts are Swarm's.)
open_stream_internal ==
  /\ ping.st = "opening" /\ up
  /\ ping' = [ping EXCEPT !.st = "pinging"]
  /\ UNCHANGED <<echo, events, echoed, streak>> /\ Around

\* Failed once more: the task goes on or gives up, without a word.
Failed ==
  /\ ping' = [ping EXCEPT !.st = IF ping.fail_cnt + 1 >= max_failures THEN "done" ELSE "check",
                          !.fail_cnt = @ + 1]
  /\ streak' = streak + 1
  /\ UNCHANGED echoed

PingOpenFails ==
  /\ ping.st = "opening"
  /\ Failed
  /\ UNCHANGED <<echo, events>> /\ Around

\* The remote's PingHandler sends back what it reads; another program may not.
handle ==
  /\ ping.st = "pinging" /\ up /\ echo = "none"
  /\ \E e \in {"right", "wrong"} : echo' = e
  /\ UNCHANGED <<ping, events, echoed, streak>> /\ Around

\* The payload came back as it was sent.
PingSucceeds ==
  /\ ping.st = "pinging" /\ echo = "right"
  /\ ping' = [ping EXCEPT !.st = "check", !.fail_cnt = 0]
  /\ echoed' = echoed \union {ping.n} /\ streak' = 0
  /\ Post([type |-> "PingResult", n |-> ping.n])
  /\ UNCHANGED echo /\ Around

\* A wrong payload, a broken stream, or nothing in time.
PingFails ==
  /\ ping.st = "pinging"
  /\ Failed
  /\ UNCHANGED <<echo, events>> /\ Around

------------------------------------------------------------------------------
(* Identify.                                                                *)

Beside == UNCHANGED <<up, table, flag, ping, echo, stopper, latency, echoed, streak, addrVars>>

\* The main loop answers IdentifyInfo; then the stream is opened and written.
start_identify_push ==
  \/ /\ push = "asking"
     /\ push' = "opening"
     /\ UNCHANGED <<events, received>> /\ Beside
  \/ /\ push = "opening" /\ up
     /\ push' = "sending"
     /\ UNCHANGED <<events, received>> /\ Beside
  \/ /\ push = "opening"
     /\ push' = "done"
     /\ UNCHANGED <<events, received>> /\ Beside

\* The message is written, or the write fails, which is ignored.
produce_message ==
  /\ push = "sending"
  /\ push' = "done"
  /\ UNCHANGED <<events, received>> /\ Beside

\* A message of the remote, asked for or pushed, is read and parsed: what the
\* remote sees as our address, or an error.
process_message ==
  /\ up /\ received < MaxReports
  /\ received' = received + 1
  /\ \/ \E o \in Observed : Post([type |-> "IdentifyResult", ok |-> TRUE, addr |-> o])
     \/ Post([type |-> "IdentifyResult", ok |-> FALSE])
  /\ UNCHANGED push /\ Beside

------------------------------------------------------------------------------
(* The main loop, and the end of the connection.                            *)

handle_ping_result(e) ==
  /\ e.type = "PingResult"
  /\ latency' = IF table THEN latency \union {e.n} ELSE latency
  /\ UNCHANGED <<table, stopper, addrVars>>

handle_identify_result(e) ==
  /\ e.type = "IdentifyResult"
  /\ IF table /\ e.ok THEN handle_observed_address(e.addr) ELSE UNCHANGED addrVars
  /\ UNCHANGED <<table, stopper, latency>>

\* The connection leaves the table; a task is left to stop its tasks.
handle_connection_closed(e) ==
  /\ e.type = "ConnectionClosed"
  /\ table' = FALSE
  /\ stopper' = "stopping"
  /\ UNCHANGED <<latency, addrVars>>

handle_event ==
  /\ events # <<>>
  /\ LET e == Head(events) IN
     \/ handle_ping_result(e) \/ handle_identify_result(e) \/ handle_connection_closed(e)
  /\ events' = Tail(events)
  /\ UNCHANGED <<up, flag, ping, echo, push, echoed, streak, received>>

\* The remote or the network ends the connection; the accept task reports it.
Lost ==
  /\ up
  /\ up' = FALSE
  /\ Post([type |-> "ConnectionClosed"])
  /\ UNCHANGED <<table, flag, ping, echo, push, stopper, latency, echoed, streak, addrVars, received>>

Still == UNCHANGED <<up, table, ping, echo, events, latency, echoed, streak, addrVars, received>>

\* The Ping task is told to stop and awaited ...
stop_ping ==
  /\ stopper = "stopping"
  /\ flag' = FALSE
  /\ stopper' = "joining"
  /\ UNCHANGED push /\ Still

\* ... then the Identify push task is cancelled.
stop_identify_push ==
  /\ stopper = "joining" /\ ping.st = "done"
  /\ push' = "done"
  /\ stopper' = "done"
  /\ UNCHANGED flag /\ Still

------------------------------------------------------------------------------
PingStep == start_ping \/ open_stream_internal \/ PingOpenFails \/ PingSucceeds \/ PingFails
PushStep == start_identify_push \/ produce_message

Next ==
  \/ PingStep \/ PushStep \/ handle \/ process_message
  \/ handle_event \/ Lost
  \/ stop_ping \/ stop_identify_push

\* Every task that can run is polled; a ping times out.
Fairness ==
  /\ WF_vars(PingStep) /\ WF_vars(PushStep) /\ WF_vars(handle_event)
  /\ WF_vars(stop_ping \/ stop_identify_push)

Spec == Init /\ [][Next]_vars /\ Fairness

------------------------------------------------------------------------------
\* A latency is recorded only for a ping that came back as it was sent, and the
\* Ping task gives up only after max_failures failures with no success in
\* between (ping, start_ping, handle_ping_result).
PingIsTruthful ==
  /\ latency \subseteq echoed
  /\ ping.st = "done" /\ flag => streak >= max_failures

Reports(a) == Cardinality({ i \in DOMAIN reports : reports[i] = a })

\* The external addresses are those of the remembered reports, each with the
\* number of reports that name it, by descending score, however reports come and
\* age (Addresses::add, isort); each is one of our ports at an observed address.
RegistryCounts ==
  /\ Len(reports) <= limit
  /\ { registry[i].addr : i \in DOMAIN registry } = ToSet(reports)
  /\ \A i \in DOMAIN registry :
       /\ registry[i].score = Reports(registry[i].addr)
       /\ \A j \in DOMAIN registry : i < j => /\ registry[i].score >= registry[j].score
                                              /\ registry[i].addr # registry[j].addr
       /\ \E a \in ToSet(listened_addrs), o \in Observed : registry[i].addr = [ip |-> o.ip, port |-> a.port]

\* Once the connection has left the table its tasks end, wherever they are
\* (stop_ping, stop_identify_push).
Settled == ~table => stopper = "done"

==============================================================================
