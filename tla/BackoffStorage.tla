---------------------------- MODULE BackoffStorage ----------------------------
(***************************************************************************)
(* protocols/gossipsub/src/backoff.rs: who may not be grafted yet.         *)
(* A storage is a record                                                   *)
(*   backoffs   (topic, peer) -> the end of the back-off and its ring slot *)
(*   ring       backoffs_by_heartbeat, slots 0 .. Slots - 1                *)
(*   index      heartbeat_index                                            *)
(***************************************************************************)
EXTENDS Integers, Functions

CONSTANTS prune_backoff, heartbeat_interval, backoff_slack

\* Durations are rounded up to heartbeats.
heartbeats(d) == (d + heartbeat_interval - 1) \div heartbeat_interval

\* One slot more, for the partial heartbeat.
Slots == heartbeats(prune_backoff) + backoff_slack + 1

new == [backoffs |-> << >>, ring |-> [i \in 0 .. Slots - 1 |-> {}], index |-> 0]

\* The slot is reached when the back-off and the slack are over; a time longer than
\* the ring wraps around it.
SlotFor(b, time) == (b.index + heartbeats(time) + backoff_slack) % Slots

\* The storage once the back-off of every pair of S starts (again).
Started(b, S, time, now) ==
    LET slot   == SlotFor(b, time)
        was(i) == {q \in S : q \in DOMAIN b.backoffs /\ b.backoffs[q].slot = i}
    IN  [backoffs |-> [q \in DOMAIN b.backoffs \union S |->
                          IF q \in S THEN [time |-> now + time, slot |-> slot] ELSE b.backoffs[q]],
         ring     |-> [i \in DOMAIN b.ring |-> (b.ring[i] \ was(i)) \union (IF i = slot THEN S ELSE {})],
         index    |-> b.index]

\* Seeded fault: a shorter back-off replaces a longer one.
update_backoff_Shortens(b, pairs, time, now) == Started(b, pairs, time, now)

\* update_backoff() for each of some pairs <<topic, peer>>: a back-off only gets longer.
update_backoff(b, pairs, time, now) ==
    Started(b, {q \in pairs : q \in DOMAIN b.backoffs => b.backoffs[q].time < now + time}, time, now)

is_backoff_with_slack(b, t, p) == <<t, p>> \in DOMAIN b.backoffs

get_backoff_time(b, t, p) == b.backoffs[<<t, p>>].time

\* The pairs of the current slot that heartbeat() keeps.
Keeps(b, now) ==
    {q \in b.ring[b.index] : /\ q \in DOMAIN b.backoffs
                             /\ b.backoffs[q].time + heartbeat_interval * backoff_slack > now}

heartbeat(b, now) ==
    LET kept == Keeps(b, now)
    IN  [backoffs |-> Restrict(b.backoffs, DOMAIN b.backoffs \ (b.ring[b.index] \ kept)),
         ring     |-> [b.ring EXCEPT ![b.index] = kept],
         index    |-> (b.index + 1) % Slots]
=============================================================================
