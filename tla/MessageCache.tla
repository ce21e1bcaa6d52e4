----------------------------- MODULE MessageCache -----------------------------
(***************************************************************************)
(* protocols/gossipsub/src/mcache.rs: the messages of the last heartbeats. *)
(* A cache is a record                                                     *)
(*   msgs          id -> [topic, validated]                                *)
(*   iwant_counts  id -> peer -> how often the peer asked for it           *)
(*   history       the ids of each heartbeat, the newest first             *)
(* A history slot holds each id once (put), so slots are sets.             *)
(***************************************************************************)
EXTENDS Integers, Sequences, Functions

CONSTANTS history_gossip, history_length

new == [msgs |-> << >>, iwant_counts |-> << >>,
        history |-> [i \in 1 .. history_length |-> {}]]

Extend(f, x, v) == [y \in DOMAIN f \union {x} |-> IF y = x THEN v ELSE f[y]]

\* A second put replaces the message and leaves the history alone.
put(c, id, msg) ==
    [msgs |-> Extend(c.msgs, id, msg), iwant_counts |-> c.iwant_counts,
     history |-> IF id \in DOMAIN c.msgs THEN c.history ELSE [c.history EXCEPT ![1] = @ \union {id}]]

\* What get_with_iwant_counts() finds: validated messages only.
Gettable(c, id) == id \in DOMAIN c.msgs /\ c.msgs[id].validated

Count(c, id, p) ==
    IF id \in DOMAIN c.iwant_counts /\ p \in DOMAIN c.iwant_counts[id]
    THEN c.iwant_counts[id][p] ELSE 0

\* get_with_iwant_counts() for each of some ids: the count goes up only for those it finds.
get_with_iwant_counts(c, ids, p) ==
    LET found == {id \in ids : Gettable(c, id)}
    IN  [msgs |-> c.msgs, history |-> c.history,
         iwant_counts |-> [id \in DOMAIN c.iwant_counts \union found |->
             IF id \in found
             THEN Extend(IF id \in DOMAIN c.iwant_counts THEN c.iwant_counts[id] ELSE << >>, p, Count(c, id, p) + 1)
             ELSE c.iwant_counts[id]]]

\* The validated messages of the topic in the slots that are gossiped.
get_gossip_message_ids(c, t) ==
    {id \in UNION {c.history[i] : i \in 1 .. history_gossip} :
        id \in DOMAIN c.msgs /\ c.msgs[id].topic = t /\ c.msgs[id].validated}

\* Seeded fault: the last slot but one leaves the cache.
shift_Early(c) ==
    LET gone == c.history[history_length - 1]
    IN  [msgs         |-> Restrict(c.msgs, DOMAIN c.msgs \ gone),
         iwant_counts |-> Restrict(c.iwant_counts, DOMAIN c.iwant_counts \ gone),
         history      |-> <<{}>> \o SubSeq(c.history, 1, history_length - 1)]

\* The last slot leaves the cache.
shift(c) ==
    LET gone == c.history[history_length]
    IN  [msgs         |-> Restrict(c.msgs, DOMAIN c.msgs \ gone),
         iwant_counts |-> Restrict(c.iwant_counts, DOMAIN c.iwant_counts \ gone),
         history      |-> <<{}>> \o SubSeq(c.history, 1, history_length - 1)]
=============================================================================
