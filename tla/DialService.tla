---------------------------- MODULE DialService ----------------------------
(***************************************************************************)
(* What the Swarm relies on when it hands a peer to AsyncDialer::dial: the *)
(* dial ends at most once, in a ConnectionEstablished whose connection is  *)
(* to that very peer or in an OutgoingConnectionError, and nothing is sent *)
(* for a dial that was never asked for.  Module Swarm has its dial tasks   *)
(* behave like this; module Dialer implements it.                          *)
(***************************************************************************)
EXTENDS Integers, FiniteSets

CONSTANTS Dials,    \* the calls of AsyncDialer::dial, by transaction id
          Peers     \* the remote peers

VARIABLES wanted,   \* wanted[d]: the peer of dial d, once it is called
          events    \* the SwarmEvents sent for the dials

vars == <<wanted, events>>

DialEvent == [type : {"ConnectionEstablished", "OutgoingConnectionError"},
              dial : Dials, peer : Peers]

TypeOK == /\ wanted \in [DOMAIN wanted -> Peers] /\ DOMAIN wanted \subseteq Dials
          /\ events \subseteq DialEvent

Init == wanted = [d \in {} |-> d] /\ events = {}

Open(d) == d \in DOMAIN wanted /\ \A e \in events : e.dial # d

dial(d, p) ==
    /\ d \notin DOMAIN wanted
    /\ wanted' = [x \in DOMAIN wanted \cup {d} |-> IF x = d THEN p ELSE wanted[x]]
    /\ UNCHANGED events

Send(d, type) ==
    /\ Open(d)
    /\ events' = events \cup {[type |-> type, dial |-> d, peer |-> wanted[d]]}
    /\ UNCHANGED wanted

Next == \E d \in Dials :
           \/ \E p \in Peers : dial(d, p)
           \/ Send(d, "ConnectionEstablished")
           \/ Send(d, "OutgoingConnectionError")

Spec == Init /\ [][Next]_vars
=============================================================================
