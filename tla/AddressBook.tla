----------------------------- MODULE AddressBook -----------------------------
(***************************************************************************)
(* The peer store in the life of a node: core/src/peerstore.rs as it is    *)
(* used by the Swarm (load_data in Swarm::new, save_data at the end of the *)
(* main loop, the GC task, Identify) and by the clones of Control, which   *)
(* share it and call it at any time, also while the main loop is leaving.  *)
(*                                                                         *)
(* Each operation takes the lock once.  handle_identify_result makes three *)
(* of them, and save_data copies the store, truncates the file and writes  *)
(* it: other calls, the clock and a crash come in between.                 *)
(***************************************************************************)
EXTENDS Integers, Sequences, FiniteSets, Functions

CONSTANTS Peers, Addrs, Ttls,
          ADDRESS_TTL,
          MaxTime, MaxCalls, MaxStarts

PS == INSTANCE PeerStore

VARIABLES
    store,          \* peer -> record
    file,           \* ds_addr_book.txt: peer -> addr -> ttl; nobody for an empty file
    phase,          \* running, saving (copied), writing (truncated), down
    copy,           \* what save_data is about to write
    ident,          \* the rest of handle_identify_result: <<peer, next operation>>
    now, calls, starts,
    until,          \* <<peer, addr>> -> the time until which it was promised to be kept
    safe,           \* <<peer, addr>>: kept by a pin
    atExit          \* what a complete save_data has to keep

bookVars == <<store, until, safe>>
vars == <<store, file, phase, copy, ident, now, calls, starts, until, safe, atExit>>

Pairs(s) == {q \in Peers \X Addrs : q[1] \in DOMAIN s /\ q[2] \in DOMAIN s[q[1]].addrs}

\* Which promises an operation makes, renews or ends.
Promised(pairs, ttl) ==
    until' = [q \in DOMAIN until \cup pairs |-> IF q \in pairs THEN now + ttl ELSE until[q]]
OfPeer(p) == {p} \X Addrs

Init ==
    /\ store = << >> /\ file = << >> /\ phase = "running" /\ copy = << >>
    /\ ident = << >> /\ now = 0 /\ calls = 0 /\ starts = 1
    /\ until = << >> /\ safe = {} /\ atExit = {}

-----------------------------------------------------------------------------
(* What a Control does, the main loop running or not *)

Call ==
    /\ phase # "down" /\ calls < MaxCalls
    /\ calls' = calls + 1
    /\ UNCHANGED <<file, phase, copy, ident, now, starts, atExit>>

add_addr(p, a, ttl) ==
    /\ Call
    /\ store' = PS!add_addrs(store, p, {a}, ttl, now)
    /\ Promised({<<p, a>>}, ttl)
    /\ safe' = IF PS!pinned(store, p) THEN safe \cup {<<p, a>>} ELSE safe

clear_addrs(p) ==
    /\ Call
    /\ store' = PS!clear_addrs(store, p)
    /\ until' = Restrict(until, DOMAIN until \ OfPeer(p))
    /\ safe' = safe \ OfPeer(p)

update_addr(p, ttl) ==
    /\ Call
    /\ store' = PS!update_addr(store, p, ttl, now)
    /\ Promised({p} \X PS!get_addrs(store, p), ttl)
    /\ UNCHANGED safe

pin(p) ==
    /\ Call
    /\ store' = PS!pin(store, p)
    /\ safe' = safe \cup ({p} \X PS!get_addrs(store, p))
    /\ UNCHANGED until

unpin(p) ==
    /\ Call
    /\ store' = PS!unpin(store, p)
    /\ safe' = safe \ OfPeer(p)
    /\ UNCHANGED until

clear_protocols(p) ==
    /\ Call
    /\ store' = PS!clear_protocols(store, p)
    /\ UNCHANGED <<until, safe>>

-----------------------------------------------------------------------------
(* The main loop and the GC task *)

Loop == UNCHANGED <<file, copy, now, starts, atExit>>

\* handle_identify_result: the addresses, the key and the protocols.
identified(p, A) ==
    /\ phase = "running" /\ ident = << >> /\ calls < MaxCalls
    /\ calls' = calls + 1
    /\ store' = PS!add_addrs(store, p, A, ADDRESS_TTL, now)
    /\ Promised({p} \X A, ADDRESS_TTL)
    /\ safe' = IF PS!pinned(store, p) THEN safe \cup ({p} \X A) ELSE safe
    /\ ident' = <<p, "add_key">>
    /\ UNCHANGED phase /\ Loop

AddKey ==
    /\ phase = "running" /\ ident # << >> /\ ident[2] = "add_key"
    /\ store' = PS!add_key(store, ident[1])
    /\ ident' = <<ident[1], "add_protocols">>
    /\ UNCHANGED <<phase, calls, until, safe>> /\ Loop

AddProtocols ==
    /\ phase = "running" /\ ident # << >> /\ ident[2] = "add_protocols"
    /\ store' = PS!add_protocols(store, ident[1], {"kad"})
    /\ ident' = << >>
    /\ UNCHANGED <<phase, calls, until, safe>> /\ Loop

\* A promise that has run out is forgotten with the address.
Gc ==
    /\ phase = "running"
    /\ store' = PS!remove_expired_addrs(store, now)
    /\ UNCHANGED <<phase, calls, ident, until, safe>> /\ Loop

\* The main loop ends: save_data copies the addresses, truncates the file, writes it.
SaveCopies ==
    /\ phase = "running" /\ ident = << >>
    /\ phase' = "saving" /\ copy' = PS!save_data(store) /\ atExit' = Pairs(store)
    /\ UNCHANGED <<bookVars, file, ident, now, calls, starts>>

SaveTruncates ==
    /\ phase = "saving"
    /\ phase' = "writing" /\ file' = << >>
    /\ UNCHANGED <<bookVars, copy, ident, now, calls, starts, atExit>>

Down ==
    /\ phase' = "down" /\ store' = << >> /\ copy' = << >> /\ ident' = << >>
    /\ until' = << >> /\ safe' = {}
    /\ UNCHANGED <<now, calls, starts>>

SaveWrites ==
    /\ phase = "writing"
    /\ file' = copy
    /\ Down /\ UNCHANGED atExit

\* The process ends at any moment: the file stays as it is, empty if it was truncated.
Crash ==
    /\ phase # "down"
    /\ Down /\ atExit' = IF phase = "writing" THEN {} ELSE {q \in Peers \X Addrs : q[1] \in DOMAIN file /\ q[2] \in DOMAIN file[q[1]]}
    /\ UNCHANGED file

\* Swarm::new loads the file into an empty store.
Start ==
    /\ phase = "down" /\ starts < MaxStarts
    /\ phase' = "running" /\ starts' = starts + 1
    /\ store' = PS!load_data(file, now)
    /\ until' = [q \in atExit |-> now + file[q[1]][q[2]]]
    /\ UNCHANGED <<file, copy, ident, now, calls, safe, atExit>>

Tick ==
    /\ now < MaxTime
    /\ now' = now + 1
    /\ UNCHANGED <<bookVars, file, phase, copy, ident, calls, starts, atExit>>

Next ==
    \/ \E p \in Peers :
          \/ \E a \in Addrs, ttl \in Ttls : add_addr(p, a, ttl)
          \/ \E ttl \in Ttls : update_addr(p, ttl)
          \/ clear_addrs(p) \/ pin(p) \/ unpin(p) \/ clear_protocols(p)
          \/ \E A \in SUBSET Addrs : identified(p, A)
    \/ AddKey \/ AddProtocols \/ Gc
    \/ SaveCopies \/ SaveTruncates \/ SaveWrites \/ Crash \/ Start
    \/ Tick

Spec == Init /\ [][Next]_vars

-----------------------------------------------------------------------------
\* An address stays for the time it was added for, whatever is collected, identified,
\* unpinned or saved in between; and as long as it takes while its peer is pinned.
AddrsHeld ==
    phase # "down" =>
       /\ {q \in DOMAIN until : until[q] > now} \subseteq Pairs(store)
       /\ safe \subseteq Pairs(store)
=============================================================================
