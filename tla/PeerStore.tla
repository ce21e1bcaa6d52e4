------------------------------ MODULE PeerStore ------------------------------
(***************************************************************************)
(* core/src/peerstore.rs: what is known of the peers.  A store is          *)
(*   peer -> [pinned, addrs : addr -> [ttl, expiry], key, protos]          *)
(* and every operation, done under one lock, is an operator on it.  expiry *)
(* is the time the address was set, as in the code.  Latencies, which no   *)
(* decision depends on, are left out, and so are the order of the          *)
(* addresses of a peer and the calls that only read.                       *)
(***************************************************************************)
EXTENDS Integers, Functions

Put(f, x, v) == [y \in DOMAIN f \cup {x} |-> IF y = x THEN v ELSE f[y]]

\* PeerRecord::new and AddrBookRecord::new.
NewRecord(addrs, protos) == [pinned |-> FALSE, addrs |-> addrs, key |-> FALSE, protos |-> protos]
AddrBookRecord(ttl, now) == [ttl |-> ttl, expiry |-> now]

\* A peer that is not in the store is not pinned, and gets no key.
pin(s, p)     == IF p \in DOMAIN s THEN [s EXCEPT ![p].pinned = TRUE] ELSE s
unpin(s, p)   == IF p \in DOMAIN s THEN [s EXCEPT ![p].pinned = FALSE] ELSE s
pinned(s, p)  == p \in DOMAIN s /\ s[p].pinned
add_key(s, p) == IF p \in DOMAIN s THEN [s EXCEPT ![p].key = TRUE] ELSE s

\* An address that is known starts anew.
add_addrs(s, p, A, ttl, now) ==
    LET old == IF p \in DOMAIN s THEN s[p].addrs ELSE << >>
        new == [a \in DOMAIN old \cup A |-> IF a \in A THEN AddrBookRecord(ttl, now) ELSE old[a]]
    IN  IF p \in DOMAIN s THEN [s EXCEPT ![p].addrs = new] ELSE Put(s, p, NewRecord(new, {}))

clear_addrs(s, p) == IF p \in DOMAIN s THEN [s EXCEPT ![p].addrs = << >>] ELSE s

\* Addresses that have expired are returned too, until they are collected.
get_addrs(s, p) == IF p \in DOMAIN s THEN DOMAIN s[p].addrs ELSE {}

update_addr(s, p, ttl, now) ==
    IF p \in DOMAIN s THEN [s EXCEPT ![p].addrs = [a \in DOMAIN @ |-> AddrBookRecord(ttl, now)]] ELSE s

\* The record of a peer that is not pinned goes with its last address.
Unexpired(r, now) == {a \in DOMAIN r.addrs : now - r.addrs[a].expiry < r.addrs[a].ttl}
remove_expired_addrs(s, now) ==
    LET kept(p) == IF s[p].pinned THEN DOMAIN s[p].addrs ELSE Unexpired(s[p], now)
    IN  [p \in {q \in DOMAIN s : s[q].pinned \/ kept(q) # {}} |-> [s[p] EXCEPT !.addrs = Restrict(@, kept(p))]]

add_protocols(s, p, P) ==
    IF p \in DOMAIN s THEN [s EXCEPT ![p].protos = @ \cup P] ELSE Put(s, p, NewRecord(<< >>, P))
clear_protocols(s, p) == IF p \in DOMAIN s THEN [s EXCEPT ![p].protos = {}] ELSE s
get_protocols(s, p) == IF p \in DOMAIN s THEN s[p].protos ELSE {}
first_supported_protocol(s, p, proto) == proto \in get_protocols(s, p)

\* save_data and load_data: the addresses and their time to live.  Keys,
\* protocols and pins are not saved, and every address starts anew.
save_data(s) == [p \in DOMAIN s |-> [a \in DOMAIN s[p].addrs |-> s[p].addrs[a].ttl]]
load_data(file, now) ==
    [p \in DOMAIN file |-> NewRecord([a \in DOMAIN file[p] |-> AddrBookRecord(file[p][a], now)], {})]
==============================================================================
