--------------------------- MODULE KadNodeProofs ---------------------------
(***************************************************************************)
(* What holds of KadNode for every set of peers, every size of the buckets *)
(* and every order of answers, timers, commands and disconnects: no bucket *)
(* overflows, a peer leaves the routing table only for a reason, the pins  *)
(* of the peer store follow the table, and there is one refresh at a time. *)
(***************************************************************************)
EXTENDS KadNode, FiniteSetTheorems, WellFoundedInduction, SequenceTheorems, TLAPS

\* A sequence, whatever it holds.
IsSeq(s) == s \in Seq({s[i] : i \in 1 .. Len(s)})

\* The events and commands by what their fields are used for.
PeerEvents == {"PeerConnected", "PeerIdentified", "KadPeerFound", "AddProvider"}
StageEvents == {"SelfQueryDone", "Completed"}
KeyEvents == {"PutValue", "AddProvider"}
EventOK(e) ==
    /\ e.type \in PeerEvents => e.p \in Peers
    /\ e.type \in KeyEvents => e.k \in RecordKeys
    /\ e.type = "AddressChanged" => e.v \in {0, 1}
CommandOK(c) ==
    /\ c.type = "AddNode" => c.p \in Peers
    /\ c.type = "Bootstrap" => c.p \in Peers \cup {None}
    /\ c.type \in {"PutRecord", "Providing"} => c.k \in RecordKeys

EventsOK == IsSeq(event_rx) /\ \A i \in 1 .. Len(event_rx) : EventOK(event_rx[i])
CommandsOK == IsSeq(control_rx) /\ \A i \in 1 .. Len(control_rx) : CommandOK(control_rx[i])
QueriesOK == IsSeq(queries) /\ \A i \in 1 .. Len(queries) : queries[i].purpose \in {"refresh", "walk", "user"}
ChannelInv ==
    /\ running \in BOOLEAN /\ control_open \in BOOLEAN
    /\ EventsOK /\ CommandsOK /\ QueriesOK
    /\ ~running => queries = << >> /\ control_rx = << >> /\ ~control_open

\* The peer store: what every record is.
IsRecord(r) == r = [pinned |-> r.pinned, addrs |-> r.addrs, key |-> r.key, protos |-> r.protos] /\ r.pinned \in BOOLEAN
IsStore(s) ==
    /\ s = [p \in DOMAIN s |-> s[p]] /\ DOMAIN s \subseteq Peers
    /\ \A p \in DOMAIN s : IsRecord(s[p])

\* The routing table.  A time of aliveness is one that has been.
IsTable(t) ==
    /\ t = [p \in DOMAIN t |-> t[p]] /\ DOMAIN t \subseteq Peers
    /\ \A p \in DOMAIN t : t[p] \in [aliveness : {None} \cup (0 .. MaxTime), permanent : BOOLEAN]
TableInv ==
    /\ IsTable(kbuckets) /\ IsStore(peerstore)
    /\ now \in 0 .. MaxTime

\* No bucket holds more than K_VALUE peers.
BucketsBounded == \A i \in 0 .. NUM_BUCKETS - 1 : Cardinality(Bucket(kbuckets, i)) <= K_VALUE

\* How many of a sequence of events or commands have one of the types.
Msgs(s, T) == {i \in 1 .. Len(s) : s[i].type \in T}
\* How many of the queries have one of the purposes.
Purposes(s, T) == {i \in 1 .. Len(s) : s[i].purpose \in T}

Num(b) == IF b THEN 1 ELSE 0

\* A walk that asks has one command or one query, and a key left for it.
WalkTypes ==
    /\ walk = [left |-> walk.left, asking |-> walk.asking, caller |-> walk.caller]
    /\ walk.asking \in BOOLEAN /\ walk.left \in -1 .. NUM_BUCKETS
    /\ walk.left = -1 => walk = NoWalk
    /\ walk.asking => walk.left > 0
    /\ ~running => ~walk.asking
WalkCommands == Cardinality(Msgs(control_rx, {"WalkLookup"}))
WalkQueries == Cardinality(Purposes(queries, {"walk"}))
WalkExclusive == running => WalkCommands + WalkQueries = Num(walk.asking)

\* RefreshExclusive, in the terms of the lemmas below.
SelfQueries == Cardinality(Purposes(queries, {"refresh"}))
Stages == Cardinality(Msgs(event_rx, StageEvents))
RefreshCounted == running => SelfQueries + Stages + Num(walk # NoWalk) = Num(refreshing)
StageInv == refreshing \in BOOLEAN /\ WalkTypes /\ WalkExclusive /\ RefreshCounted

\* The rest of the type invariant.
RestInv ==
    /\ connected_peers \subseteq Peers /\ local_addrs \in {0, 1}
    /\ total_refreshes \in Nat
    /\ DOMAIN records \subseteq RecordKeys /\ DOMAIN providers \subseteq RecordKeys
    /\ asked \subseteq Peers
    /\ bootstraps \in [Callers -> {"idle", "waiting", "Ok", "Err"}]

NodeInv == ChannelInv /\ TableInv /\ BucketsBounded /\ PinsFollowTable /\ StageInv /\ RestInv
-----------------------------------------------------------------------------
(* Counting in channels. *)

LEMMA SeqFacts ==
    ASSUME NEW s, IsSeq(s)
    PROVE  /\ Len(s) \in Nat /\ DOMAIN s = 1 .. Len(s)
           /\ s = << >> <=> Len(s) = 0
  BY DEF IsSeq

LEMMA IsSeqAppend ==
    ASSUME NEW s, IsSeq(s), NEW e
    PROVE  /\ IsSeq(Append(s, e)) /\ Len(Append(s, e)) = Len(s) + 1
           /\ \A i \in 1 .. Len(s) : Append(s, e)[i] = s[i]
           /\ Append(s, e)[Len(s) + 1] = e
  <1> DEFINE t == Append(s, e)
             S == {s[i] : i \in 1 .. Len(s)} \cup {e}
  <1>1. s \in Seq(S) /\ e \in S /\ Len(s) \in Nat
    BY DEF IsSeq
  <1>2. t \in Seq(S) /\ Len(t) = Len(s) + 1 /\ t[Len(s) + 1] = e /\ \A i \in 1 .. Len(s) : t[i] = s[i]
    BY <1>1
  <1> HIDE DEF t, S
  <1>3. t \in Seq({t[i] : i \in 1 .. Len(t)})
    BY <1>2
  <1> QED
    BY <1>2, <1>3 DEF IsSeq, t

LEMMA IsSeqTail ==
    ASSUME NEW s, IsSeq(s), s # << >>
    PROVE  /\ IsSeq(Tail(s)) /\ Len(Tail(s)) = Len(s) - 1 /\ Len(s) \in Nat \ {0}
           /\ Head(s) = s[1]
           /\ \A i \in 1 .. Len(s) - 1 : Tail(s)[i] = s[i + 1]
  <1> DEFINE t == Tail(s)
             S == {s[i] : i \in 1 .. Len(s)}
  <1>1. s \in Seq(S) /\ Len(s) \in Nat \ {0}
    BY DEF IsSeq
  <1>2. t \in Seq(S) /\ Len(t) = Len(s) - 1 /\ \A i \in 1 .. Len(s) - 1 : t[i] = s[i + 1]
    BY <1>1
  <1>4. Head(s) = s[1]
    BY <1>1
  <1> HIDE DEF t, S
  <1>3. t \in Seq({t[i] : i \in 1 .. Len(t)})
    BY <1>2
  <1> QED
    BY <1>1, <1>2, <1>3, <1>4 DEF IsSeq, t

LEMMA IsSeqRemove ==
    ASSUME NEW s, IsSeq(s), NEW j \in 1 .. Len(s)
    PROVE  /\ IsSeq(RemoveAt(s, j)) /\ Len(RemoveAt(s, j)) = Len(s) - 1 /\ Len(s) \in Nat \ {0}
           /\ \A i \in 1 .. Len(s) - 1 : RemoveAt(s, j)[i] = s[IF i < j THEN i ELSE i + 1]
  <1> DEFINE S == {s[i] : i \in 1 .. Len(s)}
             a == SubSeq(s, 1, j - 1)
             b == SubSeq(s, j + 1, Len(s))
             t == a \o b
  <1>1. s \in Seq(S) /\ Len(s) \in Nat \ {0} /\ j \in Nat
    BY DEF IsSeq
  <1> HIDE DEF S
  <1>2. a \in Seq(S) /\ Len(a) = j - 1 /\ \A i \in 1 .. j - 1 : a[i] = s[i]
    BY <1>1
  <1>3. b \in Seq(S) /\ Len(b) = Len(s) - j /\ \A i \in 1 .. Len(s) - j : b[i] = s[i + j]
    BY <1>1
  <1> HIDE DEF a, b
  <1>4. t \in Seq(S) /\ Len(t) = Len(s) - 1
    <2>1. t \in Seq(S) /\ Len(t) = Len(a) + Len(b)
      BY <1>2, <1>3, ConcatProperties
    <2> QED
      BY <2>1, <1>1, <1>2, <1>3
  <1>5. ASSUME NEW i \in 1 .. Len(s) - 1
        PROVE  t[i] = s[IF i < j THEN i ELSE i + 1]
    <2>1. CASE i < j
      BY <2>1, <1>1, <1>2, <1>3
    <2>2. CASE ~(i < j)
      <3>1. t[i] = b[i - Len(a)]
        BY <2>2, <1>1, <1>2, <1>3
      <3>2. b[i - Len(a)] = s[(i - Len(a)) + j]
        BY <2>2, <1>1, <1>2, <1>3
      <3> QED
        BY <3>1, <3>2, <2>2, <1>1, <1>2
    <2> QED
      BY <2>1, <2>2
  <1>6. RemoveAt(s, j) = t
    BY DEF RemoveAt, a, b
  <1> HIDE DEF t
  <1>7. t \in Seq({t[i] : i \in 1 .. Len(t)})
    BY <1>4
  <1> QED
    BY <1>1, <1>4, <1>5, <1>6, <1>7 DEF IsSeq

\* The members of A, as indices of 1 .. n, when the one at j is taken out.
Closed(A, n, j) == {i \in 1 .. n - 1 : (IF i < j THEN i ELSE i + 1) \in A}

\* The indices left when the one at j is taken out of 1 .. n.
LEMMA RemovedIndex ==
    ASSUME NEW n \in Nat, NEW j \in 1 .. n, NEW A, A \subseteq 1 .. n, NEW B,
           B = Closed(A, n, j)
    PROVE  /\ IsFiniteSet(A) /\ IsFiniteSet(B) /\ Cardinality(A) \in Nat
           /\ Cardinality(B) = Cardinality(A) - Num(j \in A)
  <1> DEFINE f == [i \in B |-> IF i < j THEN i ELSE i + 1]
             C == A \ {j}
  <1> USE DEF Closed
  <1>1. IsFiniteSet(1 .. n)
    BY FS_Interval
  <1>2. IsFiniteSet(A) /\ IsFiniteSet(B) /\ IsFiniteSet(C)
    <2>1. B \subseteq 1 .. n /\ C \subseteq A
      OBVIOUS
    <2> HIDE DEF C
    <2> QED
      BY <2>1, <1>1, FS_Subset
  <1>3. f \in Bijection(B, C)
    <2>1. f \in [B -> C]
      OBVIOUS
    <2>2. \A x, y \in B : f[x] = f[y] => x = y
      OBVIOUS
    <2>3. ASSUME NEW c \in C
          PROVE  \E x \in B : f[x] = c
      <3>1. CASE c < j
        <4>1. c \in B /\ f[c] = c
          BY <3>1
        <4> QED
          BY <4>1
      <3>2. CASE ~(c < j)
        <4>1. c - 1 \in B /\ f[c - 1] = c
          BY <3>2
        <4> QED
          BY <4>1
      <3> QED
        BY <3>1, <3>2
    <2> HIDE DEF f, C
    <2>4. f \in Injection(B, C)
      BY <2>1, <2>2 DEF Injection, IsInjective
    <2>5. f \in Surjection(B, C)
      BY <2>1, <2>3 DEF Surjection
    <2> QED
      BY <2>4, <2>5 DEF Bijection
  <1>4. Cardinality(C) = Cardinality(B)
    BY <1>2, <1>3, FS_Bijection DEF ExistsBijection
  <1>5. Cardinality(C) = Cardinality(A) - Num(j \in A)
    <2>1. CASE j \in A
      BY <2>1, <1>2, FS_RemoveElement DEF Num
    <2>2. CASE j \notin A
      <3>1. C = A
        BY <2>2
      <3>2. Cardinality(A) \in Nat
        BY <1>2, FS_CardinalityType
      <3>3. Cardinality(C) = Cardinality(A)
        BY <3>1
      <3> QED
        BY <2>2, <3>2, <3>3 DEF Num
    <2> QED
      BY <2>1, <2>2
  <1> QED
    BY <1>2, <1>4, <1>5, FS_CardinalityType

\* The indices when one is put at the end of 1 .. n.
LEMMA AddedIndex ==
    ASSUME NEW n \in Nat, NEW A, A \subseteq 1 .. n
    PROVE  /\ IsFiniteSet(A) /\ Cardinality(A) \in Nat
           /\ Cardinality(A \cup {n + 1}) = Cardinality(A) + 1
  <1>1. IsFiniteSet(1 .. n) /\ n + 1 \notin A
    BY FS_Interval
  <1>2. IsFiniteSet(A) /\ Cardinality(A) \in Nat
    BY <1>1, FS_Subset, FS_CardinalityType
  <1> QED
    BY <1>1, <1>2, FS_AddElement

LEMMA MsgsAppend ==
    ASSUME NEW s, IsSeq(s), NEW e, NEW T
    PROVE  /\ Cardinality(Msgs(s, T)) \in Nat
           /\ Cardinality(Msgs(Append(s, e), T)) = Cardinality(Msgs(s, T)) + Num(e.type \in T)
  <1>1. Len(s) \in Nat
    BY SeqFacts
  <1>2. Msgs(s, T) \subseteq 1 .. Len(s)
    BY DEF Msgs
  <1>3. Msgs(Append(s, e), T) = IF e.type \in T THEN Msgs(s, T) \cup {Len(s) + 1} ELSE Msgs(s, T)
    BY <1>1, IsSeqAppend DEF Msgs
  <1>4. Cardinality(Msgs(s, T)) \in Nat /\ Cardinality(Msgs(s, T) \cup {Len(s) + 1}) = Cardinality(Msgs(s, T)) + 1
    BY <1>1, <1>2, AddedIndex
  <1> QED
    BY <1>3, <1>4 DEF Num

LEMMA MsgsTail ==
    ASSUME NEW s, IsSeq(s), s # << >>, NEW T
    PROVE  /\ Cardinality(Msgs(s, T)) \in Nat
           /\ Cardinality(Msgs(Tail(s), T)) = Cardinality(Msgs(s, T)) - Num(Head(s).type \in T)
  <1>1. Len(s) \in Nat \ {0} /\ 1 \in 1 .. Len(s)
    BY IsSeqTail
  <1>2. Msgs(s, T) \subseteq 1 .. Len(s)
    BY DEF Msgs
  <1>3. Msgs(Tail(s), T) = Closed(Msgs(s, T), Len(s), 1)
    BY <1>1, IsSeqTail DEF Msgs, Closed
  <1>4. (1 \in Msgs(s, T)) <=> Head(s).type \in T
    BY <1>1, IsSeqTail DEF Msgs
  <1>5. Cardinality(Msgs(s, T)) \in Nat /\ Cardinality(Msgs(Tail(s), T)) = Cardinality(Msgs(s, T)) - Num(1 \in Msgs(s, T))
    BY <1>1, <1>2, <1>3, RemovedIndex
  <1> QED
    BY <1>4, <1>5 DEF Num

LEMMA PurposesAppend ==
    ASSUME NEW s, IsSeq(s), NEW e, NEW T
    PROVE  /\ Cardinality(Purposes(s, T)) \in Nat
           /\ Cardinality(Purposes(Append(s, e), T)) = Cardinality(Purposes(s, T)) + Num(e.purpose \in T)
  <1>1. Len(s) \in Nat
    BY SeqFacts
  <1>2. Purposes(s, T) \subseteq 1 .. Len(s)
    BY DEF Purposes
  <1>3. Purposes(Append(s, e), T) = IF e.purpose \in T THEN Purposes(s, T) \cup {Len(s) + 1} ELSE Purposes(s, T)
    BY <1>1, IsSeqAppend DEF Purposes
  <1>4. Cardinality(Purposes(s, T)) \in Nat /\ Cardinality(Purposes(s, T) \cup {Len(s) + 1}) = Cardinality(Purposes(s, T)) + 1
    BY <1>1, <1>2, AddedIndex
  <1> QED
    BY <1>3, <1>4 DEF Num

LEMMA PurposesRemove ==
    ASSUME NEW s, IsSeq(s), NEW j \in 1 .. Len(s), NEW T
    PROVE  /\ Cardinality(Purposes(s, T)) \in Nat
           /\ Cardinality(Purposes(RemoveAt(s, j), T)) = Cardinality(Purposes(s, T)) - Num(s[j].purpose \in T)
  <1>1. Len(s) \in Nat \ {0}
    BY IsSeqRemove
  <1>2. Purposes(s, T) \subseteq 1 .. Len(s)
    BY DEF Purposes
  <1>3. Purposes(RemoveAt(s, j), T) = Closed(Purposes(s, T), Len(s), j)
    <2> DEFINE t == RemoveAt(s, j)
    <2>1. Len(t) = Len(s) - 1 /\ \A i \in 1 .. Len(s) - 1 : t[i] = s[IF i < j THEN i ELSE i + 1]
      BY IsSeqRemove
    <2> HIDE DEF t
    <2>2. \A i \in 1 .. Len(s) - 1 : (IF i < j THEN i ELSE i + 1) \in 1 .. Len(s)
      BY <1>1
    <2>3. Purposes(t, T) = Closed(Purposes(s, T), Len(s), j)
      BY <2>1, <2>2, <1>1 DEF Purposes, Closed
    <2> QED
      BY <2>3 DEF t
  <1>4. (j \in Purposes(s, T)) <=> s[j].purpose \in T
    BY <1>1 DEF Purposes
  <1>5. Cardinality(Purposes(s, T)) \in Nat
        /\ Cardinality(Purposes(RemoveAt(s, j), T)) = Cardinality(Purposes(s, T)) - Num(j \in Purposes(s, T))
    <2> DEFINE A == Purposes(s, T)
               B == Purposes(RemoveAt(s, j), T)
    <2>1. A \subseteq 1 .. Len(s) /\ B = Closed(A, Len(s), j)
      BY <1>2, <1>3
    <2> HIDE DEF A, B
    <2>2. Cardinality(A) \in Nat /\ Cardinality(B) = Cardinality(A) - Num(j \in A)
      BY <1>1, <2>1, RemovedIndex
    <2> QED
      BY <2>2 DEF A, B
  <1> QED
    BY <1>4, <1>5 DEF Num
-----------------------------------------------------------------------------
(* The peer store: what its operations do to the pins. *)

Pins(s) == {p \in DOMAIN s : s[p].pinned}

LEMMA PinPins ==
    ASSUME NEW s, IsStore(s), NEW p
    PROVE  IsStore(PS!pin(s, p)) /\ Pins(PS!pin(s, p)) \subseteq Pins(s) \cup {p}
  BY DEF IsStore, IsRecord, Pins, PS!pin

LEMMA EditPins ==
    ASSUME NEW s, IsStore(s), NEW p \in DOMAIN s, NEW r, IsRecord(r), r.pinned => s[p].pinned
    PROVE  /\ IsStore([s EXCEPT ![p] = r])
           /\ Pins([s EXCEPT ![p] = r]) \subseteq Pins(s)
           /\ ~r.pinned => p \notin Pins([s EXCEPT ![p] = r])
  BY DEF IsStore, Pins

LEMMA UnpinPins ==
    ASSUME NEW s, IsStore(s), NEW p
    PROVE  IsStore(PS!unpin(s, p)) /\ Pins(PS!unpin(s, p)) \subseteq Pins(s) \ {p}
  <1>1. IsStore(PS!unpin(s, p))
    BY DEF IsStore, IsRecord, PS!unpin
  <1>2. Pins(PS!unpin(s, p)) \subseteq Pins(s)
    BY DEF IsStore, IsRecord, PS!unpin, Pins
  <1>3. ASSUME p \in DOMAIN s
        PROVE PS!unpin(s, p)[p].pinned = FALSE
    BY <1>3 DEF IsStore, IsRecord, PS!unpin
  <1>4. p \notin Pins(PS!unpin(s, p))
    BY <1>3 DEF PS!unpin, Pins
  <1> QED
    BY <1>1, <1>2, <1>4

LEMMA ClearAddrsPins ==
    ASSUME NEW s, IsStore(s), NEW p
    PROVE  IsStore(PS!clear_addrs(s, p)) /\ Pins(PS!clear_addrs(s, p)) \subseteq Pins(s)
  BY DEF IsStore, IsRecord, Pins, PS!clear_addrs

LEMMA PutPins ==
    ASSUME NEW s, IsStore(s), NEW p \in Peers, p \notin DOMAIN s, NEW a, NEW P
    PROVE  LET t == PS!Put(s, p, PS!NewRecord(a, P))
           IN  IsStore(t) /\ Pins(t) \subseteq Pins(s)
  <1> DEFINE t == PS!Put(s, p, PS!NewRecord(a, P))
  <1>1. DOMAIN t = DOMAIN s \cup {p} /\ t = [q \in DOMAIN t |-> t[q]]
    BY DEF PS!Put
  <1>2. t[p] = [pinned |-> FALSE, addrs |-> a, key |-> FALSE, protos |-> P]
    BY DEF PS!Put, PS!NewRecord
  <1>3. \A q \in DOMAIN s : t[q] = s[q]
    BY DEF PS!Put
  <1> HIDE DEF t
  <1>4. IsRecord(t[p]) /\ ~t[p].pinned
    BY <1>2 DEF IsRecord
  <1>5. IsStore(t)
    BY <1>1, <1>3, <1>4 DEF IsStore
  <1>6. Pins(t) \subseteq Pins(s)
    BY <1>1, <1>3, <1>4 DEF Pins
  <1> QED
    BY <1>5, <1>6 DEF t

LEMMA AddAddrsPins ==
    ASSUME NEW s, IsStore(s), NEW p \in Peers, NEW A, NEW ttl, NEW time
    PROVE  LET t == PS!add_addrs(s, p, A, ttl, time)
           IN  IsStore(t) /\ Pins(t) \subseteq Pins(s)
  <1> DEFINE t == PS!add_addrs(s, p, A, ttl, time)
             old == IF p \in DOMAIN s THEN s[p].addrs ELSE << >>
             new == [a \in DOMAIN old \cup A |-> IF a \in A THEN PS!AddrBookRecord(ttl, time) ELSE old[a]]
  <1>1. t = IF p \in DOMAIN s THEN [s EXCEPT ![p].addrs = new] ELSE PS!Put(s, p, PS!NewRecord(new, {}))
    BY DEF PS!add_addrs
  <1> HIDE DEF t, new
  <1>2. CASE p \in DOMAIN s
    <2> DEFINE r == [s[p] EXCEPT !.addrs = new]
    <2>1. IsRecord(r) /\ (r.pinned => s[p].pinned)
      BY <1>2 DEF IsStore, IsRecord
    <2>2. t = [s EXCEPT ![p] = r]
      BY <1>1, <1>2
    <2> HIDE DEF r
    <2>3. IsStore([s EXCEPT ![p] = r]) /\ Pins([s EXCEPT ![p] = r]) \subseteq Pins(s)
      BY <1>2, <2>1, EditPins, Zenon
    <2> QED
      BY <2>2, <2>3, Zenon DEF t
  <1>3. CASE p \notin DOMAIN s
    BY <1>1, <1>3, PutPins DEF t
  <1> QED
    BY <1>2, <1>3

LEMMA AddProtocolsPins ==
    ASSUME NEW s, IsStore(s), NEW p \in Peers, NEW P
    PROVE  IsStore(PS!add_protocols(s, p, P)) /\ Pins(PS!add_protocols(s, p, P)) \subseteq Pins(s)
  <1>1. CASE p \in DOMAIN s
    <2> DEFINE r == [s[p] EXCEPT !.protos = @ \cup P]
    <2>1. IsRecord(r) /\ (r.pinned => s[p].pinned)
      BY <1>1 DEF IsStore, IsRecord
    <2>2. PS!add_protocols(s, p, P) = [s EXCEPT ![p] = r]
      BY <1>1 DEF PS!add_protocols
    <2> HIDE DEF r
    <2>3. IsStore([s EXCEPT ![p] = r]) /\ Pins([s EXCEPT ![p] = r]) \subseteq Pins(s)
      BY <1>1, <2>1, EditPins, Zenon
    <2> QED
      BY <2>2, <2>3, Zenon
  <1>2. CASE p \notin DOMAIN s
    BY <1>2, PutPins DEF PS!add_protocols
  <1> QED
    BY <1>1, <1>2

LEMMA GcPins ==
    ASSUME NEW s, IsStore(s), NEW time
    PROVE  LET t == PS!remove_expired_addrs(s, time)
           IN  IsStore(t) /\ Pins(t) \subseteq Pins(s)
  <1> DEFINE t == PS!remove_expired_addrs(s, time)
             kept(p) == IF s[p].pinned THEN DOMAIN s[p].addrs ELSE PS!Unexpired(s[p], time)
             D == {q \in DOMAIN s : s[q].pinned \/ kept(q) # {}}
             new(p) == PS!Restrict(s[p].addrs, kept(p))
  <1>1. t = [p \in D |-> [s[p] EXCEPT !.addrs = PS!Restrict(@, kept(p))]]
    BY DEF PS!remove_expired_addrs
  <1>2. D \subseteq DOMAIN s
    OBVIOUS
  <1> HIDE DEF t, kept, D
  <1>3. DOMAIN t = D /\ t = [p \in DOMAIN t |-> t[p]]
    BY <1>1
  <1>4. \A p \in D : t[p] = [s[p] EXCEPT !.addrs = new(p)]
    BY <1>1
  <1> HIDE DEF new
  <1>5. \A p \in D : IsRecord(t[p]) /\ t[p].pinned = s[p].pinned
    BY <1>2, <1>4 DEF IsRecord, IsStore
  <1>6. IsStore(t)
    BY <1>2, <1>3, <1>5 DEF IsStore
  <1>7. Pins(t) \subseteq Pins(s)
    BY <1>2, <1>3, <1>5 DEF Pins
  <1> QED
    BY <1>6, <1>7 DEF t
-----------------------------------------------------------------------------
(* The routing table. *)

LEMMA BucketCounted ==
    ASSUME NEW t, IsTable(t), NEW i
    PROVE  IsFiniteSet(Bucket(t, i)) /\ Cardinality(Bucket(t, i)) \in Nat
  <1>1. Bucket(t, i) \subseteq Peers
    BY DEF Bucket, IsTable
  <1> QED
    BY <1>1, KadAssumption, FS_Subset, FS_CardinalityType

LEMMA WithTable ==
    ASSUME NEW t, IsTable(t), NEW p \in Peers,
           NEW info \in [aliveness : {None} \cup (0 .. MaxTime), permanent : BOOLEAN]
    PROVE  IsTable(With(t, p, info)) /\ DOMAIN With(t, p, info) = DOMAIN t \cup {p}
  BY DEF IsTable, With

LEMMA WithoutTable ==
    ASSUME NEW t, IsTable(t), NEW S
    PROVE  IsTable(Without(t, S)) /\ DOMAIN Without(t, S) = DOMAIN t \ S
  BY DEF IsTable, Without

\* A new entry is in its own bucket.
LEMMA WithBucket ==
    ASSUME NEW t, IsTable(t), NEW p \in Peers, p \notin DOMAIN t, NEW info,
           info \in [aliveness : {None} \cup (0 .. MaxTime), permanent : BOOLEAN], NEW i
    PROVE  Cardinality(Bucket(With(t, p, info), i)) = Cardinality(Bucket(t, i)) + Num(i = ilog2(p))
  <1>1. DOMAIN With(t, p, info) = DOMAIN t \cup {p}
    BY WithTable
  <1>2. CASE i = ilog2(p)
    <2>1. Bucket(With(t, p, info), i) = Bucket(t, i) \cup {p} /\ p \notin Bucket(t, i)
      BY <1>1, <1>2 DEF Bucket
    <2>2. Cardinality(Bucket(t, i) \cup {p}) = Cardinality(Bucket(t, i)) + 1
      BY <2>1, BucketCounted, FS_AddElement
    <2> QED
      BY <1>2, <2>1, <2>2 DEF Num
  <1>3. CASE i # ilog2(p)
    <2>1. Bucket(With(t, p, info), i) = Bucket(t, i)
      BY <1>1, <1>3 DEF Bucket
    <2>2. Cardinality(Bucket(t, i)) \in Nat
      BY BucketCounted
    <2> QED
      BY <1>3, <2>1, <2>2 DEF Num
  <1> QED
    BY <1>2, <1>3

LEMMA WithoutBucket ==
    ASSUME NEW t, IsTable(t), NEW p \in DOMAIN t, NEW i
    PROVE  Cardinality(Bucket(Without(t, {p}), i)) = Cardinality(Bucket(t, i)) - Num(i = ilog2(p))
  <1>1. DOMAIN Without(t, {p}) = DOMAIN t \ {p}
    BY WithoutTable
  <1>2. CASE i = ilog2(p)
    <2>1. Bucket(Without(t, {p}), i) = Bucket(t, i) \ {p} /\ p \in Bucket(t, i)
      BY <1>1, <1>2 DEF Bucket
    <2>2. Cardinality(Bucket(t, i) \ {p}) = Cardinality(Bucket(t, i)) - 1
      BY <2>1, BucketCounted, FS_RemoveElement
    <2> QED
      BY <1>2, <2>1, <2>2 DEF Num
  <1>3. CASE i # ilog2(p)
    <2>1. Bucket(Without(t, {p}), i) = Bucket(t, i)
      BY <1>1, <1>3 DEF Bucket
    <2>2. Cardinality(Bucket(t, i)) \in Nat
      BY BucketCounted
    <2> QED
      BY <1>3, <2>1, <2>2 DEF Num
  <1> QED
    BY <1>2, <1>3

\* What every step keeps of the table and of the peer store, and why a peer left.
TableAndPins == TableInv /\ BucketsBounded /\ PinsFollowTable
LeftStale ==
    \A p \in DOMAIN kbuckets \ DOMAIN kbuckets' :
        /\ IsStale(kbuckets[p])
        /\ \E q \in DOMAIN kbuckets' \ DOMAIN kbuckets : ilog2(q) = ilog2(p)

\* The candidates are stale peers of the bucket.
LEMMA CandidatesAreStale ==
    ASSUME NEW p, NEW q \in Candidates(p)
    PROVE  q \in DOMAIN kbuckets /\ IsStale(kbuckets[q]) /\ ilog2(q) = ilog2(p)
  BY DEF Candidates, Bucket

LEMMA TableKept ==
    ASSUME TableAndPins, now' = now, kbuckets' = kbuckets, IsStore(peerstore'), Pins(peerstore') \subseteq DOMAIN kbuckets
    PROVE  TableAndPins' /\ LeftStale
  BY DEF TableAndPins, TableInv, BucketsBounded, PinsFollowTable, Pins, LeftStale

LEMMA TryAddPeer ==
    ASSUME TableAndPins, now' = now, NEW p \in Peers, NEW queried \in BOOLEAN, NEW permanent \in BOOLEAN,
           NEW ps, IsStore(ps), Pins(ps) \subseteq DOMAIN kbuckets,
           try_add_peer(ps, p, queried, permanent)
    PROVE  TableAndPins' /\ LeftStale
  <1> DEFINE info == PeerInfo(IF queried THEN now ELSE None, permanent)
  <1>1. info \in [aliveness : {None} \cup (0 .. MaxTime), permanent : BOOLEAN]
    BY DEF PeerInfo, TableAndPins, TableInv
  <1>t. IsTable(kbuckets) /\ now \in 0 .. MaxTime
    BY DEF TableAndPins, TableInv
  <1>b. \A i \in 0 .. NUM_BUCKETS - 1 : Cardinality(Bucket(kbuckets, i)) <= K_VALUE /\ Cardinality(Bucket(kbuckets, i)) \in Nat
    BY <1>t, BucketCounted DEF TableAndPins, BucketsBounded
  <1>k. K_VALUE \in Nat
    BY KadAssumption
  <1>2. CASE kbuckets' = kbuckets /\ peerstore' = ps
    BY <1>2, TableKept
  <1>3. CASE p \in DOMAIN kbuckets /\ queried /\ kbuckets' = [kbuckets EXCEPT ![p].aliveness = now] /\ peerstore' = ps
    <2>1. IsTable(kbuckets') /\ DOMAIN kbuckets' = DOMAIN kbuckets
      BY <1>3, <1>t DEF IsTable
    <2>2. \A i \in 0 .. NUM_BUCKETS - 1 : Bucket(kbuckets', i) = Bucket(kbuckets, i)
      BY <2>1 DEF Bucket
    <2> QED
      BY <1>3, <1>t, <1>b, <2>1, <2>2 DEF TableAndPins, TableInv, BucketsBounded, PinsFollowTable, Pins, LeftStale
  <1>4. CASE /\ p \notin DOMAIN kbuckets /\ ~is_full(kbuckets, p)
             /\ kbuckets' = With(kbuckets, p, info) /\ peerstore' = PS!pin(ps, p)
    <2> HIDE DEF info
    <2>1. IsTable(kbuckets') /\ DOMAIN kbuckets' = DOMAIN kbuckets \cup {p}
      BY <1>4, <1>1, <1>t, WithTable
    <2>2. ASSUME NEW i \in 0 .. NUM_BUCKETS - 1
          PROVE  Cardinality(Bucket(kbuckets', i)) <= K_VALUE
      <3>1. Cardinality(Bucket(kbuckets', i)) = Cardinality(Bucket(kbuckets, i)) + Num(i = ilog2(p))
        BY <1>4, <1>1, <1>t, WithBucket
      <3>2. CASE i = ilog2(p)
        <4>1. ~(Cardinality(Bucket(kbuckets, i)) >= K_VALUE)
          BY <3>2, <1>4 DEF is_full
        <4> QED
          BY <3>1, <3>2, <4>1, <1>b, <1>k DEF Num
      <3>3. CASE i # ilog2(p)
        BY <3>1, <3>3, <1>b DEF Num
      <3> QED
        BY <3>2, <3>3
    <2>3. IsStore(peerstore') /\ Pins(peerstore') \subseteq DOMAIN kbuckets'
      BY <1>4, <2>1, PinPins
    <2> QED
      BY <1>t, <2>1, <2>2, <2>3 DEF TableAndPins, TableInv, BucketsBounded, PinsFollowTable, Pins, LeftStale
  <1>5. ASSUME NEW q \in Candidates(p), p \notin DOMAIN kbuckets,
               kbuckets' = With(Without(kbuckets, {q}), p, info), peerstore' = PS!pin(PS!unpin(ps, q), p)
        PROVE  TableAndPins' /\ LeftStale
    <2> HIDE DEF info
    <2>0. q \in DOMAIN kbuckets /\ IsStale(kbuckets[q]) /\ ilog2(q) = ilog2(p) /\ q # p
      BY <1>5, CandidatesAreStale
    <2> DEFINE t == Without(kbuckets, {q})
    <2>1. IsTable(t) /\ DOMAIN t = DOMAIN kbuckets \ {q} /\ p \notin DOMAIN t
      BY <1>5, <1>t, WithoutTable
    <2>2. \A i : Cardinality(Bucket(t, i)) = Cardinality(Bucket(kbuckets, i)) - Num(i = ilog2(q))
      BY <1>t, <2>0, WithoutBucket
    <2> HIDE DEF t
    <2>3. kbuckets' = With(t, p, info)
      BY <1>5 DEF t
    <2>4. IsTable(kbuckets') /\ DOMAIN kbuckets' = (DOMAIN kbuckets \ {q}) \cup {p}
      BY <1>1, <2>1, <2>3, WithTable
    <2>5. \A i : Cardinality(Bucket(kbuckets', i)) = Cardinality(Bucket(t, i)) + Num(i = ilog2(p))
      BY <1>1, <2>1, <2>3, WithBucket
    <2>6. ASSUME NEW i \in 0 .. NUM_BUCKETS - 1
          PROVE  Cardinality(Bucket(kbuckets', i)) <= K_VALUE
      <3>1. Cardinality(Bucket(kbuckets', i)) = (Cardinality(Bucket(kbuckets, i)) - Num(i = ilog2(q))) + Num(i = ilog2(p))
        BY <2>2, <2>5
      <3>2. Num(i = ilog2(q)) = Num(i = ilog2(p)) /\ Num(i = ilog2(p)) \in Int
        BY <2>0 DEF Num
      <3> QED
        BY <3>1, <3>2, <1>b
    <2>7. IsStore(PS!unpin(ps, q)) /\ Pins(PS!unpin(ps, q)) \subseteq DOMAIN kbuckets \ {q}
      BY UnpinPins
    <2>8. IsStore(peerstore') /\ Pins(peerstore') \subseteq DOMAIN kbuckets'
      BY <1>5, <2>4, <2>7, PinPins
    <2>9. LeftStale
      BY <2>0, <2>4, <1>5 DEF LeftStale
    <2> QED
      BY <1>t, <2>4, <2>6, <2>8, <2>9 DEF TableAndPins, TableInv, BucketsBounded, PinsFollowTable, Pins
  <1>6. p # Self
    BY KadAssumption
  <1> QED
    BY <1>2, <1>3, <1>4, <1>5, <1>6 DEF try_add_peer

\* A forced removal takes out this peer and no other.
LEMMA TryRemovePeer ==
    ASSUME TableAndPins, now' = now, NEW p, NEW forced \in BOOLEAN,
           NEW ps, IsStore(ps), Pins(ps) \subseteq DOMAIN kbuckets,
           try_remove_peer(ps, p, forced)
    PROVE  TableAndPins' /\ DOMAIN kbuckets \ DOMAIN kbuckets' \subseteq IF forced THEN {p} ELSE {}
  <1>t. IsTable(kbuckets) /\ now \in 0 .. MaxTime
    BY DEF TableAndPins, TableInv
  <1>b. \A i \in 0 .. NUM_BUCKETS - 1 : Cardinality(Bucket(kbuckets, i)) <= K_VALUE /\ Cardinality(Bucket(kbuckets, i)) \in Nat
    BY <1>t, BucketCounted DEF TableAndPins, BucketsBounded
  <1>k. K_VALUE \in Nat
    BY KadAssumption
  <1>1. CASE kbuckets' = kbuckets /\ peerstore' = ps
    BY <1>1, TableKept
  <1>2. CASE p \in DOMAIN kbuckets /\ forced /\ kbuckets' = Without(kbuckets, {p}) /\ peerstore' = PS!unpin(ps, p)
    <2>1. IsTable(kbuckets') /\ DOMAIN kbuckets' = DOMAIN kbuckets \ {p}
      BY <1>2, <1>t, WithoutTable
    <2>2. ASSUME NEW i \in 0 .. NUM_BUCKETS - 1
          PROVE  Cardinality(Bucket(kbuckets', i)) <= K_VALUE
      <3>1. Cardinality(Bucket(kbuckets', i)) = Cardinality(Bucket(kbuckets, i)) - Num(i = ilog2(p))
        BY <1>2, <1>t, WithoutBucket
      <3> QED
        BY <3>1, <1>b, <1>k DEF Num
    <2>3. IsStore(peerstore') /\ Pins(peerstore') \subseteq DOMAIN kbuckets'
      BY <1>2, <2>1, UnpinPins
    <2> QED
      BY <1>2, <1>t, <2>1, <2>2, <2>3 DEF TableAndPins, TableInv, BucketsBounded, PinsFollowTable, Pins
  <1>3. CASE p \in DOMAIN kbuckets /\ kbuckets' = [kbuckets EXCEPT ![p].aliveness = None] /\ peerstore' = ps
    <2>1. IsTable(kbuckets') /\ DOMAIN kbuckets' = DOMAIN kbuckets
      BY <1>3, <1>t DEF IsTable
    <2>2. \A i \in 0 .. NUM_BUCKETS - 1 : Bucket(kbuckets', i) = Bucket(kbuckets, i)
      BY <2>1 DEF Bucket
    <2> QED
      BY <1>3, <1>t, <1>b, <2>1, <2>2 DEF TableAndPins, TableInv, BucketsBounded, PinsFollowTable, Pins
  <1> QED
    BY <1>1, <1>2, <1>3 DEF try_remove_peer
-----------------------------------------------------------------------------
(* Every step keeps the table. *)

\* What LeavesForAReason says of a step.
LeavesStep ==
    \A p \in DOMAIN kbuckets \ DOMAIN kbuckets' :
        \/ Command("RemoveNode") /\ cmd.p = p
        \/ /\ IsStale(kbuckets[p])
           /\ \E q \in DOMAIN kbuckets' \ DOMAIN kbuckets : ilog2(q) = ilog2(p)

LEMMA HeadEvent ==
    ASSUME ChannelInv, event_rx # << >>
    PROVE  EventOK(event)
  <1>1. event = event_rx[1] /\ 1 \in 1 .. Len(event_rx)
    BY IsSeqTail DEF ChannelInv, EventsOK, event
  <1> QED
    BY <1>1 DEF ChannelInv, EventsOK

LEMMA HeadCommand ==
    ASSUME ChannelInv, control_rx # << >>
    PROVE  CommandOK(cmd)
  <1>1. cmd = control_rx[1] /\ 1 \in 1 .. Len(control_rx)
    BY IsSeqTail DEF ChannelInv, CommandsOK, cmd
  <1> QED
    BY <1>1 DEF ChannelInv, CommandsOK

LEMMA TableSame ==
    ASSUME TableAndPins, UNCHANGED <<kbuckets, peerstore, now>>
    PROVE  TableAndPins' /\ LeavesStep
  BY DEF TableAndPins, TableInv, BucketsBounded, PinsFollowTable, LeavesStep

LEMMA StoreAndPins ==
    ASSUME TableAndPins
    PROVE  IsStore(peerstore) /\ Pins(peerstore) \subseteq DOMAIN kbuckets /\ IsTable(kbuckets)
  BY DEF TableAndPins, TableInv, PinsFollowTable, Pins

LEMMA StaleIsReason ==
    ASSUME LeftStale
    PROVE  LeavesStep
  BY DEF LeftStale, LeavesStep

LEMMA EventsKeepTable ==
    ASSUME ChannelInv, TableAndPins, on_events
    PROVE  TableAndPins' /\ LeavesStep
  <1>1. CASE handle_peer_connected
    BY <1>1, TableSame DEF handle_peer_connected, tableVars, envVars, Took
  <1>2. CASE handle_peer_disconnected
    BY <1>2, TableSame DEF handle_peer_disconnected, tableVars, envVars, Took
  <1>3. CASE handle_address_changed
    BY <1>3, TableSame DEF handle_address_changed, tableVars, envVars
  <1>4. CASE handle_refresh_timer
    BY <1>4, TableSame DEF handle_refresh_timer, tableVars, envVars, Took
  <1>5. CASE handle_refresh_stage
    BY <1>5, TableSame DEF handle_refresh_stage, tableVars, envVars
  <1>6. CASE handle_ping
    BY <1>6, TableSame DEF handle_ping, tableVars, envVars, Took
  <1>7. CASE handle_find_node
    BY <1>7, TableSame DEF handle_find_node, tableVars, envVars, Took
  <1>8. CASE handle_get_providers
    BY <1>8, TableSame DEF handle_get_providers, tableVars, envVars, Took
  <1>9. CASE handle_put_record
    BY <1>9, TableSame DEF handle_put_record, tableVars, envVars, Took
  <1>10. CASE handle_gc_timer
    BY <1>10, TableSame DEF handle_gc_timer, tableVars, envVars, Took
  <1>20. CASE handle_peer_identified
    <2>1. event_rx # << >> /\ event.type = "PeerIdentified" /\ now' = now
      BY <1>20 DEF handle_peer_identified, Event, event, Took, envVars
    <2>2. event.p \in Peers
      BY <2>1, HeadEvent DEF EventOK, PeerEvents
    <2>3. try_add_peer(peerstore, event.p, FALSE, FALSE) \/ UNCHANGED <<kbuckets, peerstore>>
      BY <1>20 DEF handle_peer_identified, tableVars
    <2> QED
      BY <2>1, <2>2, <2>3, TableSame, TryAddPeer, StoreAndPins, StaleIsReason
  <1>21. CASE handle_peer_found
    <2>1. event_rx # << >> /\ event.type = "KadPeerFound" /\ now' = now
      BY <1>21 DEF handle_peer_found, Event, event, Took, envVars
    <2>2. event.p \in Peers
      BY <2>1, HeadEvent DEF EventOK, PeerEvents
    <2>3. try_add_peer(peerstore, event.p, TRUE, FALSE)
      BY <1>21 DEF handle_peer_found
    <2> QED
      BY <2>1, <2>2, <2>3, TryAddPeer, StoreAndPins, StaleIsReason
  <1>22. CASE handle_peer_stopped
    <2>1. now' = now /\ try_remove_peer(peerstore, event.p, FALSE)
      BY <1>22 DEF handle_peer_stopped, Took, envVars
    <2>2. TableAndPins' /\ DOMAIN kbuckets \ DOMAIN kbuckets' = {}
      BY <2>1, TryRemovePeer, StoreAndPins
    <2> QED
      BY <2>2 DEF LeavesStep
  <1>23. CASE handle_add_provider
    <2>1. event_rx # << >> /\ event.type = "AddProvider" /\ now' = now /\ kbuckets' = kbuckets
      BY <1>23 DEF handle_add_provider, Event, event, Took, envVars
    <2>2. event.p \in Peers
      BY <2>1, HeadEvent DEF EventOK, PeerEvents
    <2>3. peerstore' = peerstore \/ peerstore' = PS!add_addrs(peerstore, event.p, {event.p}, addr_ttl, now)
      BY <1>23 DEF handle_add_provider
    <2>4. IsStore(peerstore') /\ Pins(peerstore') \subseteq DOMAIN kbuckets
      BY <2>2, <2>3, StoreAndPins, AddAddrsPins
    <2> QED
      BY <2>1, <2>4, TableKept, StaleIsReason
  <1> QED
    BY <1>1, <1>2, <1>3, <1>4, <1>5, <1>6, <1>7, <1>8, <1>9, <1>10, <1>20, <1>21, <1>22, <1>23 DEF on_events

LEMMA AddNodeKeepsTable ==
    ASSUME TableAndPins, NEW p \in Peers, AddNode(p), now' = now
    PROVE  TableAndPins' /\ LeavesStep
  <1> DEFINE ps == PS!add_addrs(peerstore, p, {p}, addr_ttl, now)
  <1>1. IsStore(ps) /\ Pins(ps) \subseteq DOMAIN kbuckets
    BY StoreAndPins, AddAddrsPins
  <1>2. try_add_peer(ps, p, FALSE, TRUE)
    BY DEF AddNode
  <1> HIDE DEF ps
  <1> QED
    BY <1>1, <1>2, TryAddPeer, StaleIsReason

LEMMA CommandsKeepTable ==
    ASSUME ChannelInv, TableAndPins, on_control_command
    PROVE  TableAndPins' /\ LeavesStep
  <1>1. CASE lookup
    BY <1>1, TableSame DEF lookup, tableVars, envVars, Took2
  <1>2. CASE find_peer
    BY <1>2, TableSame DEF find_peer, tableVars, envVars, Took2
  <1>3. CASE find_providers
    BY <1>3, TableSame DEF find_providers, tableVars, envVars, Took2
  <1>4. CASE get_record
    BY <1>4, TableSame DEF get_record, tableVars, envVars, Took2
  <1>5. CASE put_record
    BY <1>5, TableSame DEF put_record, tableVars, envVars, Took2
  <1>6. CASE start_providing
    BY <1>6, TableSame DEF start_providing, tableVars, envVars, Took2
  <1>7. CASE stop_providing
    BY <1>7, TableSame DEF stop_providing, tableVars, envVars, Took2
  <1>8. CASE LoopEnds
    BY <1>8, TableSame DEF LoopEnds, tableVars, envVars
  <1>20. CASE bootstrap
    <2>1. control_rx # << >> /\ cmd.type = "Bootstrap" /\ now' = now
      BY <1>20 DEF bootstrap, Command, cmd, Took2, envVars
    <2>2. cmd.p \in Peers \cup {None}
      BY <2>1, HeadCommand DEF CommandOK
    <2>3. UNCHANGED <<kbuckets, peerstore>> \/ (cmd.p # None /\ AddNode(cmd.p))
      BY <1>20 DEF bootstrap, tableVars
    <2> QED
      BY <2>1, <2>2, <2>3, TableSame, AddNodeKeepsTable
  <1>21. CASE add_node
    <2>1. control_rx # << >> /\ cmd.type = "AddNode" /\ now' = now
      BY <1>21 DEF add_node, Command, cmd, Took2, envVars
    <2>2. cmd.p \in Peers
      BY <2>1, HeadCommand DEF CommandOK
    <2> QED
      BY <1>21, <2>1, <2>2, AddNodeKeepsTable DEF add_node
  <1>22. CASE remove_node
    <2> DEFINE ps == PS!clear_addrs(peerstore, cmd.p)
    <2>1. now' = now /\ try_remove_peer(ps, cmd.p, TRUE) /\ Command("RemoveNode")
      BY <1>22 DEF remove_node, Took2, envVars
    <2>2. IsStore(ps) /\ Pins(ps) \subseteq DOMAIN kbuckets
      BY StoreAndPins, ClearAddrsPins
    <2> HIDE DEF ps
    <2>3. TableAndPins' /\ DOMAIN kbuckets \ DOMAIN kbuckets' \subseteq {cmd.p}
      BY <2>1, <2>2, TryRemovePeer
    <2> QED
      BY <2>1, <2>3 DEF LeavesStep
  <1> QED
    BY <1>1, <1>2, <1>3, <1>4, <1>5, <1>6, <1>7, <1>8, <1>20, <1>21, <1>22 DEF on_control_command

LEMMA OthersKeepTable ==
    ASSUME TableAndPins, Tasks \/ Environment
    PROVE  TableAndPins' /\ LeavesStep
  <1>1. CASE WalkAsks
    BY <1>1, TableSame DEF WalkAsks, tableVars, envVars
  <1>2. CASE WalkEnds
    BY <1>2, TableSame DEF WalkEnds, tableVars, envVars
  <1>3. CASE \E i \in 1 .. Len(queries) : QueryEnds(i)
    BY <1>3, TableSame DEF QueryEnds, tableVars, envVars
  <1>4. CASE \E i \in 1 .. Len(checks) : CheckEnds(i)
    BY <1>4, TableSame DEF CheckEnds, tableVars, envVars
  <1>5. CASE \E i \in 1 .. Len(checks), ok \in BOOLEAN : CheckPeer(i, ok)
    BY <1>5, TableSame DEF CheckPeer, tableVars, envVars
  <1>6. CASE \E p \in Peers : connected(p)
    BY <1>6, TableSame DEF connected, tableVars, envVars, EnvOnly
  <1>7. CASE \E p \in Peers : disconnected(p)
    BY <1>7, TableSame DEF disconnected, tableVars, envVars, EnvOnly
  <1>8. CASE \E p \in Peers : QueryMisses(p)
    BY <1>8, TableSame DEF QueryMisses, tableVars, envVars
  <1>9. CASE address_changed(1 - local_addrs)
    BY <1>9, TableSame DEF address_changed, tableVars, envVars, EnvOnly
  <1>10. CASE \E p, type, k, v : handle(p, type, k, v)
    BY <1>10, TableSame DEF handle, tableVars, envVars, EnvOnly
  <1>11. CASE \E p, type, k, v : Send(type, p, k, v)
    BY <1>11, TableSame DEF Send, tableVars, envVars, EnvOnly
  <1>12. CASE \E c, p : SendBootstrap(c, p)
    BY <1>12, TableSame DEF SendBootstrap, tableVars, envVars, EnvOnly
  <1>13. CASE \E type : Timer(type)
    BY <1>13, TableSame DEF Timer, tableVars, envVars, EnvOnly
  <1>14. CASE close
    BY <1>14, TableSame DEF close, tableVars, envVars
  <1>20. ASSUME NEW p \in Peers, NEW q \in Peers, QueryMeets(p, q)
         PROVE  TableAndPins' /\ LeavesStep
    <2>1. peerstore' = PS!add_addrs(peerstore, q, {q}, addr_ttl, now) /\ kbuckets' = kbuckets /\ now' = now
      BY <1>20 DEF QueryMeets
    <2> QED
      BY <2>1, StoreAndPins, AddAddrsPins, TableKept, StaleIsReason
  <1>21. ASSUME NEW p \in Peers, NEW protos, identified(p, protos)
         PROVE  TableAndPins' /\ LeavesStep
    <2>1. peerstore' = PS!add_protocols(peerstore, p, protos) /\ kbuckets' = kbuckets /\ now' = now
      BY <1>21 DEF identified, EnvOnly
    <2> QED
      BY <2>1, StoreAndPins, AddProtocolsPins, TableKept, StaleIsReason
  <1>22. CASE PeerStoreGc
    <2>1. peerstore' = PS!remove_expired_addrs(peerstore, now) /\ kbuckets' = kbuckets /\ now' = now
      BY <1>22 DEF PeerStoreGc, EnvOnly
    <2> QED
      BY <2>1, StoreAndPins, GcPins, TableKept, StaleIsReason
  <1>23. CASE Tick
    <2>1. now' \in 0 .. MaxTime /\ kbuckets' = kbuckets /\ peerstore' = peerstore
      BY <1>23, KadAssumption DEF Tick, tableVars, TableAndPins, TableInv
    <2> QED
      BY <2>1 DEF TableAndPins, TableInv, BucketsBounded, PinsFollowTable, LeavesStep
  <1> QED
    BY <1>1, <1>2, <1>3, <1>4, <1>5, <1>6, <1>7, <1>8, <1>9, <1>10, <1>11, <1>12, <1>13, <1>14, <1>20, <1>21, <1>22, <1>23, Zenon DEF Tasks, Environment

LEMMA TableStep ==
    ASSUME ChannelInv, TableAndPins, [Next]_vars
    PROVE  TableAndPins' /\ (LeavesStep \/ UNCHANGED vars)
  <1>1. CASE UNCHANGED vars
    BY <1>1, TableSame DEF vars, tableVars, envVars
  <1> QED
    BY <1>1, EventsKeepTable, CommandsKeepTable, OthersKeepTable DEF Next
-----------------------------------------------------------------------------
(* The channels, the queries and the stages of a refresh. *)

Counted == WalkCommands \in Nat /\ WalkQueries \in Nat /\ SelfQueries \in Nat /\ Stages \in Nat

LEMMA CountTypes ==
    ASSUME ChannelInv
    PROVE  Counted
  BY MsgsAppend, PurposesAppend
     DEF ChannelInv, EventsOK, CommandsOK, QueriesOK, Counted, WalkCommands, WalkQueries, SelfQueries, Stages

\* An event arrives, or is taken.
LEMMA EventAppended ==
    ASSUME EventsOK, NEW e, EventOK(e), event_rx' = Append(event_rx, e)
    PROVE  EventsOK' /\ Stages' = Stages + Num(e.type \in StageEvents)
  <1>1. Stages' = Stages + Num(e.type \in StageEvents)
    BY MsgsAppend DEF EventsOK, Stages
  <1>2. /\ IsSeq(event_rx') /\ Len(event_rx') = Len(event_rx) + 1 /\ Len(event_rx) \in Nat
        /\ event_rx'[Len(event_rx) + 1] = e /\ \A i \in 1 .. Len(event_rx) : event_rx'[i] = event_rx[i]
    BY IsSeqAppend, SeqFacts DEF EventsOK
  <1>3. ASSUME NEW i \in 1 .. Len(event_rx')
        PROVE  EventOK(event_rx'[i])
    <2>1. CASE i = Len(event_rx) + 1
      BY <2>1, <1>2
    <2>2. CASE i \in 1 .. Len(event_rx)
      <3>1. EventOK(event_rx[i])
        BY <2>2 DEF EventsOK
      <3>2. event_rx'[i] = event_rx[i]
        BY <2>2, <1>2
      <3> QED
        BY <3>1, <3>2
    <2> QED
      BY <2>1, <2>2, <1>2
  <1> QED
    BY <1>1, <1>2, <1>3 DEF EventsOK

LEMMA EventTaken ==
    ASSUME EventsOK, event_rx # << >>, event_rx' = Tail(event_rx)
    PROVE  EventsOK' /\ Stages' = Stages - Num(event.type \in StageEvents)
  <1>1. Stages' = Stages - Num(event.type \in StageEvents)
    BY MsgsTail DEF EventsOK, Stages, event
  <1>2. /\ IsSeq(event_rx') /\ Len(event_rx') = Len(event_rx) - 1 /\ Len(event_rx) \in Nat
        /\ \A i \in 1 .. Len(event_rx) - 1 : event_rx'[i] = event_rx[i + 1]
    BY IsSeqTail DEF EventsOK
  <1>3. ASSUME NEW i \in 1 .. Len(event_rx')
        PROVE  EventOK(event_rx'[i])
    <2>1. i + 1 \in 1 .. Len(event_rx) /\ event_rx'[i] = event_rx[i + 1]
      BY <1>2
    <2>2. EventOK(event_rx[i + 1])
      BY <2>1 DEF EventsOK
    <2> QED
      BY <2>1, <2>2
  <1> QED
    BY <1>1, <1>2, <1>3 DEF EventsOK

LEMMA CommandAppended ==
    ASSUME CommandsOK, NEW c, CommandOK(c), control_rx' = Append(control_rx, c)
    PROVE  CommandsOK' /\ WalkCommands' = WalkCommands + Num(c.type = "WalkLookup")
  <1>1. WalkCommands' = WalkCommands + Num(c.type \in {"WalkLookup"})
    BY MsgsAppend DEF CommandsOK, WalkCommands
  <1>0. Num(c.type \in {"WalkLookup"}) = Num(c.type = "WalkLookup")
    BY DEF Num
  <1>2. /\ IsSeq(control_rx') /\ Len(control_rx') = Len(control_rx) + 1 /\ Len(control_rx) \in Nat
        /\ control_rx'[Len(control_rx) + 1] = c /\ \A i \in 1 .. Len(control_rx) : control_rx'[i] = control_rx[i]
    BY IsSeqAppend, SeqFacts DEF CommandsOK
  <1>3. ASSUME NEW i \in 1 .. Len(control_rx')
        PROVE  CommandOK(control_rx'[i])
    <2>1. CASE i = Len(control_rx) + 1
      BY <2>1, <1>2
    <2>2. CASE i \in 1 .. Len(control_rx)
      <3>1. CommandOK(control_rx[i])
        BY <2>2 DEF CommandsOK
      <3>2. control_rx'[i] = control_rx[i]
        BY <2>2, <1>2
      <3> QED
        BY <3>1, <3>2
    <2> QED
      BY <2>1, <2>2, <1>2
  <1> QED
    BY <1>0, <1>1, <1>2, <1>3 DEF CommandsOK

LEMMA CommandTaken ==
    ASSUME CommandsOK, control_rx # << >>, control_rx' = Tail(control_rx)
    PROVE  CommandsOK' /\ WalkCommands' = WalkCommands - Num(cmd.type = "WalkLookup")
  <1>1. WalkCommands' = WalkCommands - Num(cmd.type \in {"WalkLookup"})
    BY MsgsTail DEF CommandsOK, WalkCommands, cmd
  <1>0. Num(cmd.type \in {"WalkLookup"}) = Num(cmd.type = "WalkLookup")
    BY DEF Num
  <1>2. /\ IsSeq(control_rx') /\ Len(control_rx') = Len(control_rx) - 1 /\ Len(control_rx) \in Nat
        /\ \A i \in 1 .. Len(control_rx) - 1 : control_rx'[i] = control_rx[i + 1]
    BY IsSeqTail DEF CommandsOK
  <1>3. ASSUME NEW i \in 1 .. Len(control_rx')
        PROVE  CommandOK(control_rx'[i])
    <2>1. i + 1 \in 1 .. Len(control_rx) /\ control_rx'[i] = control_rx[i + 1]
      BY <1>2
    <2>2. CommandOK(control_rx[i + 1])
      BY <2>1 DEF CommandsOK
    <2> QED
      BY <2>1, <2>2
  <1> QED
    BY <1>0, <1>1, <1>2, <1>3 DEF CommandsOK

LEMMA QueryStarted ==
    ASSUME QueriesOK, NEW q, q.purpose \in {"refresh", "walk", "user"}, queries' = Append(queries, q)
    PROVE  /\ QueriesOK'
           /\ WalkQueries' = WalkQueries + Num(q.purpose = "walk")
           /\ SelfQueries' = SelfQueries + Num(q.purpose = "refresh")
  <1>1. WalkQueries' = WalkQueries + Num(q.purpose \in {"walk"}) /\ SelfQueries' = SelfQueries + Num(q.purpose \in {"refresh"})
    BY PurposesAppend DEF QueriesOK, WalkQueries, SelfQueries
  <1>0. Num(q.purpose \in {"walk"}) = Num(q.purpose = "walk") /\ Num(q.purpose \in {"refresh"}) = Num(q.purpose = "refresh")
    BY DEF Num
  <1>2. /\ IsSeq(queries') /\ Len(queries') = Len(queries) + 1 /\ Len(queries) \in Nat
        /\ queries'[Len(queries) + 1] = q /\ \A i \in 1 .. Len(queries) : queries'[i] = queries[i]
    BY IsSeqAppend, SeqFacts DEF QueriesOK
  <1>3. ASSUME NEW i \in 1 .. Len(queries')
        PROVE  queries'[i].purpose \in {"refresh", "walk", "user"}
    <2>1. CASE i = Len(queries) + 1
      BY <2>1, <1>2
    <2>2. CASE i \in 1 .. Len(queries)
      BY <2>2, <1>2 DEF QueriesOK
    <2> QED
      BY <2>1, <2>2, <1>2
  <1> QED
    BY <1>0, <1>1, <1>2, <1>3 DEF QueriesOK

LEMMA QueryRemoved ==
    ASSUME QueriesOK, NEW j \in 1 .. Len(queries), queries' = RemoveAt(queries, j)
    PROVE  /\ QueriesOK'
           /\ WalkQueries' = WalkQueries - Num(queries[j].purpose = "walk")
           /\ SelfQueries' = SelfQueries - Num(queries[j].purpose = "refresh")
  <1>1. /\ WalkQueries' = WalkQueries - Num(queries[j].purpose \in {"walk"})
        /\ SelfQueries' = SelfQueries - Num(queries[j].purpose \in {"refresh"})
    BY PurposesRemove DEF QueriesOK, WalkQueries, SelfQueries
  <1>0. /\ Num(queries[j].purpose \in {"walk"}) = Num(queries[j].purpose = "walk")
        /\ Num(queries[j].purpose \in {"refresh"}) = Num(queries[j].purpose = "refresh")
    BY DEF Num
  <1>2. /\ IsSeq(queries') /\ Len(queries') = Len(queries) - 1 /\ Len(queries) \in Nat
        /\ \A i \in 1 .. Len(queries) - 1 : queries'[i] = queries[IF i < j THEN i ELSE i + 1]
    BY IsSeqRemove DEF QueriesOK
  <1>3. ASSUME NEW i \in 1 .. Len(queries')
        PROVE  queries'[i].purpose \in {"refresh", "walk", "user"}
    <2>1. (IF i < j THEN i ELSE i + 1) \in 1 .. Len(queries)
      BY <1>2
    <2> QED
      BY <1>2, <2>1 DEF QueriesOK
  <1> QED
    BY <1>0, <1>1, <1>2, <1>3 DEF QueriesOK

ChanStage == ChannelInv /\ StageInv

\* The events, the commands and the queries on their own.
LEMMA EventsKept ==
    ASSUME UNCHANGED event_rx
    PROVE  (EventsOK' <=> EventsOK) /\ Stages' = Stages
  BY DEF EventsOK, Stages
LEMMA CommandsKept ==
    ASSUME UNCHANGED control_rx
    PROVE  (CommandsOK' <=> CommandsOK) /\ WalkCommands' = WalkCommands
  BY DEF CommandsOK, WalkCommands
LEMMA QueriesKept ==
    ASSUME UNCHANGED queries
    PROVE  (QueriesOK' <=> QueriesOK) /\ WalkQueries' = WalkQueries /\ SelfQueries' = SelfQueries
  BY DEF QueriesOK, WalkQueries, SelfQueries

LEMMA ChanSame ==
    ASSUME ChanStage, UNCHANGED <<event_rx, control_rx, control_open, running, queries, walk, refreshing>>
    PROVE  ChanStage'
  BY EventsKept, CommandsKept, QueriesKept
     DEF ChanStage, ChannelInv, StageInv, WalkTypes, WalkExclusive, RefreshCounted

\* An event that is no stage of a refresh is taken.
LEMMA TookKeeps ==
    ASSUME ChanStage, running, event_rx # << >>, event.type \notin StageEvents, event_rx' = Tail(event_rx),
           UNCHANGED <<control_rx, control_open, running, queries, walk, refreshing>>
    PROVE  ChanStage'
  <1>1. EventsOK' /\ Stages' = Stages - Num(event.type \in StageEvents) /\ Stages \in Nat
    BY EventTaken, CountTypes DEF ChanStage, ChannelInv, Counted
  <1>2. Stages' = Stages
    BY <1>1 DEF Num
  <1> QED
    BY <1>1, <1>2, CommandsKept, QueriesKept
       DEF ChanStage, ChannelInv, StageInv, WalkTypes, WalkExclusive, RefreshCounted

\* An event that is no stage of a refresh arrives.
LEMMA PostKeeps ==
    ASSUME ChanStage, NEW e, EventOK(e), e.type \notin StageEvents, Post(e),
           UNCHANGED <<control_rx, control_open, running, queries, walk, refreshing>>
    PROVE  ChanStage'
  <1>1. CASE ~running
    BY <1>1, ChanSame DEF Post
  <1>2. CASE running
    <2>1. EventsOK' /\ Stages' = Stages + Num(e.type \in StageEvents) /\ Stages \in Nat
      BY <1>2, EventAppended, CountTypes DEF ChanStage, ChannelInv, Counted, Post
    <2>2. Stages' = Stages
      BY <2>1 DEF Num
    <2> QED
      BY <1>2, <2>1, <2>2, CommandsKept, QueriesKept
         DEF ChanStage, ChannelInv, StageInv, WalkTypes, WalkExclusive, RefreshCounted
  <1> QED
    BY <1>1, <1>2 DEF ChanStage, ChannelInv

\* A command that is not the walk's is taken, and may start a query of the API.
LEMMA CommandKeeps ==
    ASSUME ChanStage, running, control_rx # << >>, cmd.type # "WalkLookup", control_rx' = Tail(control_rx),
           queries' = queries \/ Query("user"),
           UNCHANGED <<event_rx, control_open, running, walk, refreshing>>
    PROVE  ChanStage'
  <1>0. Counted
    BY CountTypes DEF ChanStage
  <1>1. CommandsOK' /\ WalkCommands' = WalkCommands
    <2>1. CommandsOK' /\ WalkCommands' = WalkCommands - Num(cmd.type = "WalkLookup")
      BY CommandTaken DEF ChanStage, ChannelInv
    <2> QED
      BY <2>1, <1>0 DEF Num, Counted
  <1>2. QueriesOK' /\ WalkQueries' = WalkQueries /\ SelfQueries' = SelfQueries
    <2>1. CASE queries' = queries
      BY <2>1, QueriesKept DEF ChanStage, ChannelInv
    <2>2. CASE Query("user")
      <3> DEFINE q == [purpose |-> "user", caller |-> None]
      <3>1. q.purpose = "user" /\ queries' = Append(queries, q)
        BY <2>2 DEF Query
      <3> HIDE DEF q
      <3>2. QueriesOK' /\ WalkQueries' = WalkQueries + Num(q.purpose = "walk") /\ SelfQueries' = SelfQueries + Num(q.purpose = "refresh")
        BY <3>1, QueryStarted DEF ChanStage, ChannelInv
      <3> QED
        BY <3>1, <3>2, <1>0 DEF Num, Counted
    <2> QED
      BY <2>1, <2>2
  <1> QED
    BY <1>1, <1>2, EventsKept
       DEF ChanStage, ChannelInv, StageInv, WalkTypes, WalkExclusive, RefreshCounted

LEMMA SendKeeps ==
    ASSUME ChanStage, control_open, NEW c, CommandOK(c), c.type # "WalkLookup", control_rx' = Append(control_rx, c),
           UNCHANGED <<event_rx, control_open, running, queries, walk, refreshing>>
    PROVE  ChanStage'
  <1>1. CommandsOK' /\ WalkCommands' = WalkCommands
    <2>1. CommandsOK' /\ WalkCommands' = WalkCommands + Num(c.type = "WalkLookup")
      BY CommandAppended DEF ChanStage, ChannelInv
    <2> QED
      BY <2>1, CountTypes DEF Num, Counted, ChanStage
  <1>2. running
    BY DEF ChanStage, ChannelInv
  <1> QED
    BY <1>1, <1>2, QueriesKept, EventsKept
       DEF ChanStage, ChannelInv, StageInv, WalkTypes, WalkExclusive, RefreshCounted

\* A refresh starts only when there is none: the flag is the count.
LEMMA RefreshStarts ==
    ASSUME ChanStage, running, event_rx # << >>, event.type \notin StageEvents, NEW c,
           handle_refresh_start(c, Tail(event_rx)), UNCHANGED <<control_rx, control_open, running>>
    PROVE  ChanStage'
  <1>1. CASE refreshing \/ num_entries(kbuckets) = 0
    BY <1>1, TookKeeps DEF handle_refresh_start
  <1>2. CASE ~refreshing /\ num_entries(kbuckets) # 0
    <2> DEFINE q == [purpose |-> "refresh", caller |-> c]
    <2>1. /\ q.purpose = "refresh" /\ queries' = Append(queries, q) /\ refreshing' = TRUE /\ walk' = walk
          /\ event_rx' = Tail(event_rx)
      BY <1>2 DEF handle_refresh_start
    <2> HIDE DEF q
    <2>2. QueriesOK' /\ WalkQueries' = WalkQueries + Num(q.purpose = "walk") /\ SelfQueries' = SelfQueries + Num(q.purpose = "refresh")
      BY <2>1, QueryStarted DEF ChanStage, ChannelInv
    <2>3. EventsOK' /\ Stages' = Stages - Num(event.type \in StageEvents)
      BY <2>1, EventTaken DEF ChanStage, ChannelInv
    <2>4. Counted
      BY CountTypes DEF ChanStage
    <2>5. WalkQueries' = WalkQueries /\ SelfQueries' = SelfQueries + 1 /\ Stages' = Stages
      BY <2>1, <2>2, <2>3, <2>4 DEF Num, Counted
    <2>6. SelfQueries = 0 /\ Stages = 0 /\ walk = NoWalk
      BY <1>2, <2>4 DEF ChanStage, StageInv, RefreshCounted, Num, Counted
    <2>7. ChannelInv'
      BY <2>2, <2>3, CommandsKept DEF ChanStage, ChannelInv
    <2>8. RefreshCounted'
      BY <2>1, <2>5, <2>6 DEF RefreshCounted, Num
    <2>9. WalkTypes' /\ WalkExclusive'
      BY <2>1, <2>5, CommandsKept DEF ChanStage, StageInv, WalkTypes, WalkExclusive
    <2> QED
      BY <2>1, <2>7, <2>8, <2>9 DEF ChanStage, StageInv
  <1> QED
    BY <1>1, <1>2

LEMMA MinIsMember ==
    ASSUME NEW S, S \subseteq Nat, S # {}
    PROVE  Min(S) \in S
  <1>1. \E x \in S : \A y \in S : ~(<<y, x>> \in OpToRel(<, Nat))
    BY NatLessThanWellFounded, WFMin
  <1>2. \E x \in S : \A y \in S : ~(y < x)
    BY <1>1 DEF OpToRel
  <1>3. \E x \in S : \A y \in S : x =< y
    BY <1>2
  <1> QED
    BY <1>3 DEF Min

\* The keys of a walk: never a negative number, which would be no walk.
LEMMA WalkLength ==
    ASSUME NEW c, handle_self_query_done(c)
    PROVE  /\ walk' = [left |-> walk'.left, asking |-> FALSE, caller |-> c]
           /\ walk'.left \in 0 .. NUM_BUCKETS
           /\ refreshing' = refreshing /\ queries' = queries
  <1> DEFINE used == {i \in 0 .. NUM_BUCKETS - 1 : Bucket(kbuckets, i) # {}}
             left == IF used = {} THEN 0 ELSE Min({16, NUM_BUCKETS - 1 - Min(used)})
  <1>n. NUM_BUCKETS \in Nat \ {0}
    BY KadAssumption
  <1>1. walk' = [left |-> left, asking |-> FALSE, caller |-> c] /\ refreshing' = refreshing /\ queries' = queries
    BY DEF handle_self_query_done
  <1>2. used \subseteq 0 .. NUM_BUCKETS - 1
    OBVIOUS
  <1> HIDE DEF used
  <1>3. left \in 0 .. NUM_BUCKETS
    <2>1. CASE used = {}
      BY <2>1, <1>n
    <2>2. CASE used # {}
      <3>1. Min(used) \in 0 .. NUM_BUCKETS - 1
        <4>1. used \subseteq Nat
          BY <1>2, <1>n
        <4>2. Min(used) \in used
          BY <4>1, <2>2, MinIsMember
        <4> QED
          BY <4>2, <1>2
      <3> DEFINE m == NUM_BUCKETS - 1 - Min(used)
      <3>2. m \in Nat /\ m <= NUM_BUCKETS
        BY <3>1, <1>n
      <3> HIDE DEF m
      <3>3. Min({16, m}) \in {16, m} /\ Min({16, m}) <= m
        <4>1. \E x \in {16, m} : \A y \in {16, m} : x =< y
          BY <3>2
        <4>2. Min({16, m}) \in {16, m} /\ \A y \in {16, m} : Min({16, m}) =< y
          BY <4>1 DEF Min
        <4> QED
          BY <4>2
      <3>4. left = Min({16, m})
        BY <2>2 DEF m
      <3> HIDE DEF left
      <3> QED
        BY <3>2, <3>3, <3>4, <1>n
    <2> QED
      BY <2>1, <2>2
  <1> HIDE DEF left
  <1> QED
    BY <1>1, <1>3

LEMMA WalkBegins ==
    ASSUME ChanStage, running, event_rx # << >>, event.type = "SelfQueryDone", NEW c,
           handle_self_query_done(c), event_rx' = Tail(event_rx), UNCHANGED <<control_rx, control_open, running>>
    PROVE  ChanStage'
  <1>1. EventsOK' /\ Stages' = Stages - Num(event.type \in StageEvents)
    BY EventTaken DEF ChanStage, ChannelInv
  <1>2. Counted
    BY CountTypes DEF ChanStage
  <1>3. Stages' = Stages - 1 /\ Stages' \in Nat
    <2>1. Stages' = Stages - 1
      BY <1>1, <1>2 DEF Num, StageEvents, Counted
    <2>2. Stages' \in Nat
      BY <1>1, MsgsAppend DEF EventsOK, Stages
    <2> QED
      BY <2>1, <2>2
  <1>4. Stages = 1 /\ SelfQueries = 0 /\ walk = NoWalk /\ refreshing
    BY <1>2, <1>3 DEF ChanStage, StageInv, RefreshCounted, Num, Counted
  <1>5. /\ walk' = [left |-> walk'.left, asking |-> FALSE, caller |-> c]
        /\ walk'.left \in 0 .. NUM_BUCKETS
        /\ refreshing' = refreshing /\ queries' = queries
    BY WalkLength
  <1>6. walk' # NoWalk /\ ~walk'.asking /\ ~walk.asking
    BY <1>4, <1>5 DEF NoWalk
  <1>7. ChannelInv'
    BY <1>1, <1>5, CommandsKept, QueriesKept DEF ChanStage, ChannelInv
  <1>8. RefreshCounted'
    BY <1>3, <1>4, <1>5, <1>6, QueriesKept DEF RefreshCounted, Num
  <1>9. WalkTypes'
    <2>1. walk'.asking = FALSE /\ walk'.caller = c /\ walk'.left \in -1 .. NUM_BUCKETS /\ walk'.left # -1
      BY <1>5, KadAssumption
    <2>2. walk' = [left |-> walk'.left, asking |-> walk'.asking, caller |-> walk'.caller]
      BY <1>5, <2>1
    <2> QED
      BY <2>1, <2>2 DEF WalkTypes
  <1>10. WalkExclusive'
    BY <1>5, <1>6, QueriesKept, CommandsKept DEF WalkExclusive, ChanStage, StageInv, Num
  <1> QED
    BY <1>5, <1>7, <1>8, <1>9, <1>10 DEF ChanStage, StageInv

LEMMA RefreshCompletes ==
    ASSUME ChanStage, running, event_rx # << >>, event.type = "Completed",
           handle_refresh_completed, event_rx' = Tail(event_rx), UNCHANGED <<control_rx, control_open, running>>
    PROVE  ChanStage'
  <1>1. EventsOK' /\ Stages' = Stages - Num(event.type \in StageEvents)
    BY EventTaken DEF ChanStage, ChannelInv
  <1>2. Counted
    BY CountTypes DEF ChanStage
  <1>3. Stages' = Stages - 1 /\ Stages' \in Nat
    <2>1. Stages' = Stages - 1
      BY <1>1, <1>2 DEF Num, StageEvents, Counted
    <2>2. Stages' \in Nat
      BY <1>1, MsgsAppend DEF EventsOK, Stages
    <2> QED
      BY <2>1, <2>2
  <1>4. Stages = 1 /\ SelfQueries = 0 /\ walk = NoWalk
    BY <1>2, <1>3 DEF ChanStage, StageInv, RefreshCounted, Num, Counted
  <1>5. refreshing' = FALSE /\ UNCHANGED <<queries, walk>>
    BY DEF handle_refresh_completed
  <1>7. ChannelInv'
    BY <1>1, <1>5, CommandsKept, QueriesKept DEF ChanStage, ChannelInv
  <1>8. RefreshCounted'
    BY <1>3, <1>4, <1>5, QueriesKept DEF RefreshCounted, Num
  <1>9. WalkTypes' /\ WalkExclusive'
    BY <1>5, QueriesKept, CommandsKept DEF WalkTypes, WalkExclusive, ChanStage, StageInv
  <1> QED
    BY <1>5, <1>7, <1>8, <1>9 DEF ChanStage, StageInv

LEMMA WalkAsksKeeps ==
    ASSUME ChanStage, WalkAsks
    PROVE  ChanStage'
  <1>0. /\ walk.left > 0 /\ ~walk.asking /\ walk # NoWalk
        /\ UNCHANGED <<refreshing, queries, event_rx, control_open, running>>
        /\ walk = [left |-> walk.left, asking |-> walk.asking, caller |-> walk.caller] /\ walk.left \in -1 .. NUM_BUCKETS
    BY DEF WalkAsks, NoWalk, ChanStage, StageInv, WalkTypes
  <1>n. NUM_BUCKETS \in Nat
    BY KadAssumption
  <1>c. Counted
    BY CountTypes DEF ChanStage
  <1>1. CASE control_open
    <2> DEFINE c == Msg("WalkLookup", None, None, None)
    <2>1. control_rx' = Append(control_rx, c) /\ walk' = [walk EXCEPT !.asking = TRUE]
      BY <1>1 DEF WalkAsks
    <2>2. c.type = "WalkLookup" /\ CommandOK(c)
      BY DEF Msg, CommandOK
    <2> HIDE DEF c
    <2>3. CommandsOK' /\ WalkCommands' = WalkCommands + 1
      BY <2>1, <2>2, CommandAppended DEF ChanStage, ChannelInv, Num
    <2>4. walk' = [left |-> walk.left, asking |-> TRUE, caller |-> walk.caller]
      BY <2>1, <1>0
    <2>5. running
      BY <1>1 DEF ChanStage, ChannelInv
    <2>6. ChannelInv'
      BY <1>0, <2>3, <2>5, EventsKept, QueriesKept DEF ChanStage, ChannelInv
    <2>7. walk' # NoWalk /\ walk'.asking /\ walk'.left = walk.left
      BY <2>4 DEF NoWalk
    <2>8. WalkTypes'
      BY <1>0, <2>4, <2>5, <2>7 DEF WalkTypes
    <2>9. WalkExclusive'
      BY <1>0, <1>c, <2>3, <2>5, <2>7, QueriesKept DEF ChanStage, StageInv, WalkExclusive, Num, Counted
    <2>10. RefreshCounted'
      BY <1>0, <2>7, QueriesKept, EventsKept DEF ChanStage, StageInv, RefreshCounted, Num
    <2> QED
      BY <1>0, <2>6, <2>8, <2>9, <2>10 DEF ChanStage, StageInv
  <1>2. CASE ~control_open
    <2>1. walk' = [walk EXCEPT !.left = @ - 1] /\ control_rx' = control_rx
      BY <1>2 DEF WalkAsks
    <2>2. walk' = [left |-> walk.left - 1, asking |-> walk.asking, caller |-> walk.caller]
      BY <2>1, <1>0
    <2>3. walk'.left = walk.left - 1 /\ walk'.asking = walk.asking /\ walk'.left >= 0
      BY <2>2, <1>0, <1>n
    <2>4. walk' # NoWalk
      BY <2>3 DEF NoWalk
    <2>6. ChannelInv'
      BY <1>0, <2>1, EventsKept, QueriesKept, CommandsKept DEF ChanStage, ChannelInv
    <2>8. WalkTypes'
      <3>1. walk' = [left |-> walk'.left, asking |-> walk'.asking, caller |-> walk'.caller]
        BY <2>2
      <3>2. walk'.left \in -1 .. NUM_BUCKETS /\ walk'.left # -1
        BY <1>0, <1>n, <2>3
      <3>3. walk'.asking \in BOOLEAN /\ ~walk'.asking
        BY <1>0, <2>3 DEF ChanStage, StageInv, WalkTypes
      <3> QED
        BY <3>1, <3>2, <3>3 DEF WalkTypes
    <2>9. WalkExclusive'
      BY <1>0, <2>1, <2>3, QueriesKept, CommandsKept DEF ChanStage, StageInv, WalkExclusive
    <2>10. RefreshCounted'
      BY <1>0, <2>4, QueriesKept, EventsKept DEF ChanStage, StageInv, RefreshCounted, Num
    <2> QED
      BY <1>0, <2>6, <2>8, <2>9, <2>10 DEF ChanStage, StageInv
  <1> QED
    BY <1>1, <1>2

LEMMA WalkEndsKeeps ==
    ASSUME ChanStage, WalkEnds
    PROVE  ChanStage'
  <1> DEFINE e == Msg("Completed", None, None, None)
  <1>0. /\ walk.left = 0 /\ walk # NoWalk /\ walk' = NoWalk /\ Post(e)
        /\ UNCHANGED <<refreshing, queries, control_rx, control_open, running>>
    BY DEF WalkEnds, NoWalk
  <1>1. e.type = "Completed" /\ EventOK(e)
    BY DEF Msg, EventOK, PeerEvents, KeyEvents
  <1> HIDE DEF e
  <1>2. ~walk.asking
    BY <1>0 DEF ChanStage, StageInv, WalkTypes
  <1>3. NoWalk.asking = FALSE /\ NoWalk.left = -1 /\ NoWalk.caller = None
    BY DEF NoWalk
  <1>4. WalkTypes'
    <2>1. walk' = [left |-> walk'.left, asking |-> walk'.asking, caller |-> walk'.caller]
      BY <1>0 DEF NoWalk
    <2>2. walk'.left \in -1 .. NUM_BUCKETS
      BY <1>0, <1>3, KadAssumption
    <2> QED
      BY <1>0, <1>3, <2>1, <2>2 DEF WalkTypes
  <1>5. WalkExclusive'
    BY <1>0, <1>2, <1>3, QueriesKept, CommandsKept DEF ChanStage, StageInv, WalkExclusive, Num
  <1>6. Counted
    BY CountTypes DEF ChanStage
  <1>7. CASE ~running
    <2>1. ChannelInv'
      BY <1>0, <1>7, QueriesKept, CommandsKept, EventsKept DEF ChanStage, ChannelInv, Post
    <2>2. RefreshCounted'
      BY <1>0, <1>7 DEF RefreshCounted
    <2> QED
      BY <1>0, <1>4, <1>5, <2>1, <2>2 DEF ChanStage, StageInv
  <1>8. CASE running
    <2>1. EventsOK' /\ Stages' = Stages + Num(e.type \in StageEvents)
      BY <1>0, <1>1, <1>8, EventAppended DEF ChanStage, ChannelInv, Post
    <2>2. Stages' = Stages + 1
      BY <1>1, <2>1 DEF Num, StageEvents
    <2>3. ChannelInv'
      BY <1>0, <2>1, QueriesKept, CommandsKept DEF ChanStage, ChannelInv
    <2>4. RefreshCounted'
      BY <1>0, <1>6, <1>8, <2>2, QueriesKept DEF ChanStage, StageInv, RefreshCounted, Num, Counted
    <2> QED
      BY <1>0, <1>4, <1>5, <2>3, <2>4 DEF ChanStage, StageInv
  <1> QED
    BY <1>7, <1>8 DEF ChanStage, ChannelInv

\* A self query hands over to its event, a lookup of the walk gives it back its turn.
LEMMA QueryEndsKeeps ==
    ASSUME ChanStage, NEW i \in 1 .. Len(queries), QueryEnds(i)
    PROVE  ChanStage'
  <1>0. queries' = RemoveAt(queries, i) /\ UNCHANGED <<refreshing, control_rx, control_open, running>>
    BY DEF QueryEnds
  <1>n. NUM_BUCKETS \in Nat
    BY KadAssumption
  <1>1. /\ QueriesOK'
        /\ WalkQueries' = WalkQueries - Num(queries[i].purpose = "walk")
        /\ SelfQueries' = SelfQueries - Num(queries[i].purpose = "refresh")
    BY <1>0, QueryRemoved DEF ChanStage, ChannelInv
  <1>2. Counted /\ WalkQueries' \in Nat /\ SelfQueries' \in Nat
    BY <1>1, CountTypes, PurposesAppend DEF ChanStage, QueriesOK, WalkQueries, SelfQueries
  <1>3. running
    <2>1. queries # << >>
      BY SeqFacts DEF ChanStage, ChannelInv, QueriesOK
    <2> QED
      BY <2>1 DEF ChanStage, ChannelInv
  <1>4. CASE queries[i].purpose = "refresh"
    <2> DEFINE e == Msg("SelfQueryDone", queries[i].caller, None, None)
    <2>1. Post(e) /\ walk' = walk
      BY <1>4 DEF QueryEnds
    <2>2. e.type = "SelfQueryDone" /\ EventOK(e)
      BY DEF Msg, EventOK, PeerEvents, KeyEvents
    <2> HIDE DEF e
    <2>3. EventsOK' /\ Stages' = Stages + Num(e.type \in StageEvents)
      BY <1>3, <2>1, <2>2, EventAppended DEF ChanStage, ChannelInv, Post
    <2>4. Stages' = Stages + 1 /\ SelfQueries' = SelfQueries - 1 /\ WalkQueries' = WalkQueries
      BY <1>1, <1>2, <1>4, <2>2, <2>3 DEF Num, StageEvents, Counted
    <2>5. ChannelInv'
      BY <1>0, <1>1, <1>3, <2>3, CommandsKept DEF ChanStage, ChannelInv
    <2>6. RefreshCounted'
      BY <1>0, <1>2, <2>1, <2>4 DEF ChanStage, StageInv, RefreshCounted, Num, Counted
    <2>7. WalkTypes' /\ WalkExclusive'
      BY <1>0, <2>1, <2>4, CommandsKept DEF ChanStage, StageInv, WalkTypes, WalkExclusive
    <2> QED
      BY <1>0, <2>5, <2>6, <2>7 DEF ChanStage, StageInv
  <1>5. CASE queries[i].purpose = "walk"
    <2>1. walk' = [walk EXCEPT !.left = @ - 1, !.asking = FALSE] /\ event_rx' = event_rx
      BY <1>5 DEF QueryEnds
    <2>2. WalkQueries' = WalkQueries - 1 /\ SelfQueries' = SelfQueries
      BY <1>1, <1>2, <1>5 DEF Num, Counted
    <2>3. walk.asking /\ WalkCommands = 0 /\ WalkQueries = 1
      BY <1>2, <1>3, <2>2 DEF ChanStage, StageInv, WalkExclusive, Num, Counted
    <2>4. /\ walk = [left |-> walk.left, asking |-> walk.asking, caller |-> walk.caller]
          /\ walk.left \in 1 .. NUM_BUCKETS
      BY <2>3, <1>n DEF ChanStage, StageInv, WalkTypes
    <2>5. walk' = [left |-> walk.left - 1, asking |-> FALSE, caller |-> walk.caller]
      BY <2>1, <2>4
    <2>6. /\ walk'.left = walk.left - 1 /\ walk'.asking = FALSE /\ walk'.caller = walk.caller
          /\ walk # NoWalk /\ walk' # NoWalk
      BY <2>4, <2>5, <1>n DEF NoWalk
    <2>7. ChannelInv'
      BY <1>0, <1>1, <1>3, <2>1, CommandsKept, EventsKept DEF ChanStage, ChannelInv
    <2>8. RefreshCounted'
      BY <1>0, <2>1, <2>2, <2>6, EventsKept DEF ChanStage, StageInv, RefreshCounted, Num
    <2>9. WalkExclusive'
      BY <1>0, <2>2, <2>3, <2>6, CommandsKept DEF WalkExclusive, Num
    <2>10. WalkTypes'
      <3>1. walk' = [left |-> walk'.left, asking |-> walk'.asking, caller |-> walk'.caller]
        BY <2>5, <2>6
      <3>2. walk'.left \in -1 .. NUM_BUCKETS /\ walk'.left # -1
        BY <1>n, <2>4, <2>6
      <3> QED
        BY <2>6, <3>1, <3>2 DEF WalkTypes
    <2> QED
      BY <1>0, <2>7, <2>8, <2>9, <2>10 DEF ChanStage, StageInv
  <1>6. CASE queries[i].purpose \notin {"refresh", "walk"}
    <2>1. UNCHANGED <<walk, event_rx>>
      BY <1>6 DEF QueryEnds
    <2>2. WalkQueries' = WalkQueries /\ SelfQueries' = SelfQueries
      BY <1>1, <1>2, <1>6 DEF Num, Counted
    <2>3. ChannelInv'
      BY <1>0, <1>1, <1>3, <2>1, CommandsKept, EventsKept DEF ChanStage, ChannelInv
    <2>4. WalkTypes' /\ WalkExclusive' /\ RefreshCounted'
      BY <1>0, <2>1, <2>2, CommandsKept, EventsKept DEF ChanStage, StageInv, WalkTypes, WalkExclusive, RefreshCounted
    <2> QED
      BY <1>0, <2>3, <2>4 DEF ChanStage, StageInv
  <1> QED
    BY <1>4, <1>5, <1>6

\* The command of a walk becomes its query.
LEMMA WalkLookupKeeps ==
    ASSUME ChanStage, running, control_rx # << >>, cmd.type = "WalkLookup", control_rx' = Tail(control_rx), Query("walk"),
           UNCHANGED <<event_rx, control_open, running, walk, refreshing>>
    PROVE  ChanStage'
  <1>0. Counted
    BY CountTypes DEF ChanStage
  <1>1. CommandsOK' /\ WalkCommands' = WalkCommands - 1
    BY CommandTaken DEF ChanStage, ChannelInv, Num
  <1>2. QueriesOK' /\ WalkQueries' = WalkQueries + 1 /\ SelfQueries' = SelfQueries
    <2> DEFINE q == [purpose |-> "walk", caller |-> None]
    <2>1. q.purpose = "walk" /\ queries' = Append(queries, q)
      BY DEF Query
    <2> HIDE DEF q
    <2>2. QueriesOK' /\ WalkQueries' = WalkQueries + Num(q.purpose = "walk") /\ SelfQueries' = SelfQueries + Num(q.purpose = "refresh")
      BY <2>1, QueryStarted DEF ChanStage, ChannelInv
    <2> QED
      BY <2>1, <2>2, <1>0 DEF Num, Counted
  <1>3. ChannelInv'
    BY <1>1, <1>2, EventsKept DEF ChanStage, ChannelInv
  <1>4. WalkExclusive'
    BY <1>0, <1>1, <1>2 DEF ChanStage, StageInv, WalkExclusive, Counted, Num
  <1>5. WalkTypes' /\ RefreshCounted'
    BY <1>2, EventsKept DEF ChanStage, StageInv, WalkTypes, RefreshCounted
  <1> QED
    BY <1>3, <1>4, <1>5 DEF ChanStage, StageInv

\* bootstrap posts the start of a refresh, which will see whether there is one.
LEMMA BootstrapKeeps ==
    ASSUME ChanStage, bootstrap
    PROVE  ChanStage'
  <1> DEFINE e == Msg("Start", cmd.v, None, None)
  <1>0. /\ running /\ control_rx # << >> /\ cmd.type = "Bootstrap" /\ control_rx' = Tail(control_rx)
        /\ event_rx' = Append(event_rx, e) /\ UNCHANGED <<control_open, running, queries, walk, refreshing>>
    BY DEF bootstrap, Command, cmd, Took2, refreshVars
  <1>1. e.type = "Start" /\ EventOK(e)
    BY DEF Msg, EventOK, PeerEvents, KeyEvents
  <1> HIDE DEF e
  <1>2. Counted
    BY CountTypes DEF ChanStage
  <1>3. EventsOK' /\ Stages' = Stages
    <2>1. EventsOK' /\ Stages' = Stages + Num(e.type \in StageEvents)
      BY <1>0, <1>1, EventAppended DEF ChanStage, ChannelInv
    <2> QED
      BY <1>1, <1>2, <2>1 DEF Num, StageEvents, Counted
  <1>4. CommandsOK' /\ WalkCommands' = WalkCommands
    <2>1. CommandsOK' /\ WalkCommands' = WalkCommands - Num(cmd.type = "WalkLookup")
      BY <1>0, CommandTaken DEF ChanStage, ChannelInv
    <2> QED
      BY <1>0, <1>2, <2>1 DEF Num, Counted
  <1> QED
    BY <1>0, <1>3, <1>4, QueriesKept
       DEF ChanStage, ChannelInv, StageInv, WalkTypes, WalkExclusive, RefreshCounted

LEMMA LoopEndsKeeps ==
    ASSUME ChanStage, LoopEnds
    PROVE  ChanStage'
  <1>0. /\ running' = FALSE /\ ~control_open /\ control_rx = << >> /\ event_rx' = << >> /\ queries' = << >>
        /\ walk' = IF walk.asking THEN [walk EXCEPT !.left = @ - 1, !.asking = FALSE] ELSE walk
        /\ UNCHANGED <<refreshing, control_rx, control_open>>
    BY DEF LoopEnds
  <1>n. NUM_BUCKETS \in Nat
    BY KadAssumption
  <1>1. EventsOK' /\ QueriesOK'
    BY <1>0 DEF EventsOK, QueriesOK, IsSeq
  <1>2. ChannelInv'
    BY <1>0, <1>1, CommandsKept DEF ChanStage, ChannelInv
  <1>3. WalkTypes'
    <2>1. CASE walk.asking
      <3>1. /\ walk = [left |-> walk.left, asking |-> walk.asking, caller |-> walk.caller]
            /\ walk.left \in 1 .. NUM_BUCKETS
        BY <2>1, <1>n DEF ChanStage, StageInv, WalkTypes
      <3>2. walk' = [left |-> walk.left - 1, asking |-> FALSE, caller |-> walk.caller]
        BY <1>0, <2>1, <3>1
      <3>3. walk'.left = walk.left - 1 /\ walk'.asking = FALSE /\ walk'.caller = walk.caller
        BY <3>2
      <3>4. walk' = [left |-> walk'.left, asking |-> walk'.asking, caller |-> walk'.caller]
        BY <3>2, <3>3
      <3>5. walk'.left \in -1 .. NUM_BUCKETS /\ walk'.left # -1
        BY <1>n, <3>1, <3>3
      <3> QED
        BY <3>3, <3>4, <3>5 DEF WalkTypes
    <2>2. CASE ~walk.asking
      BY <1>0, <2>2 DEF ChanStage, StageInv, WalkTypes
    <2> QED
      BY <2>1, <2>2
  <1> QED
    BY <1>0, <1>2, <1>3 DEF ChanStage, StageInv, WalkExclusive, RefreshCounted

LEMMA CloseKeeps ==
    ASSUME ChanStage, close
    PROVE  ChanStage'
  <1>0. control_open' = FALSE /\ UNCHANGED <<event_rx, control_rx, running, queries, walk, refreshing>>
    BY DEF close, refreshVars
  <1> QED
    BY <1>0, EventsKept, CommandsKept, QueriesKept
       DEF ChanStage, ChannelInv, StageInv, WalkTypes, WalkExclusive, RefreshCounted

\* Every step keeps the channels and the count of the stages.
LEMMA EventsKeepStage ==
    ASSUME ChanStage, on_events
    PROVE  ChanStage'
  <1>1. CASE handle_peer_connected
    BY <1>1, TookKeeps DEF handle_peer_connected, Event, event, Took, refreshVars, StageEvents
  <1>2. CASE handle_peer_disconnected
    BY <1>2, TookKeeps DEF handle_peer_disconnected, Event, event, Took, refreshVars, StageEvents
  <1>3. CASE handle_peer_identified
    BY <1>3, TookKeeps DEF handle_peer_identified, Event, event, Took, refreshVars, StageEvents
  <1>4. CASE handle_peer_found
    BY <1>4, TookKeeps DEF handle_peer_found, Event, event, Took, refreshVars, StageEvents
  <1>5. CASE handle_peer_stopped
    BY <1>5, TookKeeps DEF handle_peer_stopped, Event, event, Took, refreshVars, StageEvents
  <1>6. CASE handle_gc_timer
    BY <1>6, TookKeeps DEF handle_gc_timer, Event, event, Took, refreshVars, StageEvents
  <1>7. CASE handle_refresh_timer
    BY <1>7, TookKeeps DEF handle_refresh_timer, Event, event, Took, refreshVars, StageEvents
  <1>8. CASE handle_ping
    BY <1>8, TookKeeps DEF handle_ping, Event, event, Took, refreshVars, StageEvents
  <1>9. CASE handle_find_node
    BY <1>9, TookKeeps DEF handle_find_node, Event, event, Took, refreshVars, StageEvents
  <1>10. CASE handle_get_providers
    BY <1>10, TookKeeps DEF handle_get_providers, Event, event, Took, refreshVars, StageEvents
  <1>11. CASE handle_put_record
    BY <1>11, TookKeeps DEF handle_put_record, Event, event, Took, refreshVars, StageEvents
  <1>12. CASE handle_add_provider
    BY <1>12, TookKeeps DEF handle_add_provider, Event, event, Took, refreshVars, StageEvents
  <1>20. CASE handle_address_changed
    BY <1>20, RefreshStarts DEF handle_address_changed, Event, event, StageEvents
  <1>21. CASE handle_refresh_stage
    <2>1. /\ running /\ event_rx # << >> /\ event.type \in {"Start", "SelfQueryDone", "Completed"}
          /\ UNCHANGED <<control_rx, control_open, running>>
      BY <1>21 DEF handle_refresh_stage, Event, event
    <2>2. CASE event.type = "Start"
      <3>1. handle_refresh_start(event.p, Tail(event_rx))
        BY <1>21, <2>2 DEF handle_refresh_stage
      <3> QED
        BY <2>1, <2>2, <3>1, RefreshStarts DEF StageEvents
    <2>3. CASE event.type = "SelfQueryDone"
      <3>1. handle_self_query_done(event.p) /\ event_rx' = Tail(event_rx)
        BY <1>21, <2>3 DEF handle_refresh_stage
      <3> QED
        BY <2>1, <2>3, <3>1, WalkBegins
    <2>4. CASE event.type = "Completed"
      <3>1. handle_refresh_completed /\ event_rx' = Tail(event_rx)
        BY <1>21, <2>4 DEF handle_refresh_stage
      <3> QED
        BY <2>1, <2>4, <3>1, RefreshCompletes
    <2> QED
      BY <2>1, <2>2, <2>3, <2>4
  <1> QED
    BY <1>1, <1>2, <1>3, <1>4, <1>5, <1>6, <1>7, <1>8, <1>9, <1>10, <1>11, <1>12, <1>20, <1>21 DEF on_events

LEMMA CommandsKeepStage ==
    ASSUME ChanStage, on_control_command
    PROVE  ChanStage'
  <1>1. CASE add_node
    BY <1>1, CommandKeeps DEF add_node, Command, cmd, Took2, refreshVars
  <1>2. CASE remove_node
    BY <1>2, CommandKeeps DEF remove_node, Command, cmd, Took2, refreshVars
  <1>3. CASE find_peer
    BY <1>3, CommandKeeps DEF find_peer, Command, cmd, Took2
  <1>4. CASE find_providers
    BY <1>4, CommandKeeps DEF find_providers, Command, cmd, Took2
  <1>5. CASE get_record
    BY <1>5, CommandKeeps DEF get_record, Command, cmd, Took2
  <1>6. CASE put_record
    BY <1>6, CommandKeeps DEF put_record, Command, cmd, Took2
  <1>7. CASE start_providing
    BY <1>7, CommandKeeps DEF start_providing, Command, cmd, Took2
  <1>8. CASE stop_providing
    BY <1>8, CommandKeeps DEF stop_providing, Command, cmd, Took2, refreshVars
  <1>20. CASE lookup
    <2>1. /\ running /\ control_rx # << >> /\ control_rx' = Tail(control_rx)
          /\ UNCHANGED <<event_rx, control_open, running, walk, refreshing>>
      BY <1>20 DEF lookup, Command, Took2
    <2>2. CASE cmd.type = "WalkLookup"
      BY <1>20, <2>1, <2>2, WalkLookupKeeps DEF lookup
    <2>3. CASE cmd.type # "WalkLookup"
      BY <1>20, <2>1, <2>3, CommandKeeps DEF lookup
    <2> QED
      BY <2>2, <2>3
  <1> QED
    BY <1>1, <1>2, <1>3, <1>4, <1>5, <1>6, <1>7, <1>8, <1>20, BootstrapKeeps, LoopEndsKeeps DEF on_control_command

LEMMA TasksKeepStage ==
    ASSUME ChanStage, Tasks
    PROVE  ChanStage'
  <1>1. ASSUME NEW i \in 1 .. Len(checks), CheckEnds(i)
        PROVE  ChanStage'
    <2> DEFINE e == Msg("Start", None, None, None)
    <2>1. Post(e) /\ UNCHANGED <<control_rx, control_open, running, queries, walk, refreshing>>
      BY <1>1 DEF CheckEnds, refreshVars
    <2>2. EventOK(e) /\ e.type \notin StageEvents
      BY DEF Msg, EventOK, PeerEvents, KeyEvents, StageEvents
    <2> HIDE DEF e
    <2> QED
      BY <2>1, <2>2, PostKeeps
  <1>2. ASSUME NEW i \in 1 .. Len(checks), NEW ok \in BOOLEAN, CheckPeer(i, ok)
        PROVE  ChanStage'
    <2> DEFINE e == Msg("KadPeerStopped", Head(checks[i]), None, None)
    <2>1. /\ event_rx' = event_rx \/ Post(e)
          /\ UNCHANGED <<control_rx, control_open, running, queries, walk, refreshing>>
      BY <1>2 DEF CheckPeer, refreshVars
    <2>2. EventOK(e) /\ e.type \notin StageEvents
      BY DEF Msg, EventOK, PeerEvents, KeyEvents, StageEvents
    <2> HIDE DEF e
    <2> QED
      BY <2>1, <2>2, PostKeeps, ChanSame
  <1> QED
    BY <1>1, <1>2, WalkAsksKeeps, WalkEndsKeeps, QueryEndsKeeps DEF Tasks

LEMMA EnvironmentKeepsStage ==
    ASSUME ChanStage, RestInv, Environment
    PROVE  ChanStage'
  <1>1. ASSUME NEW p \in Peers, connected(p)
        PROVE  ChanStage'
    <2> DEFINE e == Msg("PeerConnected", p, None, None)
    <2>1. Post(e) /\ UNCHANGED <<control_rx, control_open, running, queries, walk, refreshing>>
      BY <1>1 DEF connected, EnvOnly
    <2>2. EventOK(e) /\ e.type \notin StageEvents
      BY <1>1 DEF Msg, EventOK, PeerEvents, KeyEvents, StageEvents, RestInv
    <2> HIDE DEF e
    <2> QED
      BY <2>1, <2>2, PostKeeps
  <1>2. ASSUME NEW p \in Peers, disconnected(p)
        PROVE  ChanStage'
    <2> DEFINE e == Msg("PeerDisconnected", p, None, None)
    <2>1. Post(e) /\ UNCHANGED <<control_rx, control_open, running, queries, walk, refreshing>>
      BY <1>2 DEF disconnected, EnvOnly
    <2>2. EventOK(e) /\ e.type \notin StageEvents
      BY <1>2 DEF Msg, EventOK, PeerEvents, KeyEvents, StageEvents, RestInv
    <2> HIDE DEF e
    <2> QED
      BY <2>1, <2>2, PostKeeps
  <1>3. ASSUME NEW p \in Peers, QueryMisses(p)
        PROVE  ChanStage'
    <2> DEFINE e == Msg("KadPeerStopped", p, None, None)
    <2>1. Post(e) /\ UNCHANGED <<control_rx, control_open, running, queries, walk, refreshing>>
      BY <1>3 DEF QueryMisses, refreshVars
    <2>2. EventOK(e) /\ e.type \notin StageEvents
      BY <1>3 DEF Msg, EventOK, PeerEvents, KeyEvents, StageEvents, RestInv
    <2> HIDE DEF e
    <2> QED
      BY <2>1, <2>2, PostKeeps
  <1>4. ASSUME NEW p \in Peers, NEW protos, identified(p, protos)
        PROVE  ChanStage'
    <2> DEFINE e == Msg("PeerIdentified", p, None, None)
    <2>1. Post(e) /\ UNCHANGED <<control_rx, control_open, running, queries, walk, refreshing>>
      BY <1>4 DEF identified, EnvOnly
    <2>2. EventOK(e) /\ e.type \notin StageEvents
      BY <1>4 DEF Msg, EventOK, PeerEvents, KeyEvents, StageEvents, RestInv
    <2> HIDE DEF e
    <2> QED
      BY <2>1, <2>2, PostKeeps
  <1>5. ASSUME NEW p \in Peers, NEW q \in Peers, QueryMeets(p, q)
        PROVE  ChanStage'
    <2> DEFINE e == Msg("KadPeerFound", p, None, None)
    <2>1. Post(e) /\ UNCHANGED <<control_rx, control_open, running, queries, walk, refreshing>>
      BY <1>5 DEF QueryMeets, refreshVars
    <2>2. EventOK(e) /\ e.type \notin StageEvents
      BY <1>5 DEF Msg, EventOK, PeerEvents, KeyEvents, StageEvents, RestInv
    <2> HIDE DEF e
    <2> QED
      BY <2>1, <2>2, PostKeeps
  <1>6. ASSUME address_changed(1 - local_addrs)
        PROVE  ChanStage'
    <2> DEFINE e == Msg("AddressChanged", None, None, 1 - local_addrs)
    <2>1. Post(e) /\ UNCHANGED <<control_rx, control_open, running, queries, walk, refreshing>>
      BY <1>6 DEF address_changed, EnvOnly
    <2>2. EventOK(e) /\ e.type \notin StageEvents
      BY <1>6 DEF Msg, EventOK, PeerEvents, KeyEvents, StageEvents, RestInv
    <2> HIDE DEF e
    <2> QED
      BY <2>1, <2>2, PostKeeps
  <1>7. ASSUME NEW p \in Peers, NEW k \in RecordKeys, NEW type \in {"FindNode", "GetValue", "GetProviders"}, handle(p, type, k, None)
        PROVE  ChanStage'
    <2> DEFINE e == Msg(type, p, k, None)
    <2>1. Post(e) /\ UNCHANGED <<control_rx, control_open, running, queries, walk, refreshing>>
      BY <1>7 DEF handle, EnvOnly
    <2>2. EventOK(e) /\ e.type \notin StageEvents
      BY <1>7 DEF Msg, EventOK, PeerEvents, KeyEvents, StageEvents, RestInv
    <2> HIDE DEF e
    <2> QED
      BY <2>1, <2>2, PostKeeps
  <1>8. ASSUME NEW p \in Peers, handle(p, "Ping", None, None)
        PROVE  ChanStage'
    <2> DEFINE e == Msg("Ping", p, None, None)
    <2>1. Post(e) /\ UNCHANGED <<control_rx, control_open, running, queries, walk, refreshing>>
      BY <1>8 DEF handle, EnvOnly
    <2>2. EventOK(e) /\ e.type \notin StageEvents
      BY <1>8 DEF Msg, EventOK, PeerEvents, KeyEvents, StageEvents, RestInv
    <2> HIDE DEF e
    <2> QED
      BY <2>1, <2>2, PostKeeps
  <1>9. ASSUME NEW p \in Peers, NEW k \in RecordKeys, NEW v, NEW type \in {"PutValue", "AddProvider"}, handle(p, type, k, v)
        PROVE  ChanStage'
    <2> DEFINE e == Msg(type, p, k, v)
    <2>1. Post(e) /\ UNCHANGED <<control_rx, control_open, running, queries, walk, refreshing>>
      BY <1>9 DEF handle, EnvOnly
    <2>2. EventOK(e) /\ e.type \notin StageEvents
      BY <1>9 DEF Msg, EventOK, PeerEvents, KeyEvents, StageEvents, RestInv
    <2> HIDE DEF e
    <2> QED
      BY <2>1, <2>2, PostKeeps
  <1>10. ASSUME NEW type \in {"GCTimer", "RefreshTimer"}, Timer(type)
        PROVE  ChanStage'
    <2> DEFINE e == Msg(type, None, None, None)
    <2>1. Post(e) /\ UNCHANGED <<control_rx, control_open, running, queries, walk, refreshing>>
      BY <1>10 DEF Timer, EnvOnly
    <2>2. EventOK(e) /\ e.type \notin StageEvents
      BY <1>10 DEF Msg, EventOK, PeerEvents, KeyEvents, StageEvents, RestInv
    <2> HIDE DEF e
    <2> QED
      BY <2>1, <2>2, PostKeeps
  <1>11. ASSUME NEW type \in {"AddNode", "RemoveNode", "FindPeer"}, NEW p \in Peers, Send(type, p, None, None)
        PROVE  ChanStage'
    <2> DEFINE c == Msg(type, p, None, None)
    <2>1. /\ control_open /\ control_rx' = Append(control_rx, c)
          /\ UNCHANGED <<event_rx, control_open, running, queries, walk, refreshing>>
      BY <1>11 DEF Send, EnvOnly
    <2>2. CommandOK(c) /\ c.type # "WalkLookup"
      BY <1>11 DEF Msg, CommandOK
    <2> HIDE DEF c
    <2> QED
      BY <2>1, <2>2, SendKeeps
  <1>12. ASSUME NEW type \in {"Lookup", "GetRecord", "Providing", "Unprovide", "PutRecord", "FindProviders"}, NEW k \in RecordKeys, NEW v, Send(type, None, k, v)
        PROVE  ChanStage'
    <2> DEFINE c == Msg(type, None, k, v)
    <2>1. /\ control_open /\ control_rx' = Append(control_rx, c)
          /\ UNCHANGED <<event_rx, control_open, running, queries, walk, refreshing>>
      BY <1>12 DEF Send, EnvOnly
    <2>2. CommandOK(c) /\ c.type # "WalkLookup"
      BY <1>12 DEF Msg, CommandOK
    <2> HIDE DEF c
    <2> QED
      BY <2>1, <2>2, SendKeeps
  <1>13. ASSUME NEW c0 \in Callers, NEW p \in Peers \cup {None}, SendBootstrap(c0, p)
        PROVE  ChanStage'
    <2> DEFINE c == Msg("Bootstrap", p, None, c0)
    <2>1. /\ control_open /\ control_rx' = Append(control_rx, c)
          /\ UNCHANGED <<event_rx, control_open, running, queries, walk, refreshing>>
      BY <1>13 DEF SendBootstrap, EnvOnly
    <2>2. CommandOK(c) /\ c.type # "WalkLookup"
      BY <1>13 DEF Msg, CommandOK
    <2> HIDE DEF c
    <2> QED
      BY <2>1, <2>2, SendKeeps
  <1>30. CASE PeerStoreGc \/ Tick
    BY <1>30, ChanSame DEF PeerStoreGc, Tick, EnvOnly, refreshVars, chanVars
  <1>31. ASSUME NEW k \in RecordKeys, NEW v, Send("PutRecord", None, k, v) \/ Send("FindProviders", None, k, v)
         PROVE  ChanStage'
    BY <1>31, <1>12
  <1>32. ASSUME NEW p \in Peers, NEW k \in RecordKeys, NEW v, handle(p, "PutValue", k, v) \/ handle(p, "AddProvider", k, v)
         PROVE  ChanStage'
    BY <1>32, <1>9
  <1>33. ASSUME NEW k \in RecordKeys, NEW type \in {"Lookup", "GetRecord", "Providing", "Unprovide"}, Send(type, None, k, None)
         PROVE  ChanStage'
    BY <1>33, <1>12
  <1> QED
    BY <1>1, <1>2, <1>3, <1>4, <1>5, <1>6, <1>7, <1>8, <1>9, <1>10, <1>11, <1>12, <1>13, <1>30, <1>31, <1>32, <1>33, CloseKeeps, Zenon DEF Environment

LEMMA StageStep ==
    ASSUME ChanStage, RestInv, [Next]_vars
    PROVE  ChanStage'
  <1>1. CASE UNCHANGED vars
    BY <1>1, ChanSame DEF vars, refreshVars, chanVars
  <1> QED
    BY <1>1, EventsKeepStage, CommandsKeepStage, TasksKeepStage, EnvironmentKeepsStage DEF Next
-----------------------------------------------------------------------------
(* The rest of the type invariant. *)

LEMMA PutDomain ==
    \A f, k, r : DOMAIN MS!put(f, k, r) \subseteq DOMAIN f \cup {k}
  BY DEF MS!put, MS!At

LEMMA AddProviderDomain ==
    \A f, k, r : DOMAIN MS!add_provider(f, k, r) \subseteq DOMAIN f \cup {k}
  <1>1. \A g, k, x : DOMAIN MS!At(g, k, x) \subseteq DOMAIN g \cup {k}
    BY DEF MS!At
  <1> QED
    BY <1>1 DEF MS!add_provider

LEMMA RemoveDomains ==
    /\ \A f, ttl, time : DOMAIN MS!gc_records(f, ttl, time) \subseteq DOMAIN f
    /\ \A f, ttl, time : DOMAIN MS!gc_providers(f, ttl, time) \subseteq DOMAIN f
    /\ \A f, k, p : DOMAIN MS!remove_provider(f, k, p) \subseteq DOMAIN f
  <1>1. \A g, S : DOMAIN MS!Drop(g, S) \subseteq DOMAIN g
    BY DEF MS!Drop
  <1>2. \A f, ttl, time : DOMAIN MS!gc_records(f, ttl, time) \subseteq DOMAIN f
    BY <1>1 DEF MS!gc_records
  <1>3. \A g : DOMAIN MS!WithoutEmpty(g) \subseteq DOMAIN g
    BY <1>1 DEF MS!WithoutEmpty
  <1>4. \A f, ttl, time : DOMAIN MS!gc_providers(f, ttl, time) \subseteq DOMAIN f
    BY <1>3 DEF MS!gc_providers
  <1>5. \A f, k, p : DOMAIN MS!remove_provider(f, k, p) \subseteq DOMAIN f
    BY <1>3 DEF MS!remove_provider
  <1> QED
    BY <1>2, <1>4, <1>5

\* What of RestInv an action may change.
StoresSame == UNCHANGED <<records, providers>>
PeersSame == UNCHANGED <<connected_peers, local_addrs, asked>>
RefreshSame == UNCHANGED <<total_refreshes, bootstraps>>

LEMMA RestSame ==
    ASSUME RestInv, StoresSame, PeersSame, RefreshSame
    PROVE  RestInv'
  BY DEF RestInv, StoresSame, PeersSame, RefreshSame

LEMMA RefreshStartRest ==
    ASSUME RestInv, NEW c, NEW s, handle_refresh_start(c, s)
    PROVE  total_refreshes' \in Nat /\ bootstraps' \in [Callers -> {"idle", "waiting", "Ok", "Err"}]
  BY DEF RestInv, handle_refresh_start, Answered

LEMMA EventsKeepRest ==
    ASSUME ChannelInv, RestInv, on_events
    PROVE  RestInv'
  <1>1. CASE handle_peer_identified
    BY <1>1, RestSame DEF handle_peer_identified, StoresSame, PeersSame, RefreshSame, storeVars, refreshVars
  <1>2. CASE handle_peer_found
    BY <1>2, RestSame DEF handle_peer_found, StoresSame, PeersSame, RefreshSame, storeVars, refreshVars
  <1>3. CASE handle_peer_stopped
    BY <1>3, RestSame DEF handle_peer_stopped, StoresSame, PeersSame, RefreshSame, storeVars, refreshVars
  <1>4. CASE handle_refresh_timer
    BY <1>4, RestSame DEF handle_refresh_timer, StoresSame, PeersSame, RefreshSame, storeVars, refreshVars
  <1>5. CASE handle_ping
    BY <1>5 DEF handle_ping, Respond, RestInv, storeVars, refreshVars
  <1>6. CASE handle_find_node
    BY <1>6 DEF handle_find_node, Respond, RestInv, storeVars, refreshVars
  <1>7. CASE handle_get_providers
    BY <1>7 DEF handle_get_providers, Respond, RestInv, storeVars, refreshVars
  <1>20. CASE handle_peer_connected
    <2>1. event_rx # << >> /\ event.type = "PeerConnected"
      BY <1>20 DEF handle_peer_connected, Event, event
    <2>2. event.p \in Peers
      BY <2>1, HeadEvent DEF EventOK, PeerEvents
    <2> QED
      BY <1>20, <2>2 DEF handle_peer_connected, RestInv, storeVars, refreshVars
  <1>21. CASE handle_peer_disconnected
    BY <1>21 DEF handle_peer_disconnected, RestInv, storeVars, refreshVars
  <1>22. CASE handle_address_changed
    <2>1. event_rx # << >> /\ event.type = "AddressChanged"
      BY <1>22 DEF handle_address_changed, Event, event
    <2>2. event.v \in {0, 1}
      BY <2>1, HeadEvent DEF EventOK
    <2>3. total_refreshes' \in Nat /\ bootstraps' \in [Callers -> {"idle", "waiting", "Ok", "Err"}]
      BY <1>22, RefreshStartRest DEF handle_address_changed
    <2> QED
      BY <1>22, <2>2, <2>3 DEF handle_address_changed, RestInv, storeVars
  <1>23. CASE handle_put_record
    <2>1. event_rx # << >> /\ event.type = "PutValue"
      BY <1>23 DEF handle_put_record, Event, event
    <2>2. event.k \in RecordKeys
      BY <2>1, HeadEvent DEF EventOK, KeyEvents
    <2>3. DOMAIN records' \subseteq DOMAIN records \cup {event.k}
      <3>1. records' = records \/ \E x : records' = MS!put(records, event.k, x)
        BY <1>23, Zenon DEF handle_put_record
      <3> QED
        BY <3>1, PutDomain
    <2> QED
      BY <1>23, <2>2, <2>3 DEF handle_put_record, Respond, RestInv, refreshVars
  <1>24. CASE handle_add_provider
    <2>1. event_rx # << >> /\ event.type = "AddProvider"
      BY <1>24 DEF handle_add_provider, Event, event
    <2>2. event.k \in RecordKeys
      BY <2>1, HeadEvent DEF EventOK, KeyEvents
    <2>3. DOMAIN providers' \subseteq DOMAIN providers \cup {event.k}
      <3>1. providers' = providers \/ \E x : providers' = MS!add_provider(providers, event.k, x)
        BY <1>24, Zenon DEF handle_add_provider
      <3> QED
        BY <3>1, AddProviderDomain
    <2> QED
      BY <1>24, <2>2, <2>3 DEF handle_add_provider, Respond, RestInv, refreshVars
  <1>25. CASE handle_gc_timer
    <2>1. DOMAIN records' \subseteq DOMAIN records /\ DOMAIN providers' \subseteq DOMAIN providers
      BY <1>25, RemoveDomains DEF handle_gc_timer
    <2> QED
      BY <1>25, <2>1 DEF handle_gc_timer, RestInv, refreshVars
  <1>26. CASE handle_refresh_stage
    <2>1. total_refreshes' \in Nat /\ bootstraps' \in [Callers -> {"idle", "waiting", "Ok", "Err"}]
      <3>1. CASE event.type = "Start"
        BY <1>26, <3>1, RefreshStartRest DEF handle_refresh_stage
      <3>2. CASE event.type = "SelfQueryDone"
        BY <1>26, <3>2 DEF handle_refresh_stage, handle_self_query_done, RestInv
      <3>3. CASE event.type = "Completed"
        BY <1>26, <3>3 DEF handle_refresh_stage, handle_refresh_completed, RestInv
      <3> QED
        BY <1>26, <3>1, <3>2, <3>3 DEF handle_refresh_stage, Event, event
    <2> QED
      BY <1>26, <2>1 DEF handle_refresh_stage, RestInv, storeVars
  <1> QED
    BY <1>1, <1>2, <1>3, <1>4, <1>5, <1>6, <1>7, <1>20, <1>21, <1>22, <1>23, <1>24, <1>25, <1>26 DEF on_events

LEMMA CommandsKeepRest ==
    ASSUME ChannelInv, RestInv, on_control_command
    PROVE  RestInv'
  <1>1. CASE bootstrap
    BY <1>1, RestSame DEF bootstrap, StoresSame, PeersSame, RefreshSame, storeVars, refreshVars
  <1>2. CASE add_node
    BY <1>2, RestSame DEF add_node, StoresSame, PeersSame, RefreshSame, storeVars, refreshVars
  <1>3. CASE remove_node
    BY <1>3, RestSame DEF remove_node, StoresSame, PeersSame, RefreshSame, storeVars, refreshVars
  <1>4. CASE lookup
    BY <1>4, RestSame DEF lookup, StoresSame, PeersSame, RefreshSame, storeVars, refreshVars
  <1>5. CASE find_peer
    BY <1>5, RestSame DEF find_peer, StoresSame, PeersSame, RefreshSame, storeVars, refreshVars
  <1>6. CASE find_providers
    BY <1>6, RestSame DEF find_providers, StoresSame, PeersSame, RefreshSame, storeVars, refreshVars
  <1>7. CASE get_record
    BY <1>7, RestSame DEF get_record, StoresSame, PeersSame, RefreshSame, storeVars, refreshVars
  <1>20. CASE put_record
    <2>1. control_rx # << >> /\ cmd.type = "PutRecord"
      BY <1>20 DEF put_record, Command, cmd
    <2>2. cmd.k \in RecordKeys
      BY <2>1, HeadCommand DEF CommandOK
    <2>3. DOMAIN records' \subseteq DOMAIN records \cup {cmd.k}
      <3>1. \E x : records' = MS!put(records, cmd.k, x)
        BY <1>20, Zenon DEF put_record
      <3> QED
        BY <3>1, PutDomain
    <2> QED
      BY <1>20, <2>2, <2>3 DEF put_record, RestInv
  <1>21. CASE start_providing
    <2>1. control_rx # << >> /\ cmd.type = "Providing"
      BY <1>21 DEF start_providing, Command, cmd
    <2>2. cmd.k \in RecordKeys
      BY <2>1, HeadCommand DEF CommandOK
    <2>3. DOMAIN providers' \subseteq DOMAIN providers \cup {cmd.k}
      BY <1>21, AddProviderDomain DEF start_providing
    <2> QED
      BY <1>21, <2>2, <2>3 DEF start_providing, RestInv
  <1>22. CASE stop_providing
    <2>1. DOMAIN providers' \subseteq DOMAIN providers
      BY <1>22, RemoveDomains DEF stop_providing
    <2> QED
      BY <1>22, <2>1 DEF stop_providing, RestInv, refreshVars
  <1>23. CASE LoopEnds
    BY <1>23 DEF LoopEnds, RestInv, storeVars
  <1> QED
    BY <1>1, <1>2, <1>3, <1>4, <1>5, <1>6, <1>7, <1>20, <1>21, <1>22, <1>23 DEF on_control_command

LEMMA OthersKeepRest ==
    ASSUME RestInv, Tasks \/ Environment
    PROVE  RestInv'
  <1>1. CASE WalkAsks
    BY <1>1, RestSame DEF WalkAsks, StoresSame, PeersSame, RefreshSame, storeVars, refreshVars
  <1>2. CASE \E i \in 1 .. Len(queries) : QueryEnds(i)
    BY <1>2, RestSame DEF QueryEnds, StoresSame, PeersSame, RefreshSame, storeVars, refreshVars
  <1>3. CASE \E i \in 1 .. Len(checks) : CheckEnds(i)
    BY <1>3, RestSame DEF CheckEnds, StoresSame, PeersSame, RefreshSame, storeVars, refreshVars
  <1>4. CASE \E i \in 1 .. Len(checks), ok \in BOOLEAN : CheckPeer(i, ok)
    BY <1>4, RestSame DEF CheckPeer, StoresSame, PeersSame, RefreshSame, storeVars, refreshVars
  <1>5. CASE \E p \in Peers : connected(p)
    BY <1>5, RestSame DEF connected, StoresSame, PeersSame, RefreshSame, storeVars, refreshVars, EnvOnly
  <1>6. CASE \E p \in Peers : disconnected(p)
    BY <1>6, RestSame DEF disconnected, StoresSame, PeersSame, RefreshSame, storeVars, refreshVars, EnvOnly
  <1>7. CASE \E p \in Peers : QueryMisses(p)
    BY <1>7, RestSame DEF QueryMisses, StoresSame, PeersSame, RefreshSame, storeVars, refreshVars
  <1>8. CASE \E p, protos : identified(p, protos)
    BY <1>8, RestSame DEF identified, StoresSame, PeersSame, RefreshSame, storeVars, refreshVars, EnvOnly
  <1>9. CASE \E p, q : QueryMeets(p, q)
    BY <1>9, RestSame DEF QueryMeets, StoresSame, PeersSame, RefreshSame, storeVars, refreshVars
  <1>10. CASE address_changed(1 - local_addrs)
    BY <1>10, RestSame DEF address_changed, StoresSame, PeersSame, RefreshSame, storeVars, refreshVars, EnvOnly
  <1>11. CASE \E p, type, k, v : Send(type, p, k, v)
    BY <1>11, RestSame DEF Send, StoresSame, PeersSame, RefreshSame, storeVars, refreshVars, EnvOnly
  <1>12. CASE \E type : Timer(type)
    BY <1>12, RestSame DEF Timer, StoresSame, PeersSame, RefreshSame, storeVars, refreshVars, EnvOnly
  <1>13. CASE PeerStoreGc
    BY <1>13, RestSame DEF PeerStoreGc, StoresSame, PeersSame, RefreshSame, storeVars, refreshVars, EnvOnly
  <1>14. CASE close
    BY <1>14, RestSame DEF close, StoresSame, PeersSame, RefreshSame, storeVars, refreshVars
  <1>15. CASE Tick
    BY <1>15, RestSame DEF Tick, StoresSame, PeersSame, RefreshSame, storeVars, refreshVars
  <1>20. CASE WalkEnds
    BY <1>20 DEF WalkEnds, Answered, RestInv, storeVars
  <1>21. ASSUME NEW p \in Peers, \E type, k, v : handle(p, type, k, v)
         PROVE  RestInv'
    BY <1>21 DEF handle, EnvOnly, RestInv, storeVars
  <1>22. CASE \E c, p : SendBootstrap(c, p)
    BY <1>22 DEF SendBootstrap, EnvOnly, RestInv, storeVars
  <1> QED
    BY <1>1, <1>2, <1>3, <1>4, <1>5, <1>6, <1>7, <1>8, <1>9, <1>10, <1>11, <1>12, <1>13, <1>14, <1>15, <1>20, <1>21, <1>22, Zenon DEF Tasks, Environment

LEMMA RestStep ==
    ASSUME ChannelInv, RestInv, [Next]_vars
    PROVE  RestInv'
  <1>1. CASE UNCHANGED vars
    BY <1>1, RestSame DEF vars, StoresSame, PeersSame, RefreshSame, storeVars, refreshVars
  <1> QED
    BY <1>1, EventsKeepRest, CommandsKeepRest, OthersKeepRest DEF Next
-----------------------------------------------------------------------------
(* The theorems. *)

LEMMA NodeInvStarts ==
    ASSUME Init
    PROVE  NodeInv
  <1>1. IsSeq(<< >>)
    BY DEF IsSeq
  <1>2. ChannelInv
    BY <1>1 DEF Init, ChannelInv, EventsOK, CommandsOK, QueriesOK
  <1>3. kbuckets = << >> /\ peerstore = << >> /\ records = << >> /\ providers = << >> /\ DOMAIN << >> = {}
    BY DEF Init
  <1>4. IsTable(kbuckets) /\ IsStore(peerstore)
    BY <1>3 DEF IsTable, IsStore
  <1>5. BucketsBounded
    <2>1. \A i : Bucket(kbuckets, i) = {}
      BY <1>3 DEF Bucket
    <2> QED
      BY <2>1, FS_EmptySet, KadAssumption DEF BucketsBounded
  <1>6. TableInv /\ PinsFollowTable
    BY <1>3, <1>4, KadAssumption DEF Init, TableInv, PinsFollowTable
  <1>7. StageInv
    <2>1. Msgs(<< >>, StageEvents) = {} /\ Msgs(<< >>, {"WalkLookup"}) = {} /\ Purposes(<< >>, {"refresh"}) = {}
          /\ Purposes(<< >>, {"walk"}) = {}
      BY DEF Msgs, Purposes
    <2>2. SelfQueries = 0 /\ Stages = 0 /\ WalkQueries = 0 /\ WalkCommands = 0
      BY <2>1, FS_EmptySet DEF Init, SelfQueries, Stages, WalkQueries, WalkCommands
    <2>3. NoWalk.asking = FALSE /\ NoWalk.left = -1 /\ NoWalk.caller = None
      BY DEF NoWalk
    <2>4. WalkTypes
      <3>1. walk = [left |-> walk.left, asking |-> walk.asking, caller |-> walk.caller]
        BY DEF NoWalk, Init
      <3>2. walk.left \in -1 .. NUM_BUCKETS
        BY <2>3, KadAssumption DEF Init
      <3> QED
        BY <2>3, <3>1, <3>2 DEF Init, WalkTypes
    <2>5. WalkExclusive
      BY <2>2, <2>3 DEF Init, WalkExclusive, Num
    <2>6. RefreshCounted
      BY <2>2 DEF Init, RefreshCounted, Num
    <2> QED
      BY <2>4, <2>5, <2>6 DEF Init, StageInv
  <1>8. RestInv
    BY <1>3 DEF Init, RestInv
  <1> QED
    BY <1>2, <1>5, <1>6, <1>7, <1>8 DEF NodeInv

LEMMA NodeInvStep ==
    ASSUME NodeInv, [Next]_vars
    PROVE  NodeInv' /\ (LeavesStep \/ UNCHANGED vars)
  BY TableStep, StageStep, RestStep DEF NodeInv, TableAndPins, ChanStage

\* The inductive invariant of the main loop of kad.rs: types of the channels and tables,
\* buckets within K_VALUE, pins that follow the table, the stages of a refresh.
THEOREM KadNodeInvariant == Spec => []NodeInv
  <1>1. Init => NodeInv
    BY NodeInvStarts
  <1>2. NodeInv /\ [Next]_vars => NodeInv'
    BY NodeInvStep
  <1> QED
    BY <1>1, <1>2, PTL DEF Spec

\* TypeOK: whatever the order of events, commands and tasks, every variable of the node
\* keeps its type, the entries of the table are peers, and no bucket of the routing table
\* holds more than K_VALUE of them (insert, replace and remove in kbucket/bucket.rs).
THEOREM KadNodeTypeCorrect == Spec => []TypeOK
  <1>1. NodeInv => TypeOK
    <2> SUFFICES ASSUME NodeInv PROVE TypeOK
      OBVIOUS
    <2>1. DOMAIN kbuckets \subseteq Peers /\ \A p \in DOMAIN kbuckets : kbuckets[p].aliveness \in {None} \cup (0 .. MaxTime)
      BY DEF NodeInv, TableInv, IsTable
    <2>2. DOMAIN peerstore \subseteq Peers
      BY DEF NodeInv, TableInv, IsStore
    <2> QED
      BY <2>1, <2>2 DEF TypeOK, NodeInv, BucketsBounded, RestInv, StageInv, WalkTypes, ChannelInv, QueriesOK
  <1> QED
    BY <1>1, KadNodeInvariant, PTL

\* TableMaintained: handle_refresh_start, the callbacks of its queries and try_add_peer and
\* try_remove_peer, over any order of answers, timers and disconnects.  There is one refresh
\* at a time, the flag says so, and a pin of the peer store belongs to an entry of the table.
THEOREM KadNodeTableMaintained == Spec => []TableMaintained
  <1>1. NodeInv => TableMaintained
    <2> SUFFICES ASSUME NodeInv PROVE TableMaintained
      OBVIOUS
    <2>1. /\ {i \in 1 .. Len(queries) : queries[i].purpose = "refresh"} = Purposes(queries, {"refresh"})
          /\ {i \in 1 .. Len(event_rx) : event_rx[i].type \in {"SelfQueryDone", "Completed"}} = Msgs(event_rx, StageEvents)
          /\ (IF walk = NoWalk THEN 0 ELSE 1) = Num(walk # NoWalk)
          /\ (IF refreshing THEN 1 ELSE 0) = Num(refreshing)
      BY DEF Purposes, Msgs, StageEvents, Num
    <2>2. RefreshExclusive
      BY <2>1 DEF RefreshExclusive, NodeInv, StageInv, RefreshCounted, SelfQueries, Stages
    <2> QED
      BY <2>2 DEF TableMaintained, NodeInv
  <1> QED
    BY <1>1, KadNodeInvariant, PTL

\* LeavesForAReason: a peer leaves the routing table because it is removed, or for another
\* peer of its bucket when nobody has heard of it for check_kad_peer_interval, and a
\* permanent one only because it is removed (try_add_peer, handle_peer_stopped).
THEOREM KadNodeLeavesForAReason == Spec => LeavesForAReason
  <1>1. NodeInv /\ [Next]_vars => [LeavesStep]_vars
    BY NodeInvStep
  <1> QED
    BY <1>1, KadNodeInvariant, PTL DEF Spec, LeavesForAReason, LeavesStep
=============================================================================
