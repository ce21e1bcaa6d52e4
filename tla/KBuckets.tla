------------------------------ MODULE KBuckets ------------------------------
(***************************************************************************)
(* The routing table of Kademlia (protocols/kad/src/kbucket.rs and         *)
(* kbucket/), for keys of NUM_BUCKETS bits.  A key is a number, the local  *)
(* key is 0, so that a peer is its distance to this node.  A table is      *)
(*   peer -> PeerInfo [aliveness, permanent]                               *)
(* where aliveness is the time of the last answer, or None: bucket i holds *)
(* the peers at distance 2^i up to 2^(i+1) - 1.                            *)
(***************************************************************************)
EXTENDS Integers, Sequences, FiniteSets, FiniteSetsExt, SequencesExt

CONSTANTS NUM_BUCKETS, K_VALUE

None == -1
Keys == 0 .. 2 ^ NUM_BUCKETS - 1
PeerInfo(aliveness, permanent) == [aliveness |-> aliveness, permanent |-> permanent]

bit(n, i) == (n \div 2 ^ i) % 2 = 1
distance(a, b) == MapThenSumSet(LAMBDA i : IF bit(a, i) # bit(b, i) THEN 2 ^ i ELSE 0, 0 .. NUM_BUCKETS - 1)

\* The highest bit set: the index of the bucket of a distance that is not 0.
ilog2(d) == CHOOSE i \in 0 .. NUM_BUCKETS - 1 : 2 ^ i <= d /\ d < 2 ^ (i + 1)
Bucket(table, i) == {p \in DOMAIN table : ilog2(p) = i}

num_entries(table) == Cardinality(DOMAIN table)

is_full(table, p) == Cardinality(Bucket(table, ilog2(p))) >= K_VALUE


\* The buckets from the one of the target on: those of the bits set below it,
\* then bucket 0, then those of the bits that are not set, upwards.  Bucket 0
\* comes twice when its own bit is set, and when the target is this node.
ClosestBucketsIter(d) ==
    LET start == IF d = 0 THEN 0 ELSE ilog2(d)
        zoom_in == {i \in 0 .. start - 1 : bit(d, i)}
        zoom_out == {i \in 1 .. NUM_BUCKETS - 1 : ~bit(d, i)}
    IN  <<start>> \o SetToSortSeq(zoom_in, >) \o <<0>> \o SetToSortSeq(zoom_out, <)

\* The entries of each of these buckets, sorted by their distance to the target.
closest(table, target) ==
    LET Sorted(i) == SetToSortSeq(Bucket(table, i), LAMBDA a, b : distance(a, target) < distance(b, target))
        order == ClosestBucketsIter(target)
    IN  FlattenSeq([n \in 1 .. Len(order) |-> Sorted(order[n])])

\* The first n of a sequence.
FirstOf(n, s) == SubSeq(s, 1, IF n < Len(s) THEN n ELSE Len(s))
=============================================================================
