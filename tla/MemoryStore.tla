---------------------------- MODULE MemoryStore ----------------------------
(***************************************************************************)
(* The record store of Kademlia, protocols/kad/src/record/store/memory.rs. *)
(*   records    key -> Record [publisher, value, time_received]            *)
(*   providers  key -> sequence of ProviderRecord [provider, time_received]*)
(* time_received is None for what was generated by this node.              *)
(***************************************************************************)
EXTENDS Integers, Sequences, FiniteSets, SequencesExt

CONSTANTS max_records, max_value_bytes, max_providers_per_key,
          Distance(_, _)        \* of a provider to a key

NotReceived == -1
Record(publisher, value, local, now) ==
    [publisher |-> publisher, value |-> value, time_received |-> IF local THEN NotReceived ELSE now]
ProviderRecord(provider, local, now) ==
    [provider |-> provider, time_received |-> IF local THEN NotReceived ELSE now]

At(f, x, v) == [y \in DOMAIN f \cup {x} |-> IF y = x THEN v ELSE f[y]]
Drop(f, S) == [y \in DOMAIN f \ S |-> f[y]]

\* "Ok" or the error; a record that is there is replaced even when it is full.
PutResult(records, k, r) ==
    IF r.value >= max_value_bytes THEN "ValueTooLarge"
    ELSE IF k \notin DOMAIN records /\ Cardinality(DOMAIN records) >= max_records THEN "MaxRecords"
    ELSE "Ok"
put(records, k, r) == IF PutResult(records, k, r) = "Ok" THEN At(records, k, r) ELSE records

Expired(r, ttl, now) == r.time_received # NotReceived /\ now >= r.time_received + ttl
gc_records(records, ttl, now) == Drop(records, {k \in DOMAIN records : Expired(records[k], ttl, now)})

ProvidersOf(providers, k) == IF k \in DOMAIN providers THEN providers[k] ELSE << >>

\* In place, or before the first that is farther from the key, and then the
\* farthest one too many goes.
add_provider(providers, k, r) ==
    LET old == ProvidersOf(providers, k)
        same == {i \in 1 .. Len(old) : old[i].provider = r.provider}
        farther == {i \in 1 .. Len(old) : Distance(r.provider, k) < Distance(old[i].provider, k)}
        at == IF farther = {} THEN Len(old) + 1 ELSE CHOOSE i \in farther : \A j \in farther : i <= j
        new == InsertAt(old, at, r)
    IN  At(providers, k,
           IF same # {} THEN [i \in 1 .. Len(old) |-> IF i \in same THEN r ELSE old[i]]
           ELSE SubSeq(new, 1, IF Len(new) < max_providers_per_key THEN Len(new) ELSE max_providers_per_key))

\* The last provider of a key takes the key with it.
WithoutEmpty(kept) == Drop(kept, {k \in DOMAIN kept : kept[k] = << >>})
NotOf(list, p) == SelectSeq(list, LAMBDA r : r.provider # p)
remove_provider(providers, k, p) ==
    WithoutEmpty([j \in DOMAIN providers |-> IF j = k THEN NotOf(providers[j], p) ELSE providers[j]])
Unexpired(list, ttl, now) == SelectSeq(list, LAMBDA r : ~Expired(r, ttl, now))
gc_providers(providers, ttl, now) ==
    WithoutEmpty([j \in DOMAIN providers |-> Unexpired(providers[j], ttl, now)])
=============================================================================
