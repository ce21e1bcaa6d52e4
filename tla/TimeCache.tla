------------------------------ MODULE TimeCache ------------------------------
(***************************************************************************)
(* protocols/gossipsub/src/time_cache.rs: a map whose entries expire.      *)
(* An entry is purged lazily: entry() and insert() drop what has expired,  *)
(* contains_key() and get() do not.  The list of keys by expiry only       *)
(* speeds the purge up: with one ttl and a monotonic clock its front holds *)
(* exactly the expired keys, so it is not kept here.                       *)
(***************************************************************************)
EXTENDS Integers, Functions

new == << >>

remove_expired_keys(cache, now) ==
    Restrict(cache, {k \in DOMAIN cache : cache[k].expires > now})

contains_key(cache, k) == k \in DOMAIN cache

get(cache, k) == cache[k].element

\* entry(key).or_insert_with(v): also the vacant entry's insert.
or_insert_with(cache, k, v, ttl, now) ==
    LET live == remove_expired_keys(cache, now)
    IN  IF k \in DOMAIN live THEN live
        ELSE [j \in DOMAIN live \union {k} |->
                 IF j = k THEN [element |-> v, expires |-> now + ttl] ELSE live[j]]

\* DuplicateCache::insert answers whether the key was new...
is_new(cache, k, now) == k \notin DOMAIN remove_expired_keys(cache, now)

\* ... and keeps it.
insert(cache, k, ttl, now) == or_insert_with(cache, k, TRUE, ttl, now)
=============================================================================
