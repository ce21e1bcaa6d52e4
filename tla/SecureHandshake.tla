--------------------------- MODULE SecureHandshake ---------------------------
(***************************************************************************)
(* The handshakes that secure a connection: secio (protocols/secio), noise *)
(* with the XX pattern (protocols/noise) and plaintext (protocols/         *)
(* plaintext).  Two ends run the same one over a socket; "a" dialled.      *)
(*                                                                         *)
(* wire[s] holds the frames on their way to end s.  A frame may be damaged *)
(* on the way (Corrupt), once.  Cryptography is what it promises: a        *)
(* signature names its signer and what was signed, a shared key is the set *)
(* of the ephemeral keys it was agreed from, and a noise message can be    *)
(* read when both ends have seen the same messages before it.              *)
(***************************************************************************)
EXTENDS Integers, Sequences, FiniteSets, Lists

CONSTANTS Keys,         \* identity keys
          Configs,      \* what an end may be configured with: records
                        \* [key, exchanges, ciphers, hashes, send_legacy, recv_legacy]
          MaxCorrupt    \* bound on damaged frames

Sides == {"a", "b"}
Other(s) == IF s = "a" THEN "b" ELSE "a"
Nonces == {"na", "nb", "nx"}

VARIABLES kind,      \* "secio", "noise" or "plaintext", as multistream agreed
          config,    \* [Sides -> Configs]
          hash,      \* SHA-256 of a public key and a nonce, as its rank
          ctx,       \* [Sides -> handshake context]
          wire,      \* [Sides -> Seq of frames]
          gone,      \* ends that have dropped the socket
          corrupted  \* damaged frames so far

vars == <<kind, config, hash, ctx, wire, gone, corrupted>>

------------------------------------------------------------------------------
(* Frames are records of one shape: a tag and the fields that matter.       *)

Nothing == [tag |-> "none", key |-> "none", nonce |-> "none", algs |-> <<>>, epub |-> "none",
            sig |-> <<>>, seen |-> <<>>, legacy |-> FALSE]

Nonce(s) == IF s = "a" THEN "na" ELSE "nb"
Ephemeral(s) == IF s = "a" THEN "ea" ELSE "eb"

\* HandshakeContext::with_local: key, nonce and the algorithms in order of preference.
Propose(s) ==
  [Nothing EXCEPT !.tag = "propose", !.key = config[s].key, !.nonce = Nonce(s),
                  !.algs = <<config[s].exchanges, config[s].ciphers, config[s].hashes>>]

\* Ordering of hash(remote-pubkey, local-nonce) and hash(local-pubkey, remote-nonce).
hashes_ordering(s, p) ==
  LET oh1 == hash[<<p.key, Nonce(s)>>]
      oh2 == hash[<<config[s].key, p.nonce>>] IN
  IF oh1 < oh2 THEN "Less" ELSE IF oh1 = oh2 THEN "Equal" ELSE "Greater"

\* The first of a list that another list has too.
FirstOf(pair) ==
  LET both == SelectSeq(pair[1], LAMBDA x : x \in ToSet(pair[2])) IN
  IF both = <<>> THEN "none" ELSE both[1]


\* select_agreement, select_cipher, select_digest: the first of the preferred
\* list that the other list has too.
select(r, ours, theirs) ==
  FirstOf(IF r = "Greater" THEN <<ours, theirs>> ELSE <<theirs, ours>>)

chosen_exchange(s, p) == select(hashes_ordering(s, p), config[s].exchanges, p.algs[1])
chosen_cipher(s, p) == select(hashes_ordering(s, p), config[s].ciphers, p.algs[2])
chosen_hash(s, p) == select(hashes_ordering(s, p), config[s].hashes, p.algs[3])
chosen(s, p) == <<chosen_exchange(s, p), chosen_cipher(s, p), chosen_hash(s, p)>>

\* The handshake context of an end: how far it is, the remote's proposition,
\* the algorithms, the keys of its two directions, the remote's identity and,
\* for noise, the messages seen so far.
Fresh == [pc |-> "start", remote |-> Nothing, algs |-> <<>>, enc |-> <<>>, dec |-> <<>>,
          peer |-> "none", seen |-> <<>>]

Init ==
  /\ kind \in {"secio", "noise", "plaintext"}
  /\ config \in [Sides -> Configs]
  /\ hash \in [Keys \X Nonces -> 1..2]
  /\ kind # "secio" => hash = [k \in Keys \X Nonces |-> 1]
  /\ ctx = [s \in Sides |-> Fresh]
  /\ wire = [s \in Sides |-> <<>>]
  /\ gone = {}
  /\ corrupted = 0

------------------------------------------------------------------------------
\* End s sends f, if anybody is there.
Send(s, f) == [wire EXCEPT ![Other(s)] = IF Other(s) \in gone THEN <<>> ELSE Append(@, f)]
Took(s) == [wire EXCEPT ![s] = Tail(@)]
TookAndSent(s, f) == [Took(s) EXCEPT ![Other(s)] = IF Other(s) \in gone THEN <<>> ELSE Append(@, f)]

Fail(s) ==
  /\ ctx' = [ctx EXCEPT ![s].pc = "failed"]
  /\ gone' = gone \union {s}
  /\ wire' = [wire EXCEPT ![s] = <<>>]

\* Nothing comes any more: the read fails.
Eof(s) ==
  /\ ctx[s].pc \notin {"start", "done", "failed"}
  /\ wire[s] = <<>> /\ Other(s) \in gone
  /\ Fail(s)
  /\ UNCHANGED <<kind, config, hash, corrupted>>

At(s, k, pc) == kind = k /\ ctx[s].pc = pc /\ wire[s] # <<>>

Keep == UNCHANGED <<kind, config, hash, corrupted>>

------------------------------------------------------------------------------
(* secio                                                                    *)

secio_start(s) ==
  /\ kind = "secio" /\ ctx[s].pc = "start"
  /\ ctx' = [ctx EXCEPT ![s].pc = "propose"]
  /\ wire' = Send(s, Propose(s))
  /\ UNCHANGED gone /\ Keep

\* The exchange: an ephemeral key, and a signature over both propositions, the
\* signer's own first, and the key.
Exchange(s, p) ==
  [Nothing EXCEPT !.tag = "exchange", !.epub = Ephemeral(s),
                  !.sig = <<config[s].key, Propose(s), p, Ephemeral(s)>>]

\* HandshakeContext::with_remote and the exchange that follows.
with_remote(s) ==
  /\ At(s, "secio", "propose")
  /\ LET p == Head(wire[s]) IN
     IF \/ p.tag # "propose"
        \/ p.key = config[s].key          \* ConnectSelf
        \/ p.key \notin Keys
        \/ "none" \in ToSet(chosen(s, p))   \* NoSupportIntersection
     THEN Fail(s)
     ELSE /\ ctx' = [ctx EXCEPT ![s].pc = "exchange", ![s].remote = p, ![s].algs = chosen(s, p)]
          /\ wire' = TookAndSent(s, Exchange(s, p))
          /\ UNCHANGED gone
  /\ Keep

\* The secret of two ephemeral keys is the same on both sides.
agree(mine, theirs) == {mine, theirs}

\* The keys of the two directions, as the secret and the algorithms determine them.
stretch_key(secret, algs) == <<<<secret, algs, 1>>, <<secret, algs, 2>>>>

\* The halves of the stretched key: whose hash is the greater writes with the first.
infos(s, epub) ==
  LET longer == stretch_key(agree(Ephemeral(s), epub), ctx[s].algs) IN
  IF hashes_ordering(s, ctx[s].remote) = "Less"
  THEN [enc |-> longer[2], dec |-> longer[1]] ELSE [enc |-> longer[1], dec |-> longer[2]]

\* The remote's exchange: its signature over what it has seen must be one over
\* what we have seen; then the keys, and its nonce is sent back encrypted.
verify_exchange(s) ==
  /\ At(s, "secio", "exchange")
  /\ LET f == Head(wire[s])
         r == ctx[s].remote
         k == infos(s, f.epub) IN
     IF \/ f.tag # "exchange"
        \/ f.sig # <<r.key, r, Propose(s), f.epub>>
        \/ hashes_ordering(s, r) = "Equal"
     THEN Fail(s)
     ELSE /\ ctx' = [ctx EXCEPT ![s].pc = "nonce", ![s].enc = k.enc, ![s].dec = k.dec]
          /\ wire' = TookAndSent(s, [Nothing EXCEPT !.tag = "data", !.nonce = r.nonce, !.sig = k.enc])
          /\ UNCHANGED gone
  /\ Keep

\* make_secure_output: the upgrade's result names the remote by the key it proposed.
make_secure_output(s) == ctx' = [ctx EXCEPT ![s].pc = "done", ![s].peer = ctx[s].remote.key]

\* Seeded fault: the stream is handed out before our nonce has come back.
verify_nonce_Skipped(s) ==
  /\ kind = "secio" /\ ctx[s].pc = "nonce"
  /\ make_secure_output(s)
  /\ UNCHANGED <<wire, gone>>
  /\ Keep

\* SecureStream::verify_nonce: what comes back, decrypted, is our nonce.
verify_nonce(s) ==
  /\ At(s, "secio", "nonce")
  /\ LET f == Head(wire[s]) IN
     IF f.tag # "data" \/ f.sig # ctx[s].dec \/ f.nonce # Nonce(s) THEN Fail(s)
     ELSE /\ make_secure_output(s)
          /\ wire' = Took(s)
          /\ UNCHANGED gone
  /\ Keep

------------------------------------------------------------------------------
(* noise, XX: e; e s {id}; s {id}                                           *)

\* Keypair::into_authentic: the identity key signs the end's static key.
into_authentic(s) == <<config[s].key, s>>

\* Protocol::verify: sig is the signature of the static key of s by the key id.
verify(id, s, sig) == sig = <<id, s>>

\* send_identity: the identity key and its signature of the static key, with a
\* length in front for legacy peers.
Identity(s, n) ==
  [Nothing EXCEPT !.tag = "noise", !.key = config[s].key, !.nonce = n,
                  !.sig = into_authentic(s), !.seen = ctx[s].seen,
                  !.legacy = config[s].send_legacy]

Empty(s) == [Nothing EXCEPT !.tag = "noise", !.nonce = "1"]

\* The message can be read: it is the one expected and both have seen the same
\* messages before it (snow's handshake hash).
Readable(s, f, n) == f.tag = "noise" /\ f.nonce = n /\ f.seen = ctx[s].seen

\* The payload can be decoded, one with a length in front only if that is allowed.
Decodes(s, f) == (f.legacy => config[s].recv_legacy) /\ f.key \in Keys

\* State::finish: the signature is one of the remote's static key by the identity
\* key it names.
finish(s, f) == verify(f.key, Other(s), f.sig)

\* The upgrade's result names the remote by its identity key.
NoiseStream(s, f, seen) ==
  ctx' = [ctx EXCEPT ![s].pc = "done", ![s].peer = f.key, ![s].seen = seen]

\* NoiseConfig::handshake: the end that dialed initiates.
initiator(s) == s = "a"

\* rt15_initiator: send_empty.
noise_start(s) ==
  /\ kind = "noise" /\ ctx[s].pc = "start"
  /\ IF initiator(s)
     THEN /\ ctx' = [ctx EXCEPT ![s].pc = "recv", ![s].seen = <<Empty(s)>>]
          /\ wire' = Send(s, Empty(s))
     ELSE /\ ctx' = [ctx EXCEPT ![s].pc = "recv_empty"]
          /\ UNCHANGED wire
  /\ UNCHANGED gone /\ Keep

\* rt15_responder: recv_empty, send_identity.
recv_empty(s) ==
  /\ At(s, "noise", "recv_empty")
  /\ LET f == Head(wire[s])
         reply == [Identity(s, "2") EXCEPT !.seen = <<f>>] IN
     IF ~Readable(s, f, "1") \/ f.key # "none" THEN Fail(s)
     ELSE /\ ctx' = [ctx EXCEPT ![s].pc = "recv", ![s].seen = <<f, reply>>]
          /\ wire' = TookAndSent(s, reply)
          /\ UNCHANGED gone
  /\ Keep

\* recv_identity; the initiator sends its own and both finish.
recv_identity(s) ==
  /\ At(s, "noise", "recv")
  /\ LET f == Head(wire[s])
         seen == Append(ctx[s].seen, f)
         n == IF initiator(s) THEN "2" ELSE "3"
         reply == [Identity(s, "3") EXCEPT !.seen = seen] IN
     IF ~Readable(s, f, n) \/ ~Decodes(s, f) \/ ~finish(s, f) THEN Fail(s)
     ELSE /\ NoiseStream(s, f, IF initiator(s) THEN Append(seen, reply) ELSE seen)
          /\ wire' = IF initiator(s) THEN TookAndSent(s, reply) ELSE Took(s)
          /\ UNCHANGED gone
  /\ Keep

------------------------------------------------------------------------------
(* plaintext                                                                *)

plaintext_start(s) ==
  /\ kind = "plaintext" /\ ctx[s].pc = "start"
  /\ ctx' = [ctx EXCEPT ![s].pc = "remote"]
  /\ wire' = Send(s, [Nothing EXCEPT !.tag = "plain", !.key = config[s].key, !.epub = config[s].key])
  /\ UNCHANGED gone /\ Keep

PlainTextOutput(s, f) == ctx' = [ctx EXCEPT ![s].pc = "done", ![s].peer = f.key]

\* handshake: a remote with our own id is refused.
ConnectSelf(s, f) == f.key = config[s].key

\* The id (epub here) must be the one of the key, and not our own.
plaintext_remote(s) ==
  /\ At(s, "plaintext", "remote")
  /\ LET f == Head(wire[s]) IN
     IF f.tag # "plain" \/ f.key \notin Keys \/ f.epub # f.key \/ ConnectSelf(s, f)
     THEN Fail(s)
     ELSE /\ PlainTextOutput(s, f)
          /\ wire' = Took(s)
          /\ UNCHANGED gone
  /\ Keep

------------------------------------------------------------------------------
\* What a damaged frame may turn into: nothing that parses (or, encrypted, that
\* can be read), or a frame with another field.
Sealed(f) == f.tag = "data" \/ (f.tag = "noise" /\ f.nonce # "1")

Damaged(f) ==
  IF Sealed(f) THEN { [f EXCEPT !.tag = "garbage"] } ELSE
  { [f EXCEPT !.tag = "garbage"], [f EXCEPT !.nonce = "nx"], [f EXCEPT !.epub = "ex"] } \union
  { [f EXCEPT !.key = k] : k \in Keys } \union
  { [f EXCEPT !.algs = Reverse(@)], [f EXCEPT !.algs = [i \in DOMAIN @ |-> Reverse(@[i])]] }

Corrupt(s) ==
  /\ corrupted < MaxCorrupt
  /\ wire[s] # <<>>
  /\ \E f \in Damaged(Last(wire[s])) \ {Last(wire[s])} :
       wire' = [wire EXCEPT ![s][Len(wire[s])] = f]
  /\ corrupted' = corrupted + 1
  /\ UNCHANGED <<kind, config, hash, ctx, gone>>

Step(s) ==
  \/ secio_start(s) \/ with_remote(s) \/ verify_exchange(s) \/ verify_nonce(s)
  \/ noise_start(s) \/ recv_empty(s) \/ recv_identity(s)
  \/ plaintext_start(s) \/ plaintext_remote(s)
  \/ Eof(s)

Next == \E s \in Sides : Step(s) \/ Corrupt(s)

\* Both ends' futures are polled and what is sent arrives.
Fairness == \A s \in Sides : WF_vars(Step(s))

Spec == Init /\ [][Next]_vars /\ Fairness

------------------------------------------------------------------------------
Done(s) == ctx[s].pc = "done"

\* An end that is through knows its peer: the key it reports is the key of the
\* other end (secio's remote_pub_key, noise's RemoteIdentity, plaintext's Remote),
\* also when a frame was damaged on the way; and secio and plaintext never
\* connect a node with itself.
PeerIsKnown == \A s \in Sides :
  Done(s) => /\ ctx[s].peer \in Keys
             /\ ctx[s].peer = config[Other(s)].key
             /\ kind # "noise" => config["a"].key # config["b"].key

\* A secio end that is through has agreed with the other end, whatever was
\* damaged: the same algorithms, and each writes with the key the other reads
\* with, which is not the key of the other direction (procedure.rs, handshake).
\* The two noise ends have seen the same messages.
EndsAgree == \A s \in Sides : Done(s) =>
  LET o == Other(s) IN
  /\ kind = "secio" =>
       /\ ctx[s].algs = ctx[o].algs /\ ctx[s].enc = ctx[o].dec /\ ctx[s].dec = ctx[o].enc
       /\ ctx[s].enc # ctx[s].dec
  /\ kind = "noise" => IsPrefix(ctx[o].seen, ctx[s].seen) \/ ctx[o].pc = "failed"

\* Could these two ends agree?  They have different keys, an algorithm of each
\* sort in common, hashes that differ, and the legacy payload is understood.
Compatible ==
  CASE kind = "plaintext" -> config["a"].key # config["b"].key
    [] kind = "noise" -> \A s \in Sides : config[s].send_legacy => config[Other(s)].recv_legacy
    [] kind = "secio" ->
         /\ config["a"].key # config["b"].key
         /\ hash[<<config["a"].key, "nb">>] # hash[<<config["b"].key, "na">>]
         /\ \A i \in 1..3 : ToSet(Propose("a").algs[i]) \intersect ToSet(Propose("b").algs[i]) # {}

\* Every handshake ends at both ends, and well when the ends can agree and no
\* frame is damaged.
Settled ==
  /\ \A s \in Sides : ctx[s].pc \in {"done", "failed"}
  /\ (Compatible /\ corrupted = 0) => \A s \in Sides : Done(s)

==============================================================================
