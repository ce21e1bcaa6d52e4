----------------------------- MODULE MCServices -----------------------------
(* Values for the constants of Services.                                    *)
EXTENDS Services, TLC

------------------------------------------------------------------------------
(* Two dials: "a" between two ends of this implementation, whose Selectors  *)
(* share names; "f" likewise, or with another implementation as the dialer  *)
(* or as the listener, which may stay silent.  Name "long" has 140 bytes,   *)
(* "bad" has no leading slash.                                              *)

UpgradeConns == {"a", "f"}
UpgradeForeign == { {<<"f", "d">>}, {<<"f", "l">>}, {} }
UpgradeNames == {"x", "y", "z", "long", "bad"}
UpgradeNameLen == [n \in UpgradeNames |-> IF n = "long" THEN 140 ELSE 10]
UpgradeSlash == UpgradeNames \ {"bad"}
DialerSec == [a |-> << <<"z", "x">>, <<"y">> >>, f |-> << <<"bad", "x">>, <<"long">> >>]
DialerMux == [a |-> << <<"x">>, <<"y">> >>, f |-> << <<"x">>, <<>> >>]
ListenerSec == << <<"x">>, <<"y", "x", "bad">> >>
ListenerMux == << <<"y">>, <<"x">> >>
UpgradeForeignNames == {"x", "long"}

------------------------------------------------------------------------------
(* Ends with two keys, opposite preferences, no cipher in common, and with  *)
(* the legacy payload of noise sent or accepted; one frame may be damaged.  *)

SecureConfig(k, e, c, sl, rl) == [key |-> k, exchanges |-> e, ciphers |-> c, hashes |-> <<"SHA256">>,
                                  send_legacy |-> sl, recv_legacy |-> rl]
SecureConfigs ==
  { SecureConfig("k1", <<"P-256", "P-384">>, <<"CTR", "GCM">>, FALSE, FALSE),
    SecureConfig("k2", <<"P-384", "P-256">>, <<"GCM", "CTR">>, TRUE, TRUE),
    SecureConfig("k2", <<"P-256">>, <<"CHACHA">>, FALSE, TRUE) }

------------------------------------------------------------------------------
(* Requests of Kademlia: two jobs share a stream with an AddProvider; an    *)
(* answer and a request that are too long.                                  *)

good == [id |-> 1, ok |-> TRUE]
other == [id |-> 2, ok |-> TRUE]
rec == [key |-> 1, value |-> 1, publisher |-> <<1>>]

KadRequest == 1 :> [type |-> "AddProvider", key |-> 1, provider |-> good]
           @@ 2 :> [type |-> "GetProviders", key |-> 1]
           @@ 3 :> [type |-> "PutValue", record |-> rec]
           @@ 4 :> [type |-> "GetProviders", key |-> 2]
           @@ 5 :> [type |-> "GetValue", key |-> 1]
           @@ 6 :> [type |-> "GetValue", key |-> 2]

Answer(c, p) == [type |-> "GetProviders", closer |-> <<c>>, providers |-> <<p>>]
KadResponses ==
  [r \in {KadRequest[j] : j \in 1..6} |->
     CASE r = KadRequest[2] -> {Answer(good, other), Answer(other, other)}
       [] r = KadRequest[4] -> {Answer(other, good)}
       [] r = KadRequest[5] -> {[type |-> "GetValue", closer |-> <<good>>, record |-> <<rec>>],
                                [type |-> "GetValue", closer |-> <<good>>, record |-> <<>>]}
       [] r = KadRequest[3] -> {[type |-> "PutValue", key |-> 1, value |-> 1]}
       [] OTHER -> {}]

KadJobs == 1..6
KadMixes == {{1, 2}, {2, 4}, {3, 5}, {6}}
KadLarge == {Answer(other, other), KadRequest[6]}

------------------------------------------------------------------------------
(* Floodsub: two peers, two subscriptions of a topic, a message of ours and *)
(* one of theirs.                                                           *)

FloodSubTopic == [s \in {1, 2} |-> "t"]
FloodSource == [m1 |-> "me", m2 |-> "q"]
FloodMsgTopics == [m \in {"m1", "m2"} |-> {"t"}]

------------------------------------------------------------------------------
(* Gossipsub's RPCs: messages, subscriptions and control items of sizes     *)
(* that fit a packet alone, together or not; messages of other              *)
(* implementations with any mix of fields, signed by the right key, by      *)
(* another one, or not at all.                                              *)

Sig(by, from, seqno) == [by |-> by, over |-> <<from, seqno, "x">>]
GossipForeign ==
  UNION { { [from |-> f, seqno |-> s, data |-> "x", size |-> 30, signature |-> g, key |-> k] :
              g \in {NONE, Sig("author", f, s), Sig("other", f, s), Sig("author", f, NONE)},
              k \in {NONE, "author", "other"} } :
          f \in {NONE, "empty", "malformed", "author"}, s \in {NONE, "empty", "short", "x"} }
GossipPublished == {[id |-> "a", size |-> 40], [id |-> "b", size |-> 70]}
GossipSubscriptions == {[action |-> "Subscribe", topic |-> "t1", size |-> 10],
                        [action |-> "Unsubscribe", topic |-> "t1", size |-> 10],
                        [action |-> "Subscribe", topic |-> "t2", size |-> 45]}
GossipControls == {[kind |-> "ihave", id |-> 1, size |-> 40], [kind |-> "prune", id |-> 2, size |-> 70]}

------------------------------------------------------------------------------
(* Ping and Identify of a connection: two of our addresses can be           *)
(* translated, one cannot; three reports are remembered.                    *)

OurAddrs == <<[ip |-> "ip4", port |-> 1], [ip |-> "ip6", port |-> 2], [ip |-> "memory", port |-> 3]>>
ObservedAddrs == {[ip |-> "a", port |-> 8], [ip |-> "b", port |-> 9]}
NotMemory(i) == i # "memory"
==============================================================================
