---------------------------- MODULE GossipsubProofs ----------------------------
(***************************************************************************)
(* Theorems of Gossipsub, for every set of peers and topics and every      *)
(* configuration that build() accepts.                                     *)
(***************************************************************************)
EXTENDS Gossipsub, FiniteSetTheorems, SequenceTheorems, TLAPS

\* The router, when the peers of P are connected and their streams open at the start.  Spec is
\* SpecWith({}), and the runs check SpecWith(Peers).
SpecWith(P) == InitWith(P) /\ [][Next]_vars

-----------------------------------------------------------------------------
(* The configuration *)

\* The switches apart, a configuration is made of natural numbers.
LEMMA ConfigNumbers ==
    /\ config.mesh_n \in Nat /\ config.mesh_n_low \in Nat /\ config.mesh_n_high \in Nat
    /\ config.opportunistic_graft_peers \in Nat /\ config.prune_backoff \in Nat
    /\ config.backoff_slack \in Nat /\ config.heartbeat_interval \in Nat \ {0}
    /\ config.history_gossip \in Nat \ {0} /\ config.history_length \in Nat
    /\ config.history_gossip <= config.history_length
    /\ config.duplicate_cache_time \in Nat
    /\ config.mesh_n_low <= config.mesh_n /\ config.mesh_n <= config.mesh_n_high
<1>1. \A f \in DOMAIN config : \/ f \in {"validate_messages", "allow_self_origin", "flood_publish"}
                               \/ config[f] \in Nat
  BY ConfigAssumption DEF Config!GossipsubConfig
<1>2. {"mesh_n", "mesh_n_low", "mesh_n_high", "opportunistic_graft_peers", "prune_backoff", "backoff_slack",
       "heartbeat_interval", "history_gossip", "history_length", "duplicate_cache_time"} \subseteq DOMAIN config
  BY ConfigAssumption DEF Config!GossipsubConfig, Config!Default
<1>3. /\ config.history_length >= config.history_gossip /\ config.history_gossip >= 1
      /\ config.heartbeat_interval >= 1
      /\ config.mesh_n_low <= config.mesh_n /\ config.mesh_n <= config.mesh_n_high
  BY ConfigAssumption DEF Config!build
<1> QED
  BY <1>1, <1>2, <1>3

-----------------------------------------------------------------------------
(* The back-off storage *)

\* A storage whose two views agree: every pair is in the one slot that its entry names.
StorageSound(b) ==
    /\ DOMAIN b.ring = 0 .. Backoff!Slots - 1
    /\ b.index \in 0 .. Backoff!Slots - 1
    /\ \A q \in DOMAIN b.backoffs :
          /\ b.backoffs[q].time \in Int
          /\ b.backoffs[q].slot \in 0 .. Backoff!Slots - 1
          /\ q \in b.ring[b.backoffs[q].slot]
    /\ \A i \in DOMAIN b.ring : \A q \in b.ring[i] :
          q \in DOMAIN b.backoffs /\ b.backoffs[q].slot = i

\* Dividing rounds up to a natural number.
LEMMA HeartbeatsNat ==
    ASSUME NEW d \in Nat
    PROVE  Backoff!heartbeats(d) \in Nat
<1>1. ASSUME NEW a \in Nat, NEW c \in Nat \ {0} PROVE a \div c \in Nat
  BY <1>1
<1> QED
  BY <1>1, ConfigNumbers DEF Backoff!heartbeats

LEMMA SlotsPositive == Backoff!Slots \in Nat \ {0}
  BY HeartbeatsNat, ConfigNumbers DEF Backoff!Slots

LEMMA SlotInRing ==
    ASSUME NEW b, StorageSound(b), NEW time \in Nat
    PROVE  Backoff!SlotFor(b, time) \in 0 .. Backoff!Slots - 1
<1>1. ASSUME NEW a \in Nat, NEW c \in Nat \ {0} PROVE a % c \in 0 .. c - 1
  BY <1>1
<1>2. b.index + Backoff!heartbeats(time) + config.backoff_slack \in Nat
  <2>1. b.index \in Nat
    BY SlotsPositive DEF StorageSound
  <2>2. Backoff!heartbeats(time) \in Nat
    BY HeartbeatsNat
  <2> QED
    BY <2>1, <2>2, ConfigNumbers
<1> QED
  BY <1>1, <1>2, SlotsPositive DEF Backoff!SlotFor

LEMMA NewStorageSound == StorageSound(Backoff!new)
  BY SlotsPositive DEF StorageSound, Backoff!new

\* Starting back-offs keeps the views in agreement, and other pairs keep their time.
LEMMA StartedSound ==
    ASSUME NEW b, StorageSound(b), NEW S, NEW time \in Nat, now \in Nat
    PROVE  LET c == Backoff!Started(b, S, time, now)
           IN  /\ StorageSound(c)
               /\ DOMAIN c.backoffs = DOMAIN b.backoffs \union S
               /\ \A q \in DOMAIN b.backoffs \ S : c.backoffs[q] = b.backoffs[q]
               /\ \A q \in S : c.backoffs[q].time = now + time
<1> DEFINE c == Backoff!Started(b, S, time, now)
           slot == Backoff!SlotFor(b, time)
<1>1. slot \in 0 .. Backoff!Slots - 1
  BY SlotInRing
<1>2. /\ DOMAIN c.backoffs = DOMAIN b.backoffs \union S
      /\ \A q \in DOMAIN b.backoffs \ S : c.backoffs[q] = b.backoffs[q]
      /\ \A q \in S : c.backoffs[q] = [time |-> now + time, slot |-> slot]
      /\ DOMAIN c.ring = DOMAIN b.ring
      /\ c.index = b.index
  BY DEF Backoff!Started
<1>3. \A i \in DOMAIN b.ring : \A q :
         q \in c.ring[i] <=> \/ q \in b.ring[i] /\ ~(q \in S /\ q \in DOMAIN b.backoffs /\ b.backoffs[q].slot = i)
                             \/ i = slot /\ q \in S
  BY DEF Backoff!Started
<1> HIDE DEF c, slot
<1>4. \A q \in S : c.backoffs[q].time = now + time /\ c.backoffs[q].slot = slot
  BY <1>2
<1>5. ASSUME NEW q \in DOMAIN c.backoffs
      PROVE  /\ c.backoffs[q].time \in Int
             /\ c.backoffs[q].slot \in 0 .. Backoff!Slots - 1
             /\ q \in c.ring[c.backoffs[q].slot]
  <2>1. CASE q \in S
    BY <2>1, <1>1, <1>2, <1>3, <1>4 DEF StorageSound
  <2>2. CASE q \notin S
    BY <2>2, <1>2, <1>3 DEF StorageSound
  <2> QED
    BY <2>1, <2>2
<1>6. ASSUME NEW i \in DOMAIN c.ring, NEW q \in c.ring[i]
      PROVE  q \in DOMAIN c.backoffs /\ c.backoffs[q].slot = i
  <2>1. CASE q \in S
    BY <2>1, <1>2, <1>3, <1>4 DEF StorageSound
  <2>2. CASE q \notin S
    BY <2>2, <1>2, <1>3 DEF StorageSound
  <2> QED
    BY <2>1, <2>2
<1>7. StorageSound(c)
  BY <1>2, <1>5, <1>6 DEF StorageSound
<1> QED
  BY <1>2, <1>4, <1>7 DEF c

\* update_backoff() on some pairs: the storage stays sound, exactly the pairs are added and no
\* back-off gets shorter.
LEMMA UpdateSound ==
    ASSUME NEW b, StorageSound(b), NEW pairs, NEW time \in Nat, now \in Nat
    PROVE  LET c == Backoff!update_backoff(b, pairs, time, now)
           IN  /\ StorageSound(c)
               /\ DOMAIN c.backoffs = DOMAIN b.backoffs \union pairs
               /\ \A q \in DOMAIN b.backoffs : c.backoffs[q].time >= b.backoffs[q].time
               /\ \A q \in DOMAIN b.backoffs \ pairs : c.backoffs[q] = b.backoffs[q]
<1> DEFINE S == {q \in pairs : q \in DOMAIN b.backoffs => b.backoffs[q].time < now + time}
           c == Backoff!Started(b, S, time, now)
<1>1. /\ StorageSound(c)
      /\ DOMAIN c.backoffs = DOMAIN b.backoffs \union S
      /\ \A q \in DOMAIN b.backoffs \ S : c.backoffs[q] = b.backoffs[q]
      /\ \A q \in S : c.backoffs[q].time = now + time
  BY StartedSound
<1>2. \A q : q \in S <=> q \in pairs /\ (q \in DOMAIN b.backoffs => b.backoffs[q].time < now + time)
  OBVIOUS
<1>3. Backoff!update_backoff(b, pairs, time, now) = c
  BY DEF Backoff!update_backoff
<1>4. \A q \in DOMAIN b.backoffs : b.backoffs[q].time \in Int
  BY DEF StorageSound
<1> HIDE DEF S, c
<1>5. \A q \in DOMAIN b.backoffs : c.backoffs[q].time >= b.backoffs[q].time
  BY <1>1, <1>2, <1>4
<1> QED
  BY <1>1, <1>2, <1>3, <1>5

\* heartbeat() of the storage: it stays sound, nothing is added, what remains is as it was, and
\* only back-offs that are over are forgotten.
LEMMA ExpirySound ==
    ASSUME NEW b, StorageSound(b), now \in Nat
    PROVE  LET c == Backoff!heartbeat(b, now)
           IN  /\ StorageSound(c)
               /\ DOMAIN c.backoffs \subseteq DOMAIN b.backoffs
               /\ \A q \in DOMAIN c.backoffs : c.backoffs[q] = b.backoffs[q]
               /\ \A q \in DOMAIN b.backoffs : b.backoffs[q].time > now => q \in DOMAIN c.backoffs
<1> DEFINE c == Backoff!heartbeat(b, now)
           kept == Backoff!Keeps(b, now)
<1>1. /\ DOMAIN c.backoffs = DOMAIN b.backoffs \intersect (DOMAIN b.backoffs \ (b.ring[b.index] \ kept))
      /\ \A q \in DOMAIN c.backoffs : c.backoffs[q] = b.backoffs[q]
      /\ c.ring = [b.ring EXCEPT ![b.index] = kept]
      /\ c.index = (b.index + 1) % Backoff!Slots
  BY DEF Backoff!heartbeat, Backoff!Restrict
<1>2. \A q : q \in kept <=> /\ q \in b.ring[b.index] /\ q \in DOMAIN b.backoffs
                            /\ b.backoffs[q].time + config.heartbeat_interval * config.backoff_slack > now
  BY DEF Backoff!Keeps
<1> HIDE DEF c, kept
<1>3. c.index \in 0 .. Backoff!Slots - 1
  <2>1. b.index + 1 \in Nat
    BY SlotsPositive DEF StorageSound
  <2>2. ASSUME NEW n \in Nat, NEW k \in Nat \ {0} PROVE n % k \in 0 .. k - 1
    BY <2>2
  <2> QED
    BY <1>1, <2>1, <2>2, SlotsPositive
<1>4. DOMAIN c.ring = DOMAIN b.ring /\ b.index \in DOMAIN b.ring
  BY <1>1 DEF StorageSound
<1>5. \A i \in DOMAIN b.ring : c.ring[i] = IF i = b.index THEN kept ELSE b.ring[i]
  BY <1>1, <1>4
<1>6. \A q : q \in DOMAIN c.backoffs <=> q \in DOMAIN b.backoffs /\ (q \in b.ring[b.index] => q \in kept)
  BY <1>1
<1>7. ASSUME NEW q \in DOMAIN c.backoffs
      PROVE  /\ c.backoffs[q].time \in Int
             /\ c.backoffs[q].slot \in 0 .. Backoff!Slots - 1
             /\ q \in c.ring[c.backoffs[q].slot]
  BY <1>1, <1>5, <1>6 DEF StorageSound
<1>8. ASSUME NEW i \in DOMAIN c.ring, NEW q \in c.ring[i]
      PROVE  q \in DOMAIN c.backoffs /\ c.backoffs[q].slot = i
  <2>1. q \in b.ring[i] /\ i \in DOMAIN b.ring /\ (i = b.index => q \in kept)
    BY <1>2, <1>4, <1>5
  <2>2. q \in DOMAIN b.backoffs /\ b.backoffs[q].slot = i
    BY <2>1 DEF StorageSound
  <2>3. q \in b.ring[b.index] => b.backoffs[q].slot = b.index
    BY <1>4 DEF StorageSound
  <2> QED
    BY <2>1, <2>2, <2>3, <1>1, <1>6
<1>9. ASSUME NEW q \in DOMAIN b.backoffs, b.backoffs[q].time > now
      PROVE  q \in DOMAIN c.backoffs
  <2>1. ASSUME NEW x \in Nat, NEW y \in Nat PROVE x * y \in Nat
    BY <2>1
  <2>2. config.heartbeat_interval * config.backoff_slack \in Nat
    BY <2>1, ConfigNumbers
  <2>3. b.backoffs[q].time \in Int
    BY DEF StorageSound
  <2> QED
    BY <1>9, <2>2, <2>3, <1>2, <1>6
<1> QED
  BY <1>1, <1>3, <1>4, <1>6, <1>7, <1>8, <1>9 DEF StorageSound, c

-----------------------------------------------------------------------------
(* Choosing peers *)

LEMMA PicksSound ==
    ASSUME NEW S, IsFiniteSet(S), NEW n \in Nat, NEW P \in Picks(S, n)
    PROVE  P \subseteq S /\ Cardinality(P) <= n /\ (P = S \/ Cardinality(P) = n)
  BY FS_CardinalityType DEF Picks

\* get_random_peers(): subscribed gossipsub peers, few enough, and short of n only if that is
\* everybody.
LEMMA RandomPeersSound ==
    ASSUME NEW t, NEW n \in Nat, NEW eligible, eligible \subseteq Peers,
           NEW P \in get_random_peers(t, n, eligible)
    PROVE  /\ P \subseteq eligible /\ Cardinality(P) <= n
           /\ \/ Cardinality(P) = n
              \/ \A p \in At(topic_peers, t, {}) \intersect eligible : IsGossip(p) => p \in P
<1> DEFINE S == {p \in At(topic_peers, t, {}) : IsGossip(p) /\ p \in eligible}
<1>1. IsFiniteSet(S)
  <2>1. S \subseteq Peers
    OBVIOUS
  <2> QED
    BY <2>1, InputAssumption, FS_Subset
<1>2. P \in Picks(S, n)
  BY DEF get_random_peers
<1>3. P \subseteq S /\ Cardinality(P) <= n /\ (P = S \/ Cardinality(P) = n)
  <2> HIDE DEF S
  <2> QED
    BY <1>1, <1>2, PicksSound
<1> QED
  BY <1>3

LEMMA PeersCounted ==
    ASSUME NEW A, A \subseteq Peers
    PROVE  IsFiniteSet(A) /\ Cardinality(A) \in Nat
  BY InputAssumption, FS_Subset, FS_CardinalityType

\* Two finite sets together have at most as many members as both.
LEMMA UnionBounded ==
    ASSUME NEW A, NEW B, A \subseteq Peers, B \subseteq Peers
    PROVE  /\ IsFiniteSet(A) /\ IsFiniteSet(B) /\ IsFiniteSet(A \union B)
           /\ Cardinality(A) \in Nat /\ Cardinality(B) \in Nat /\ Cardinality(A \union B) \in Nat
           /\ Cardinality(A \union B) <= Cardinality(A) + Cardinality(B)
           /\ Cardinality(A \ B) <= Cardinality(A)
           /\ A \intersect B = {} => Cardinality(A \union B) = Cardinality(A) + Cardinality(B)
           /\ B \subseteq A => Cardinality(A \ B) = Cardinality(A) - Cardinality(B)
<1>1. IsFiniteSet(A) /\ IsFiniteSet(B)
  BY InputAssumption, FS_Subset
<1>2. /\ IsFiniteSet(A \union B)
      /\ Cardinality(A \union B) = Cardinality(A) + Cardinality(B) - Cardinality(A \intersect B)
  BY <1>1, FS_Union
<1>3. IsFiniteSet(A \intersect B) /\ IsFiniteSet(A \ B)
  BY <1>1, FS_Subset
<1>4. /\ Cardinality(A) \in Nat /\ Cardinality(B) \in Nat /\ Cardinality(A \union B) \in Nat
      /\ Cardinality(A \intersect B) \in Nat /\ Cardinality(A \ B) \in Nat
  BY <1>1, <1>2, <1>3, FS_CardinalityType
<1>5. A \intersect B = {} => Cardinality(A \intersect B) = 0
  BY FS_EmptySet
<1>6. Cardinality(A \ B) = Cardinality(A) - Cardinality(A \intersect B)
  BY <1>1, FS_Difference
<1>7. B \subseteq A => Cardinality(A \intersect B) = Cardinality(B)
  <2>1. B \subseteq A => A \intersect B = B
    OBVIOUS
  <2> QED
    BY <2>1
<1> QED
  BY <1>1, <1>2, <1>4, <1>5, <1>6, <1>7

-----------------------------------------------------------------------------
(* The maintenance of one mesh *)

\* The four steps of the maintenance, with what was chosen in each.
Maintained(t, b, s, ticks, r, good, add, cut, top) ==
    /\ good = {p \in mesh[t] : ~(s[p] < 0)}
    /\ add \in Fills(t, good, b, s)
    /\ cut \in Cuts(good \union add, s)
    /\ top \in Tops(t, (good \union add) \ cut, b, s, ticks)
    /\ r.peers = ((good \union add) \ cut) \union top
    /\ r.prune = (mesh[t] \ good) \union cut

LEMMA MaintainedForm ==
    ASSUME NEW t, NEW b, NEW s, NEW ticks, NEW r \in MaintainMesh(t, b, s, ticks)
    PROVE  \E good, add, cut, top : Maintained(t, b, s, ticks, r, good, add, cut, top)
<1> DEFINE bad  == {p \in mesh[t] : s[p] < 0}
           good == mesh[t] \ bad
<1>1. r \in UNION {UNION {{[peers |-> ((good \union add) \ cut) \union top,
                            graft |-> add \union top, prune |-> bad \union cut] :
                           top \in Tops(t, (good \union add) \ cut, b, s, ticks)} :
                         cut \in Cuts(good \union add, s)} :
                  add \in Fills(t, good, b, s)}
  BY Zenon DEF MaintainMesh
<1>2. mesh[t] \ good = bad /\ good = {p \in mesh[t] : ~(s[p] < 0)}
  OBVIOUS
<1> HIDE DEF bad, good
<1>3. PICK add \in Fills(t, good, b, s) :
         r \in UNION {{[peers |-> ((good \union add) \ cut) \union top,
                        graft |-> add \union top, prune |-> bad \union cut] :
                       top \in Tops(t, (good \union add) \ cut, b, s, ticks)} : cut \in Cuts(good \union add, s)}
  BY <1>1, Zenon
<1>4. PICK cut \in Cuts(good \union add, s) :
         r \in {[peers |-> ((good \union add) \ cut) \union top,
                 graft |-> add \union top, prune |-> bad \union cut] :
                top \in Tops(t, (good \union add) \ cut, b, s, ticks)}
  BY <1>3, Zenon
<1>5. PICK top \in Tops(t, (good \union add) \ cut, b, s, ticks) :
         r = [peers |-> ((good \union add) \ cut) \union top, graft |-> add \union top, prune |-> bad \union cut]
  BY <1>4, Zenon
<1>6. /\ r.peers = ((good \union add) \ cut) \union top
      /\ r.prune = (mesh[t] \ good) \union cut
  BY <1>2, <1>5
<1> QED
  BY <1>2, <1>6, Zenon DEF Maintained

Limit == config.mesh_n_high + (IF Scored THEN config.opportunistic_graft_peers ELSE 0)

LEMMA LimitNat == Limit \in Nat
  BY ConfigNumbers DEF Limit

\* The maintenance leaves a mesh within its limit, whatever its size and the scores were.
LEMMA MaintainedBounded ==
    ASSUME NEW t, NEW b, NEW s, NEW ticks, NEW r \in MaintainMesh(t, b, s, ticks), mesh[t] \subseteq Peers
    PROVE  r.peers \subseteq Peers /\ Cardinality(r.peers) <= Limit
<1>1. PICK good, add, cut, top : Maintained(t, b, s, ticks, r, good, add, cut, top)
  BY MaintainedForm
<1> DEFINE M == good \union add
           R == M \ cut
<1>2. good \subseteq Peers
  BY <1>1 DEF Maintained
<1>3. add \subseteq Peers
  <2>1. CASE add = {}
    BY <2>1
  <2>2. CASE add # {}
    <3> DEFINE E == {p \in Fresh(t, b) \ good : s[p] >= 0}
    <3>1. ~(Cardinality(good) >= config.mesh_n_low) /\ add \in get_random_peers(t, config.mesh_n - Cardinality(good), E)
      BY <1>1, <2>2 DEF Maintained, Fills
    <3>2. E \subseteq Peers
      BY DEF Fresh
    <3>3. config.mesh_n - Cardinality(good) \in Nat
      <4>1. Cardinality(good) \in Nat
        BY <1>2, PeersCounted
      <4> QED
        BY <3>1, <4>1, ConfigNumbers
    <3> HIDE DEF E
    <3>4. add \subseteq E
      BY <3>1, <3>2, <3>3, RandomPeersSound
    <3> QED
      BY <3>2, <3>4
  <2> QED
    BY <2>1, <2>2
<1>4. M \subseteq Peers /\ R \subseteq Peers
  BY <1>2, <1>3
<1>5. Cardinality(R) <= config.mesh_n_high
  <2>1. cut \in Cuts(M, s)
    BY <1>1 DEF Maintained
  <2>2. CASE Cardinality(M) <= config.mesh_n_high
    <3>1. cut = {}
      BY <2>1, <2>2 DEF Cuts
    <3>2. R = M
      BY <3>1
    <3> QED
      BY <3>2, <2>2
  <2>3. CASE ~(Cardinality(M) <= config.mesh_n_high)
    <3>1. cut \in Excess(M, config.mesh_n, s)
      BY <2>1, <2>3 DEF Cuts
    <3>2. cut \subseteq M /\ Cardinality(cut) = Cardinality(M) - config.mesh_n
      BY <3>1 DEF Excess
    <3>3. Cardinality(M \ cut) = Cardinality(M) - Cardinality(cut) /\ Cardinality(M) \in Nat
      <4> HIDE DEF M
      <4>1. cut \subseteq Peers
        BY <1>4, <3>2
      <4> QED
        BY <1>4, <3>2, <4>1, UnionBounded
    <3> QED
      BY <3>2, <3>3, ConfigNumbers
  <2> QED
    BY <2>2, <2>3
<1> HIDE DEF M, R
<1>6. r.peers = R \union top /\ top \in Tops(t, R, b, s, ticks)
  BY <1>1 DEF Maintained, M, R
<1>7. CASE top = {}
  <2>1. r.peers = R
    BY <1>6, <1>7
  <2>2. Cardinality(R) \in Nat
    BY <1>4, PeersCounted
  <2> QED
    BY <2>1, <2>2, <1>4, <1>5, ConfigNumbers DEF Limit
<1>8. CASE top # {}
  <2> DEFINE E == {p \in Fresh(t, b) \ R : 2 * s[p] > TwiceMedian(R, s)}
  <2>1. Scored /\ top \in get_random_peers(t, config.opportunistic_graft_peers, E)
    BY <1>6, <1>8 DEF Tops
  <2>2. E \subseteq Peers
    BY DEF Fresh
  <2>3. top \subseteq E /\ Cardinality(top) <= config.opportunistic_graft_peers
    BY <2>1, <2>2, RandomPeersSound, ConfigNumbers
  <2>4. top \subseteq Peers
    BY <2>2, <2>3
  <2>5. Cardinality(R \union top) <= Cardinality(R) + Cardinality(top) /\ Cardinality(R) \in Nat
        /\ Cardinality(top) \in Nat /\ Cardinality(R \union top) \in Nat
    BY <1>4, <2>4, UnionBounded
  <2> QED
    BY <1>4, <1>5, <1>6, <2>1, <2>3, <2>4, <2>5, ConfigNumbers DEF Limit
<1> QED
  BY <1>7, <1>8

-----------------------------------------------------------------------------
(* The steps *)

\* What the tasks around the main loop leave alone.
Quiet ==
    /\ UNCHANGED <<peerVars, meshVars, cacheVars, scoreVars, published, heartbeat_ticks>>
    /\ out' = {}
    /\ now' \in {now, now + 1}

LEMMA QuietSteps ==
    /\ \A p : PeerTask(p) => Quiet
    /\ Tick => Quiet
    /\ close => Quiet
    /\ \A i : DropSubscription(i) => Quiet
<1>1. ASSUME NEW p, PeerTask(p) PROVE Quiet
  <2>1. connected(p) => Quiet
    BY DEF connected, Around, Quiet
  <2>2. disconnected(p) => Quiet
    BY DEF disconnected, Around, Quiet
  <2>3. StreamOpened(p) => Quiet
    BY DEF StreamOpened, Around, Quiet
  <2>4. StreamFails(p) => Quiet
    BY DEF StreamFails, Around, Quiet
  <2>5. WriteFails(p) => Quiet
    BY DEF WriteFails, Around, Quiet
  <2>6. WriterEnds(p) => Quiet
    BY DEF WriterEnds, Around, Quiet
  <2> QED
    BY <1>1, <2>1, <2>2, <2>3, <2>4, <2>5, <2>6 DEF PeerTask
<1>2. Tick => Quiet
  BY DEF Tick, Around, Quiet
<1>3. close => Quiet
  BY DEF close, envVars, Quiet
<1>4. ASSUME NEW i, DropSubscription(i) PROVE Quiet
  BY <1>4 DEF DropSubscription, Around, envVars, Quiet
<1> QED
  BY <1>1, <1>2, <1>3, <1>4

\* heartbeat() for the timer or for the application.
Beat == heartbeat /\ now' = now

\* One step of the router, by its handler.
Step ==
    \/ Quiet \/ handle_peer_event \/ Beat \/ handle_cancel
    \/ \E p \in Peers, t \in Topics : \E a \in {"Subscribe", "Unsubscribe"} : handle_received_subscriptions(p, t, a)
    \/ \E p \in Peers, t \in Topics, b \in RemoteBackoffs : handle_prune(p, t, b)
    \/ \E p \in Peers, t \in Topics : \E ids \in SUBSET Known : handle_ihave(p, t, ids)
    \/ \E p \in Peers, T \in SUBSET Topics : handle_graft(p, T)
    \/ \E p \in Peers : \E ids \in SUBSET Known : handle_iwant(p, ids)
    \/ \E p \in Peers : \E m \in Known : handle_received_message(p, m)
    \/ \E p \in Peers : \E m \in Invalid : handle_invalid_message(p, m, "InvalidSignature")
    \/ \E t \in Topics : subscribe(t) \/ unsubscribe(t)
    \/ \E m \in Messages : publish(m)

LEMMA StepCases == Next => Step
<1> SUFFICES ASSUME Next PROVE Step
  OBVIOUS
<1>1. TimedHeartbeat => Beat
  BY DEF TimedHeartbeat, Beat
<1>2. HeartbeatCommand => Beat
  BY DEF HeartbeatCommand, Beat
<1>3. ASSUME NEW p \in Peers, handle_message_event(p) PROVE Step
  <2>1. \A t \in Topics : {m \in Known : TopicOf[m] = t} \subseteq Known
    OBVIOUS
  <2>2. CASE \E t \in Topics : \E a \in {"Subscribe", "Unsubscribe"} : handle_received_subscriptions(p, t, a)
    BY <2>2, Zenon DEF Step
  <2>3. CASE \E t \in Topics : \E b \in RemoteBackoffs : handle_prune(p, t, b)
    BY <2>3, Zenon DEF Step
  <2>4. CASE \E t \in Topics : \E ids \in SUBSET {m \in Known : TopicOf[m] = t} \ {{}} : handle_ihave(p, t, ids)
    <3>1. PICK t \in Topics : \E ids \in SUBSET {m \in Known : TopicOf[m] = t} \ {{}} : handle_ihave(p, t, ids)
      BY <2>4, Zenon
    <3>2. PICK ids \in SUBSET {m \in Known : TopicOf[m] = t} \ {{}} : handle_ihave(p, t, ids)
      BY <3>1, Zenon
    <3>3. ids \in SUBSET Known
      BY <2>1, <3>2
    <3> QED
      BY <3>2, <3>3, Zenon DEF Step
  <2>5. CASE \E T \in SUBSET Topics \ {{}} : handle_graft(p, T)
    <3>1. PICK T \in SUBSET Topics \ {{}} : handle_graft(p, T)
      BY <2>5, Zenon
    <3>2. T \in SUBSET Topics
      BY <3>1
    <3> QED
      BY <3>1, <3>2, Zenon DEF Step
  <2>6. CASE \E ids \in SUBSET Known \ {{}} : handle_iwant(p, ids)
    <3>1. PICK ids \in SUBSET Known \ {{}} : handle_iwant(p, ids)
      BY <2>6, Zenon
    <3>2. ids \in SUBSET Known
      BY <3>1
    <3> QED
      BY <3>1, <3>2, Zenon DEF Step
  <2>7. CASE \E m \in Known : handle_received_message(p, m)
    BY <2>7, Zenon DEF Step
  <2>8. CASE \E m \in Invalid : handle_invalid_message(p, m, "InvalidSignature")
    BY <2>8, Zenon DEF Step
  <2> QED
    BY <1>3, <2>2, <2>3, <2>4, <2>5, <2>6, <2>7, <2>8, Zenon DEF handle_message_event
<1>4. handle_event => Step
  BY <1>1, <1>3, Zenon DEF handle_event, Step
<1>5. handle_command => Step
  BY <1>2, QuietSteps, Zenon DEF handle_command, Step
<1>6. handle_cancel => Step
  BY DEF Step
<1>7. Quiet => Step
  BY DEF Step
<1> QED
  BY <1>4, <1>5, <1>6, <1>7, QuietSteps, Zenon DEF Next

-----------------------------------------------------------------------------
(* The tables of topics and peers *)

MeshInv  == \A t \in DOMAIN mesh : mesh[t] \subseteq Peers /\ Cardinality(mesh[t]) <= Limit
TopicInv ==
    /\ \A t \in DOMAIN topic_peers : topic_peers[t] \subseteq Peers
    /\ \A p \in DOMAIN peer_topics : \A t \in peer_topics[p] : t \in DOMAIN topic_peers /\ p \in topic_peers[t]
FanoutInv ==
    /\ DOMAIN fanout = DOMAIN fanout_last_pub
    /\ DOMAIN fanout \intersect DOMAIN mesh = {}
TablesInv == MeshInv /\ TopicInv /\ FanoutInv

LEMMA TablesAgree == TablesInv => TopicTablesAgree
  BY DEF TablesInv, MeshInv, TopicInv, FanoutInv, TopicTablesAgree, MeshBounded, Limit

LEMMA TablesInit ==
    ASSUME NEW P \in SUBSET Peers, InitWith(P)
    PROVE  TablesInv
<1>1. DOMAIN mesh = {} /\ DOMAIN fanout = {} /\ DOMAIN fanout_last_pub = {} /\ DOMAIN topic_peers = {}
  BY DEF InitWith
<1>2. \A p \in DOMAIN peer_topics : peer_topics[p] = {}
  BY DEF InitWith
<1> QED
  BY <1>1, <1>2 DEF TablesInv, MeshInv, TopicInv, FanoutInv

\* Meshes that lose members stay within bounds.
LEMMA MeshShrinks ==
    ASSUME MeshInv, DOMAIN mesh' \subseteq DOMAIN mesh, \A t \in DOMAIN mesh' : mesh'[t] \subseteq mesh[t]
    PROVE  MeshInv'
<1> SUFFICES ASSUME NEW t \in DOMAIN mesh' PROVE mesh'[t] \subseteq Peers /\ Cardinality(mesh'[t]) <= Limit
  BY DEF MeshInv, Limit
<1>1. mesh[t] \subseteq Peers /\ Cardinality(mesh[t]) <= Limit /\ mesh'[t] \subseteq mesh[t]
  BY DEF MeshInv
<1>2. Cardinality(mesh'[t]) <= Cardinality(mesh[t]) /\ Cardinality(mesh'[t]) \in Nat /\ Cardinality(mesh[t]) \in Nat
  BY <1>1, PeersCounted, FS_Subset
<1> QED
  BY <1>1, <1>2, LimitNat

\* A mesh below mesh_n_high may take one more.
LEMMA MeshGrows ==
    ASSUME MeshInv, NEW p \in Peers, DOMAIN mesh' = DOMAIN mesh,
           \A t \in DOMAIN mesh : \/ mesh'[t] = mesh[t]
                                  \/ mesh'[t] = mesh[t] \union {p} /\ Cardinality(mesh[t]) < config.mesh_n_high
    PROVE  MeshInv'
<1> SUFFICES ASSUME NEW t \in DOMAIN mesh PROVE mesh'[t] \subseteq Peers /\ Cardinality(mesh'[t]) <= Limit
  BY DEF MeshInv, Limit
<1>1. mesh[t] \subseteq Peers /\ Cardinality(mesh[t]) <= Limit
  BY DEF MeshInv
<1>2. CASE mesh'[t] = mesh[t]
  BY <1>1, <1>2
<1>3. CASE mesh'[t] = mesh[t] \union {p} /\ Cardinality(mesh[t]) < config.mesh_n_high
  <2>1. Cardinality(mesh[t] \union {p}) <= Cardinality(mesh[t]) + Cardinality({p}) /\ Cardinality(mesh[t]) \in Nat
        /\ Cardinality(mesh[t] \union {p}) \in Nat
    BY <1>1, UnionBounded
  <2>2. Cardinality({p}) = 1
    BY FS_Singleton
  <2> QED
    BY <1>1, <1>3, <2>1, <2>2, ConfigNumbers DEF Limit
<1> QED
  BY <1>2, <1>3

\* The peers that join() chooses.
LEMMA JoinBounded ==
    ASSUME NEW t, NEW F, NEW usable, usable \subseteq Peers,
           NEW kept \in Picks(F \intersect usable, config.mesh_n),
           NEW more \in get_random_peers(t, config.mesh_n - Cardinality(kept), usable \ kept)
    PROVE  /\ kept \union more \subseteq usable
           /\ Cardinality(kept \union more) <= Limit
<1>1. IsFiniteSet(F \intersect usable)
  <2>1. F \intersect usable \subseteq Peers
    OBVIOUS
  <2> QED
    BY <2>1, PeersCounted
<1>2. kept \subseteq F \intersect usable /\ Cardinality(kept) <= config.mesh_n
  BY <1>1, PicksSound, ConfigNumbers
<1>3. kept \subseteq usable /\ kept \subseteq Peers
  BY <1>2
<1>4. Cardinality(kept) \in Nat
  BY <1>3, PeersCounted
<1>5. config.mesh_n - Cardinality(kept) \in Nat
  BY <1>2, <1>4, ConfigNumbers
<1>6. more \subseteq usable \ kept /\ Cardinality(more) <= config.mesh_n - Cardinality(kept)
  <2> DEFINE E == usable \ kept
             n == config.mesh_n - Cardinality(kept)
  <2>1. E \subseteq Peers /\ n \in Nat /\ more \in get_random_peers(t, n, E)
    BY <1>5
  <2> HIDE DEF E, n
  <2>2. more \subseteq E /\ Cardinality(more) <= n
    BY <2>1, RandomPeersSound
  <2> QED
    BY <2>2 DEF E, n
<1>7. more \subseteq Peers
  BY <1>6
<1>8. Cardinality(kept \union more) <= Cardinality(kept) + Cardinality(more) /\ Cardinality(more) \in Nat
      /\ Cardinality(kept \union more) \in Nat
  BY <1>3, <1>7, UnionBounded
<1> QED
  BY <1>2, <1>3, <1>4, <1>6, <1>8, ConfigNumbers DEF Limit

\* remove_peer_from_mesh() only takes the peer out.
LEMMA RemovedFromMesh ==
    ASSUME NEW p, NEW t, NEW time, NEW always, remove_peer_from_mesh(p, t, time, always)
    PROVE  /\ DOMAIN mesh' = DOMAIN mesh
           /\ \A u \in DOMAIN mesh : mesh'[u] = IF u = t THEN mesh[u] \ {p} ELSE mesh[u]
<1>1. CASE t \in DOMAIN mesh /\ p \in mesh[t]
  BY <1>1 DEF remove_peer_from_mesh
<1>2. CASE ~(t \in DOMAIN mesh /\ p \in mesh[t])
  <2>1. mesh' = mesh
    BY <1>2 DEF remove_peer_from_mesh
  <2> QED
    BY <1>2, <2>1
<1> QED
  BY <1>1, <1>2

LEMMA LeaveMesh ==
    ASSUME NEW t, leave(t)
    PROVE  /\ DOMAIN mesh' = DOMAIN mesh \ {t}
           /\ \A u \in DOMAIN mesh' : mesh'[u] = mesh[u]
           /\ UNCHANGED <<fanout, fanout_last_pub, topic_peers, peer_topics>>
  BY DEF leave, Drop, peerVars

\* What heartbeat() computes first.
CleanBackoffs == Backoff!heartbeat(backoffs, now)
BeatScores == [p \in Peers |-> ScoreOf(apply_iwant_penalties, p)]
MeshChoices == [t \in DOMAIN mesh |-> MaintainMesh(t, CleanBackoffs, BeatScores, heartbeat_ticks + 1)]

LEMMA MeshPicked ==
    ASSUME NEW m \in PickEach(MeshChoices)
    PROVE  /\ DOMAIN m = DOMAIN mesh
           /\ \A t \in DOMAIN mesh : m[t] \in MaintainMesh(t, CleanBackoffs, BeatScores, heartbeat_ticks + 1)
  BY DEF PickEach, MeshChoices

LEMMA HeartbeatTables ==
    ASSUME TablesInv, Beat
    PROVE  TablesInv'
<1> DEFINE expired == {t \in DOMAIN fanout_last_pub : fanout_last_pub[t] + config.fanout_ttl < now}
           F == [t \in DOMAIN fanout \ expired |-> MaintainFanout(t, BeatScores)]
<1>1. \E m \in PickEach(MeshChoices), f \in PickEach(F) :
         /\ mesh' = [t \in DOMAIN mesh |-> m[t].peers]
         /\ fanout' = f
         /\ fanout_last_pub' = [t \in DOMAIN fanout_last_pub \ expired |-> fanout_last_pub[t]]
         /\ UNCHANGED <<topic_peers, peer_topics>>
  BY Zenon DEF Beat, heartbeat, peerVars, MeshChoices, CleanBackoffs, BeatScores
<1> HIDE DEF expired
<1>2. PICK m \in PickEach(MeshChoices), f \in PickEach(F) :
         /\ mesh' = [t \in DOMAIN mesh |-> m[t].peers]
         /\ fanout' = f
         /\ fanout_last_pub' = [t \in DOMAIN fanout_last_pub \ expired |-> fanout_last_pub[t]]
         /\ UNCHANGED <<topic_peers, peer_topics>>
  BY <1>1, Zenon
<1>3. DOMAIN mesh' = DOMAIN mesh /\ \A t \in DOMAIN mesh : mesh'[t] = m[t].peers
  BY <1>2
<1>4. \A t \in DOMAIN mesh : mesh'[t] \subseteq Peers /\ Cardinality(mesh'[t]) <= Limit
  <2> SUFFICES ASSUME NEW t \in DOMAIN mesh PROVE m[t].peers \subseteq Peers /\ Cardinality(m[t].peers) <= Limit
    BY <1>3
  <2>1. m[t] \in MaintainMesh(t, CleanBackoffs, BeatScores, heartbeat_ticks + 1)
    BY MeshPicked
  <2>2. mesh[t] \subseteq Peers
    BY DEF TablesInv, MeshInv
  <2> QED
    BY <2>1, <2>2, MaintainedBounded
<1>5. MeshInv'
  BY <1>3, <1>4 DEF MeshInv, Limit
<1>6. DOMAIN f = DOMAIN fanout \ expired
  BY DEF PickEach
<1>7. FanoutInv'
  BY <1>2, <1>3, <1>6 DEF TablesInv, FanoutInv
<1>8. TopicInv'
  BY <1>2 DEF TablesInv, TopicInv
<1> QED
  BY <1>5, <1>7, <1>8 DEF TablesInv

LEMMA DeadPeerTables ==
    ASSUME TablesInv, NEW p, handle_remove_dead_peer(p), fanout_last_pub' = fanout_last_pub
    PROVE  TablesInv'
<1>1. CASE p \notin DOMAIN peer_topics
  BY <1>1 DEF handle_remove_dead_peer, TablesInv, MeshInv, TopicInv, FanoutInv, Limit
<1>2. CASE p \in DOMAIN peer_topics
  <2> DEFINE topics == peer_topics[p]
  <2>1. /\ mesh' = [t \in DOMAIN mesh |-> IF t \in topics THEN mesh[t] \ {p} ELSE mesh[t]]
        /\ topic_peers' = [t \in DOMAIN topic_peers |-> IF t \in topics THEN topic_peers[t] \ {p} ELSE topic_peers[t]]
        /\ fanout' = [t \in DOMAIN fanout |-> IF t \in topics THEN fanout[t] \ {p} ELSE fanout[t]]
        /\ peer_topics' = [q \in DOMAIN peer_topics \ {p} |-> peer_topics[q]]
    BY <1>2 DEF handle_remove_dead_peer, At, Drop
  <2> HIDE DEF topics
  <2>2. MeshInv'
    BY <2>1, MeshShrinks DEF TablesInv
  <2>3. TopicInv'
    BY <2>1 DEF TablesInv, TopicInv
  <2>4. FanoutInv'
    BY <2>1 DEF TablesInv, FanoutInv
  <2> QED
    BY <2>2, <2>3, <2>4 DEF TablesInv
<1> QED
  BY <1>1, <1>2

LEMMA PeerEventTables ==
    ASSUME TablesInv, handle_peer_event
    PROVE  TablesInv'
<1>1. fanout_last_pub' = fanout_last_pub
  BY DEF handle_peer_event
<1>2. CASE UNCHANGED <<mesh, fanout, topic_peers>> /\ handle_new_peer(Head(rx).peer)
  <2>1. peer_topics' = peer_topics \/ peer_topics' = Put(peer_topics, Head(rx).peer, {})
    BY <1>2 DEF handle_new_peer
  <2>2. TopicInv'
    BY <1>2, <2>1 DEF TablesInv, TopicInv, Put
  <2> QED
    BY <1>1, <1>2, <2>2 DEF TablesInv, MeshInv, FanoutInv, Limit
<1>3. CASE UNCHANGED <<mesh, fanout, topic_peers, peer_topics>>
  BY <1>1, <1>3 DEF TablesInv, MeshInv, TopicInv, FanoutInv, Limit
<1>4. CASE handle_remove_dead_peer(Head(rx).peer)
  BY <1>1, <1>4, DeadPeerTables
<1> QED
  BY <1>2, <1>3, <1>4, Zenon DEF handle_peer_event

LEMMA SubscriptionTables ==
    ASSUME TablesInv, NEW p \in Peers, NEW t, NEW a, handle_received_subscriptions(p, t, a)
    PROVE  TablesInv'
<1>1. UNCHANGED <<fanout, fanout_last_pub>> /\ p \in DOMAIN peer_topics
  BY DEF handle_received_subscriptions
<1>2. CASE a = "Subscribe"
  <2>1. /\ topic_peers' = Put(topic_peers, t, At(topic_peers, t, {}) \union {p})
        /\ peer_topics' = [peer_topics EXCEPT ![p] = @ \union {t}]
        /\ \/ mesh' = mesh
           \/ /\ t \in DOMAIN mesh /\ Cardinality(mesh[t]) < config.mesh_n_low
              /\ mesh' = [mesh EXCEPT ![t] = @ \union {p}]
    BY <1>2 DEF handle_received_subscriptions
  <2>2. MeshInv'
    <3>1. DOMAIN mesh' = DOMAIN mesh
      BY <2>1
    <3>2. ASSUME NEW u \in DOMAIN mesh
          PROVE  \/ mesh'[u] = mesh[u]
                 \/ mesh'[u] = mesh[u] \union {p} /\ Cardinality(mesh[u]) < config.mesh_n_high
      <4>1. Cardinality(mesh[u]) \in Nat
        BY PeersCounted DEF TablesInv, MeshInv
      <4> QED
        BY <2>1, <4>1, ConfigNumbers
    <3> QED
      BY <3>1, <3>2, MeshGrows DEF TablesInv
  <2>3. TopicInv'
    <3>1. \A u \in DOMAIN topic_peers' : topic_peers'[u] \subseteq Peers
      BY <2>1 DEF TablesInv, TopicInv, Put, At
    <3>2. DOMAIN topic_peers' = DOMAIN topic_peers \union {t} /\ DOMAIN peer_topics' = DOMAIN peer_topics
      BY <2>1 DEF Put
    <3>3. \A u \in DOMAIN topic_peers : topic_peers[u] \subseteq topic_peers'[u]
      BY <2>1 DEF Put, At
    <3>4. p \in topic_peers'[t]
      BY <2>1 DEF Put
    <3>5. ASSUME NEW q \in DOMAIN peer_topics', NEW u \in peer_topics'[q]
          PROVE  u \in DOMAIN topic_peers' /\ q \in topic_peers'[u]
      <4>1. u \in peer_topics[q] \/ (q = p /\ u = t)
        BY <1>1, <2>1, <3>2, <3>5
      <4> QED
        BY <3>2, <3>3, <3>4, <4>1 DEF TablesInv, TopicInv
    <3> QED
      BY <3>1, <3>5 DEF TopicInv
  <2>4. FanoutInv'
    BY <1>1, <2>1 DEF TablesInv, FanoutInv
  <2> QED
    BY <2>2, <2>3, <2>4 DEF TablesInv
<1>3. CASE a = "Unsubscribe"
  <2>1. /\ topic_peers' = Put(topic_peers, t, At(topic_peers, t, {}) \ {p})
        /\ peer_topics' = [peer_topics EXCEPT ![p] = @ \ {t}]
        /\ remove_peer_from_mesh(p, t, config.prune_backoff, FALSE)
    BY <1>3 DEF handle_received_subscriptions
  <2>2. DOMAIN mesh' = DOMAIN mesh /\ \A u \in DOMAIN mesh : mesh'[u] \subseteq mesh[u]
    BY <2>1, RemovedFromMesh
  <2>3. MeshInv'
    BY <2>2, MeshShrinks DEF TablesInv
  <2>4. TopicInv'
    <3>1. \A u \in DOMAIN topic_peers' : topic_peers'[u] \subseteq Peers
      BY <2>1 DEF TablesInv, TopicInv, Put, At
    <3>2. DOMAIN topic_peers' = DOMAIN topic_peers \union {t} /\ DOMAIN peer_topics' = DOMAIN peer_topics
      BY <2>1 DEF Put
    <3>3. \A u \in DOMAIN topic_peers, q \in Peers :
             q \in topic_peers[u] /\ (q # p \/ u # t) => q \in topic_peers'[u]
      BY <2>1 DEF Put, At
    <3>4. ASSUME NEW q \in DOMAIN peer_topics', NEW u \in peer_topics'[q]
          PROVE  u \in DOMAIN topic_peers' /\ q \in topic_peers'[u]
      <4>1. u \in peer_topics[q] /\ (q # p \/ u # t)
        BY <1>1, <2>1, <3>2, <3>4
      <4> QED
        BY <3>2, <3>3, <4>1 DEF TablesInv, TopicInv
    <3> QED
      BY <3>1, <3>4 DEF TopicInv
  <2>5. FanoutInv'
    BY <1>1, <2>2 DEF TablesInv, FanoutInv
  <2> QED
    BY <2>3, <2>4, <2>5 DEF TablesInv
<1> QED
  BY <1>2, <1>3 DEF handle_received_subscriptions

\* A GRAFT is taken only into a mesh with room, and for a pair whose back-off is over.
LEMMA Verdicts ==
    ASSUME NEW p, NEW t
    PROVE  /\ GraftVerdict(p, t) = "ok" =>
                 /\ t \in DOMAIN mesh
                 /\ ~(Cardinality(mesh[t]) >= config.mesh_n_high)
                 /\ ~(/\ <<t, p>> \in DOMAIN backoffs.backoffs
                      /\ backoffs.backoffs[<<t, p>>].time > now)
           /\ GraftVerdict(p, t) \in {"backoff", "negative", "full"} => t \in DOMAIN mesh /\ p \notin mesh[t]
<1>1. CASE t \notin DOMAIN mesh
  <2>1. GraftVerdict(p, t) = "unknown"
    BY <1>1 DEF GraftVerdict
  <2> QED
    BY <2>1
<1>2. CASE t \in DOMAIN mesh /\ p \in mesh[t]
  <2>1. GraftVerdict(p, t) = "already"
    BY <1>2 DEF GraftVerdict
  <2> QED
    BY <2>1
<1>3. CASE t \in DOMAIN mesh /\ p \notin mesh[t]
  <2>1. GraftVerdict(p, t) =
          IF Backoff!is_backoff_with_slack(backoffs, t, p) /\ Backoff!get_backoff_time(backoffs, t, p) > now
          THEN "backoff"
          ELSE IF score_below_threshold(p, 0) THEN "negative"
          ELSE IF Cardinality(mesh[t]) >= config.mesh_n_high THEN "full" ELSE "ok"
    BY <1>3 DEF GraftVerdict
  <2> QED
    BY <1>3, <2>1 DEF Backoff!is_backoff_with_slack, Backoff!get_backoff_time
<1> QED
  BY <1>1, <1>2, <1>3

\* What a GRAFT does to the meshes and the back-offs.
Accepts(p, T) == {t \in T : GraftVerdict(p, t) = "ok"}
Refuses(p, T) == {t \in T : GraftVerdict(p, t) \in {"backoff", "negative", "full"}}

LEMMA GraftForm ==
    ASSUME NEW p, NEW T, handle_graft(p, T)
    PROVE  /\ mesh' = [t \in DOMAIN mesh |-> IF t \in Accepts(p, T) THEN mesh[t] \union {p} ELSE mesh[t]]
           /\ \E R : /\ R \subseteq {<<t, p>> : t \in Refuses(p, T)}
                     /\ backoffs' = Backoff!update_backoff(backoffs, R, config.prune_backoff, now)
           /\ UNCHANGED <<fanout, fanout_last_pub, topic_peers, peer_topics, now>>
<1> DEFINE ok == {<<t, p>> : t \in {u \in T : GraftVerdict(p, u) \in {"ok"}}}
           refused == {u \in T : GraftVerdict(p, u) \in {"backoff", "negative", "full"}}
           R == {q \in {<<t, p>> : t \in refused} : At(peer_protocols, q[2], NONE) # "Gossipsub"}
<1>1. /\ mesh' = [t \in DOMAIN mesh |-> IF <<t, p>> \in ok THEN mesh[t] \union {p} ELSE mesh[t]]
      /\ UNCHANGED <<fanout, fanout_last_pub, topic_peers, peer_topics, now>>
  BY Zenon DEF handle_graft, peerVars, Received
<1>2. backoffs' = Backoff!update_backoff(backoffs, R, config.prune_backoff, now)
  BY DEF handle_graft, make_prune
<1>3. \A t : <<t, p>> \in ok <=> t \in Accepts(p, T)
  BY DEF Accepts
<1>4. refused = Refuses(p, T)
  BY DEF Refuses
<1>5. R \subseteq {<<t, p>> : t \in Refuses(p, T)}
  BY <1>4
<1> HIDE DEF ok, R
<1>6. mesh' = [t \in DOMAIN mesh |-> IF t \in Accepts(p, T) THEN mesh[t] \union {p} ELSE mesh[t]]
  BY <1>1, <1>3
<1> QED
  BY <1>1, <1>2, <1>5, <1>6, Zenon

LEMMA GraftTables ==
    ASSUME TablesInv, NEW p \in Peers, NEW T, handle_graft(p, T)
    PROVE  TablesInv'
<1>1. /\ mesh' = [t \in DOMAIN mesh |-> IF t \in Accepts(p, T) THEN mesh[t] \union {p} ELSE mesh[t]]
      /\ UNCHANGED <<fanout, fanout_last_pub, topic_peers, peer_topics>>
  BY GraftForm
<1>2. ASSUME NEW t \in DOMAIN mesh
      PROVE  \/ mesh'[t] = mesh[t]
             \/ mesh'[t] = mesh[t] \union {p} /\ Cardinality(mesh[t]) < config.mesh_n_high
  <2>1. Cardinality(mesh[t]) \in Nat
    BY PeersCounted DEF TablesInv, MeshInv
  <2>2. t \in Accepts(p, T) => ~(Cardinality(mesh[t]) >= config.mesh_n_high)
    BY Verdicts DEF Accepts
  <2> QED
    BY <1>1, <2>1, <2>2, ConfigNumbers
<1>3. MeshInv'
  BY <1>1, <1>2, MeshGrows DEF TablesInv
<1> QED
  BY <1>1, <1>3 DEF TablesInv, TopicInv, FanoutInv

LEMMA PruneTables ==
    ASSUME TablesInv, NEW p, NEW t, NEW b, handle_prune(p, t, b)
    PROVE  TablesInv'
<1>1. UNCHANGED <<fanout, fanout_last_pub, topic_peers, peer_topics>>
  BY DEF handle_prune, peerVars
<1>2. \E time : remove_peer_from_mesh(p, t, time, TRUE)
  BY Zenon DEF handle_prune
<1>3. DOMAIN mesh' = DOMAIN mesh /\ \A u \in DOMAIN mesh : mesh'[u] \subseteq mesh[u]
  BY <1>2, RemovedFromMesh
<1>4. MeshInv'
  BY <1>3, MeshShrinks DEF TablesInv
<1> QED
  BY <1>1, <1>3, <1>4 DEF TablesInv, TopicInv, FanoutInv

LEMMA LeaveTables ==
    ASSUME TablesInv, NEW t, leave(t)
    PROVE  TablesInv'
<1>1. /\ DOMAIN mesh' = DOMAIN mesh \ {t}
      /\ \A u \in DOMAIN mesh' : mesh'[u] = mesh[u]
      /\ UNCHANGED <<fanout, fanout_last_pub, topic_peers, peer_topics>>
  BY LeaveMesh
<1>2. MeshInv'
  BY <1>1, MeshShrinks DEF TablesInv
<1> QED
  BY <1>1, <1>2 DEF TablesInv, TopicInv, FanoutInv

\* The peers that join() may choose: nobody in back-off.
Usable(t) == {p \in Peers : /\ ~score_below_threshold(p, 0)
                            /\ ~Backoff!is_backoff_with_slack(backoffs, t, p)}

LEMMA JoinForm ==
    ASSUME NEW t, join(t)
    PROVE  \E new : /\ new \subseteq Usable(t) /\ Cardinality(new) <= Limit
                    /\ mesh' = Put(mesh, t, new)
                    /\ fanout' = Drop(fanout, t)
                    /\ fanout_last_pub' = Drop(fanout_last_pub, t)
<1> DEFINE usable == Usable(t)
           F == At(fanout, t, {})
<1>1. PICK kept \in Picks(F \intersect usable, config.mesh_n) :
        \E more \in get_random_peers(t, config.mesh_n - Cardinality(kept), usable \ kept) :
          /\ mesh' = Put(mesh, t, kept \union more)
          /\ fanout' = Drop(fanout, t)
          /\ fanout_last_pub' = Drop(fanout_last_pub, t)
  BY Zenon DEF join, Usable
<1>2. PICK more \in get_random_peers(t, config.mesh_n - Cardinality(kept), usable \ kept) :
          /\ mesh' = Put(mesh, t, kept \union more)
          /\ fanout' = Drop(fanout, t)
          /\ fanout_last_pub' = Drop(fanout_last_pub, t)
  BY <1>1, Zenon
<1>3. usable \subseteq Peers
  BY DEF Usable
<1> HIDE DEF usable, F
<1>4. kept \union more \subseteq usable /\ Cardinality(kept \union more) <= Limit
  BY <1>3, JoinBounded
<1> QED
  BY <1>2, <1>4, Zenon DEF usable

LEMMA SubscribeTables ==
    ASSUME TablesInv, NEW t, subscribe(t)
    PROVE  TablesInv'
<1>1. PICK new : /\ new \subseteq Usable(t) /\ Cardinality(new) <= Limit
                 /\ mesh' = Put(mesh, t, new)
                 /\ fanout' = Drop(fanout, t)
                 /\ fanout_last_pub' = Drop(fanout_last_pub, t)
  BY JoinForm DEF subscribe
<1>2. UNCHANGED <<topic_peers, peer_topics>>
  BY DEF subscribe, peerVars
<1>3. new \subseteq Peers
  BY <1>1 DEF Usable
<1>4. MeshInv'
  BY <1>1, <1>3 DEF TablesInv, MeshInv, Put, Limit
<1>5. FanoutInv'
  BY <1>1 DEF TablesInv, FanoutInv, Put, Drop
<1> QED
  BY <1>2, <1>4, <1>5 DEF TablesInv, TopicInv

LEMMA PublishTables ==
    ASSUME TablesInv, NEW m, publish(m)
    PROVE  TablesInv'
<1> DEFINE t == TopicOf[m]
<1>1. UNCHANGED <<mesh, topic_peers, peer_topics>>
  BY DEF publish, peerVars
<1>2. \/ UNCHANGED <<fanout, fanout_last_pub>>
      \/ t \notin DOMAIN mesh /\ \E new : fanout' = Put(fanout, t, new) /\ fanout_last_pub' = Put(fanout_last_pub, t, now)
  <2>1. \E new : /\ fanout' = IF t \in DOMAIN topic_peers /\ ~config.flood_publish /\ t \notin DOMAIN mesh
                              THEN Put(fanout, t, new) ELSE fanout
                 /\ fanout_last_pub' = IF t \in DOMAIN topic_peers /\ ~config.flood_publish /\ t \notin DOMAIN mesh
                                       THEN Put(fanout_last_pub, t, now) ELSE fanout_last_pub
    BY Zenon DEF publish
  <2> QED
    BY <2>1, Zenon
<1>3. FanoutInv'
  BY <1>1, <1>2 DEF TablesInv, FanoutInv, Put
<1> QED
  BY <1>1, <1>3 DEF TablesInv, MeshInv, TopicInv, Limit

LEMMA TablesFrame ==
    ASSUME TablesInv, UNCHANGED <<mesh, fanout, fanout_last_pub, topic_peers, peer_topics>>
    PROVE  TablesInv'
  BY DEF TablesInv, MeshInv, TopicInv, FanoutInv, Limit

LEMMA TablesStep ==
    ASSUME TablesInv, [Next]_vars
    PROVE  TablesInv'
<1> DEFINE Same == UNCHANGED <<mesh, fanout, fanout_last_pub, topic_peers, peer_topics>>
<1>1. Quiet => Same
  BY DEF Quiet, meshVars, peerVars
<1>2. \A p, t, ids : handle_ihave(p, t, ids) => Same
  BY DEF handle_ihave, peerVars
<1>3. \A p, ids : handle_iwant(p, ids) => Same
  BY DEF handle_iwant, meshVars, peerVars
<1>4. \A p, m : handle_received_message(p, m) => Same
  BY DEF handle_received_message, meshVars, peerVars
<1>5. \A p, m, e : handle_invalid_message(p, m, e) => Same
  BY DEF handle_invalid_message, meshVars, peerVars
<1>6. handle_cancel => TablesInv'
  BY LeaveTables DEF handle_cancel
<1>7. \A t : unsubscribe(t) => TablesInv'
  BY LeaveTables DEF unsubscribe
<1>8. UNCHANGED vars => Same
  BY DEF vars, meshVars, peerVars
<1>9. Same => TablesInv'
  BY TablesFrame
<1> HIDE DEF Same
<1>10. CASE Next
  <2>1. Step
    BY <1>10, StepCases
  <2>2. \A p \in Peers : \A t, a : handle_received_subscriptions(p, t, a) => TablesInv'
    BY SubscriptionTables
  <2>3. \A p, t, b : handle_prune(p, t, b) => TablesInv'
    BY PruneTables
  <2>4. \A p \in Peers : \A T : handle_graft(p, T) => TablesInv'
    BY GraftTables
  <2>5. \A t : subscribe(t) => TablesInv'
    BY SubscribeTables
  <2>6. \A m : publish(m) => TablesInv'
    BY PublishTables
  <2> QED
    BY <2>1, <2>2, <2>3, <2>4, <2>5, <2>6, <1>1, <1>2, <1>3, <1>4, <1>5, <1>6, <1>7, <1>9,
       HeartbeatTables, PeerEventTables, Zenon DEF Step
<1> QED
  BY <1>8, <1>9, <1>10

\* Over any order of RPCs, departures, heartbeats and commands the tables of gossipsub.rs agree:
\* every topic of a peer lists the peer, a fanout has its time of expiry and is no mesh, and no
\* mesh outgrows mesh_n_high (with scoring, by the opportunistic grafts of one heartbeat).
THEOREM GossipTopicTablesAgree ==
    ASSUME NEW P \in SUBSET Peers
    PROVE  SpecWith(P) => []TopicTablesAgree
<1>1. InitWith(P) => TablesInv
  BY TablesInit
<1>2. TablesInv /\ [Next]_vars => TablesInv'
  BY TablesStep
<1> QED
  BY <1>1, <1>2, TablesAgree, PTL DEF SpecWith

-----------------------------------------------------------------------------
(* The back-offs *)

\* What a step may do to the storage: start back-offs, at a heartbeat after the clean-up.
Restarts(b) == \E R : \E time \in Nat : backoffs' = Backoff!update_backoff(b, R, time, now)

LEMMA HeartbeatBackoffs == Beat => Restarts(CleanBackoffs)
<1> SUFFICES ASSUME Beat PROVE \E R : backoffs' = Backoff!update_backoff(CleanBackoffs, R, config.prune_backoff, now)
  BY ConfigNumbers, Zenon DEF Restarts
<1>1. PICK m \in PickEach(MeshChoices) :
        \E grafts : backoffs' = send_graft_prune(apply_iwant_penalties, CleanBackoffs, grafts,
                                   UNION {{<<t, p>> : p \in m[t].prune} : t \in DOMAIN mesh}).backoffs
  BY Zenon DEF Beat, heartbeat, MeshChoices, CleanBackoffs, BeatScores
<1> QED
  BY <1>1 DEF send_graft_prune, make_prune

LEMMA RemovalBackoffs ==
    ASSUME NEW p, NEW t, NEW time \in Nat, NEW always, remove_peer_from_mesh(p, t, time, always)
    PROVE  backoffs' = backoffs \/ Restarts(backoffs)
  BY Zenon DEF remove_peer_from_mesh, Restarts

LEMMA LeaveBackoffs ==
    ASSUME NEW t, leave(t)
    PROVE  Restarts(backoffs)
<1> DEFINE R == {q \in {<<t, p>> : p \in At(mesh, t, {})} : At(peer_protocols, q[2], NONE) # "Gossipsub"}
<1>1. backoffs' = Backoff!update_backoff(backoffs, R, config.prune_backoff, now)
  BY DEF leave, make_prune
<1> HIDE DEF R
<1> QED
  BY <1>1, ConfigNumbers, Zenon DEF Restarts

LEMMA PruneBackoffs ==
    ASSUME NEW p, NEW t, NEW b \in RemoteBackoffs, handle_prune(p, t, b)
    PROVE  backoffs' = backoffs \/ Restarts(backoffs)
<1> DEFINE time == IF b = NONE THEN config.prune_backoff ELSE b
<1>1. time \in Nat
  BY InputAssumption, ConfigNumbers
<1>2. remove_peer_from_mesh(p, t, time, TRUE)
  BY DEF handle_prune
<1> QED
  BY <1>1, <1>2, RemovalBackoffs

LEMMA SubscriptionBackoffs ==
    ASSUME NEW p, NEW t, NEW a, handle_received_subscriptions(p, t, a)
    PROVE  backoffs' = backoffs \/ Restarts(backoffs)
<1>1. backoffs' = backoffs \/ remove_peer_from_mesh(p, t, config.prune_backoff, FALSE)
  BY Zenon DEF handle_received_subscriptions
<1> QED
  BY <1>1, ConfigNumbers, RemovalBackoffs

LEMMA BackoffSteps ==
    [Next]_vars => /\ backoffs' = backoffs \/ Restarts(backoffs) \/ Restarts(CleanBackoffs)
                   /\ now' \in {now, now + 1}
<1> DEFINE Keep == backoffs' = backoffs \/ Restarts(backoffs) \/ Restarts(CleanBackoffs)
           Clock == now' \in {now, now + 1}
<1>1. Quiet => Keep /\ Clock
  BY DEF Quiet, meshVars
<1>2. handle_peer_event => Keep /\ Clock
  BY DEF handle_peer_event
<1>3. Beat => Keep /\ Clock
  BY HeartbeatBackoffs DEF Beat
<1>4. handle_cancel => Keep /\ Clock
  BY LeaveBackoffs DEF handle_cancel, envVars
<1>5. \A p, t, a : handle_received_subscriptions(p, t, a) => Keep /\ Clock
  <2>1. \A p, t, a : handle_received_subscriptions(p, t, a) => Keep
    BY SubscriptionBackoffs
  <2>2. \A p, t, a : handle_received_subscriptions(p, t, a) => now' = now
    BY DEF handle_received_subscriptions, Received
  <2> QED
    BY <2>1, <2>2
<1>6. \A p, t : \A b \in RemoteBackoffs : handle_prune(p, t, b) => Keep /\ Clock
  BY PruneBackoffs DEF handle_prune, Received
<1>7. \A p, t, ids : handle_ihave(p, t, ids) => Keep /\ Clock
  BY DEF handle_ihave, Received
<1>8. \A p, T : handle_graft(p, T) => Keep /\ Clock
  <2> SUFFICES ASSUME NEW p, NEW T, handle_graft(p, T) PROVE Keep /\ Clock
    BY Zenon
  <2>1. now' = now /\ \E R : backoffs' = Backoff!update_backoff(backoffs, R, config.prune_backoff, now)
    BY GraftForm
  <2> QED
    BY <2>1, ConfigNumbers, Zenon DEF Restarts
<1>9. \A p, ids : handle_iwant(p, ids) => Keep /\ Clock
  BY DEF handle_iwant, meshVars, Received
<1>10. \A p, m : handle_received_message(p, m) => Keep /\ Clock
  BY DEF handle_received_message, meshVars, Received
<1>11. \A p, m, e : handle_invalid_message(p, m, e) => Keep /\ Clock
  BY DEF handle_invalid_message, meshVars, Received
<1>12. \A t : subscribe(t) => Keep /\ Clock
  BY DEF subscribe, envVars
<1>13. \A t : unsubscribe(t) => Keep /\ Clock
  BY LeaveBackoffs DEF unsubscribe, envVars
<1>14. \A m : publish(m) => Keep /\ Clock
  BY DEF publish, envVars
<1>15. UNCHANGED vars => Keep /\ Clock
  BY DEF vars, meshVars, envVars
<1> HIDE DEF Keep, Clock
<1>16. Next => Keep /\ Clock
  BY <1>1, <1>2, <1>3, <1>4, <1>5, <1>6, <1>7, <1>8, <1>9, <1>10, <1>11, <1>12, <1>13, <1>14,
     StepCases, Zenon DEF Step
<1> QED
  BY <1>15, <1>16 DEF Keep, Clock

StorageInv == StorageSound(backoffs) /\ now \in Nat

LEMMA StorageInit ==
    ASSUME NEW P, InitWith(P)
    PROVE  StorageInv
  BY NewStorageSound DEF InitWith, StorageInv

LEMMA StorageStep ==
    ASSUME StorageInv, [Next]_vars
    PROVE  StorageInv' /\ BackoffIsKept
<1>1. now \in Nat /\ StorageSound(backoffs)
  BY DEF StorageInv
<1>2. now' \in Nat
  BY <1>1, BackoffSteps
<1>3. CASE backoffs' = backoffs
  <2>1. \A q \in DOMAIN backoffs.backoffs : backoffs.backoffs[q].time \in Int
    BY <1>1 DEF StorageSound
  <2> QED
    BY <1>1, <1>2, <1>3, <2>1 DEF StorageInv, BackoffIsKept
<1>4. CASE Restarts(backoffs)
  <2>0. PICK R : \E time \in Nat : backoffs' = Backoff!update_backoff(backoffs, R, time, now)
    BY <1>4, Zenon DEF Restarts
  <2>1. PICK time \in Nat : backoffs' = Backoff!update_backoff(backoffs, R, time, now)
    BY <2>0, Zenon
  <2>2. /\ StorageSound(backoffs')
        /\ DOMAIN backoffs'.backoffs = DOMAIN backoffs.backoffs \union R
        /\ \A q \in DOMAIN backoffs.backoffs : backoffs'.backoffs[q].time >= backoffs.backoffs[q].time
    BY <1>1, <2>1, UpdateSound
  <2> QED
    BY <1>2, <2>2 DEF StorageInv, BackoffIsKept
<1>5. CASE Restarts(CleanBackoffs)
  <2> DEFINE b == CleanBackoffs
  <2>0. PICK R : \E time \in Nat : backoffs' = Backoff!update_backoff(b, R, time, now)
    BY <1>5, Zenon DEF Restarts
  <2>1. PICK time \in Nat : backoffs' = Backoff!update_backoff(b, R, time, now)
    BY <2>0, Zenon
  <2>2. /\ StorageSound(b)
        /\ DOMAIN b.backoffs \subseteq DOMAIN backoffs.backoffs
        /\ \A q \in DOMAIN b.backoffs : b.backoffs[q] = backoffs.backoffs[q]
        /\ \A q \in DOMAIN backoffs.backoffs : backoffs.backoffs[q].time > now => q \in DOMAIN b.backoffs
    BY <1>1, ExpirySound DEF CleanBackoffs
  <2> HIDE DEF b
  <2>3. /\ StorageSound(backoffs')
        /\ DOMAIN backoffs'.backoffs = DOMAIN b.backoffs \union R
        /\ \A q \in DOMAIN b.backoffs : backoffs'.backoffs[q].time >= b.backoffs[q].time
    BY <1>1, <2>1, <2>2, UpdateSound
  <2>4. BackoffIsKept
    BY <2>2, <2>3 DEF BackoffIsKept
  <2> QED
    BY <1>2, <2>3, <2>4 DEF StorageInv
<1> QED
  BY <1>3, <1>4, <1>5, BackoffSteps

LEMMA SoundRingAgrees == StorageInv => BackoffRingAgrees
  BY DEF StorageInv, StorageSound, BackoffRingAgrees

\* The two views that backoff.rs keeps of the back-offs agree for good: no pair is in a slot of
\* the ring that its entry does not name, which would end its back-off early, and none is in no
\* slot, which would never end it.
THEOREM GossipBackoffRingAgrees ==
    ASSUME NEW P \in SUBSET Peers
    PROVE  SpecWith(P) => []BackoffRingAgrees
<1>1. InitWith(P) => StorageInv
  BY StorageInit
<1>2. StorageInv /\ [Next]_vars => StorageInv'
  BY StorageStep
<1> QED
  BY <1>1, <1>2, SoundRingAgrees, PTL DEF SpecWith

\* With or without scoring, no step of the router shortens or forgets a back-off that is still
\* running: no PRUNE with a shorter time, no departure, leave or heartbeat.
THEOREM GossipBackoffIsKept ==
    ASSUME NEW P \in SUBSET Peers
    PROVE  SpecWith(P) => [][BackoffIsKept]_vars
<1>1. InitWith(P) => StorageInv
  BY StorageInit
<1>2. StorageInv /\ [Next]_vars => StorageInv' /\ BackoffIsKept
  BY StorageStep
<1> QED
  BY <1>1, <1>2, PTL DEF SpecWith

-----------------------------------------------------------------------------
(* Meshes and back-offs of a router without scoring *)

\* A member of a mesh may stay if its back-off is as before, or come in if none is running.
Stays(t, p) ==
    /\ t \in DOMAIN mesh /\ p \in mesh[t]
    /\ <<t, p>> \in DOMAIN backoffs'.backoffs =>
          /\ <<t, p>> \in DOMAIN backoffs.backoffs
          /\ backoffs'.backoffs[<<t, p>>] = backoffs.backoffs[<<t, p>>]
Enters(t, p) ==
    <<t, p>> \in DOMAIN backoffs'.backoffs => ~(backoffs'.backoffs[<<t, p>>].time > now)

LEMMA MembersRespect ==
    ASSUME StorageInv, StorageInv', now' \in {now, now + 1}, NoMeshInBackoff,
           \A t \in DOMAIN mesh' : \A p \in mesh'[t] : Stays(t, p) \/ Enters(t, p)
    PROVE  NoMeshInBackoff'
<1> SUFFICES ASSUME NEW t \in DOMAIN mesh', NEW p \in mesh'[t], <<t, p>> \in DOMAIN backoffs'.backoffs
             PROVE  backoffs'.backoffs[<<t, p>>].time <= now'
  BY DEF NoMeshInBackoff
<1>1. now \in Nat /\ now' \in Nat /\ now <= now'
  BY DEF StorageInv
<1>2. backoffs'.backoffs[<<t, p>>].time \in Int
  BY DEF StorageInv, StorageSound
<1>3. CASE Stays(t, p)
  BY <1>1, <1>2, <1>3 DEF Stays, NoMeshInBackoff
<1>4. CASE Enters(t, p)
  BY <1>1, <1>2, <1>4 DEF Enters
<1> QED
  BY <1>3, <1>4

LEMMA RemovalMembers ==
    ASSUME StorageInv, NEW p, NEW t, NEW time \in Nat, NEW always, remove_peer_from_mesh(p, t, time, always)
    PROVE  \A u \in DOMAIN mesh' : \A q \in mesh'[u] : Stays(u, q)
<1> SUFFICES ASSUME NEW u \in DOMAIN mesh', NEW q \in mesh'[u] PROVE Stays(u, q)
  OBVIOUS
<1>0. /\ DOMAIN mesh' = DOMAIN mesh
      /\ \A x \in DOMAIN mesh : mesh'[x] = IF x = t THEN mesh[x] \ {p} ELSE mesh[x]
  BY RemovedFromMesh
<1>1. u \in DOMAIN mesh /\ q \in mesh[u] /\ ~(u = t /\ q = p)
  BY <1>0
<1>2. CASE backoffs' = backoffs
  BY <1>1, <1>2 DEF Stays
<1>3. CASE backoffs' = Backoff!update_backoff(backoffs, {<<t, p>>}, time, now)
  <2>1. /\ DOMAIN backoffs'.backoffs = DOMAIN backoffs.backoffs \union {<<t, p>>}
        /\ \A r \in DOMAIN backoffs.backoffs \ {<<t, p>>} : backoffs'.backoffs[r] = backoffs.backoffs[r]
    BY <1>3, UpdateSound DEF StorageInv
  <2>2. <<u, q>> # <<t, p>>
    BY <1>1
  <2> QED
    BY <1>1, <2>1, <2>2 DEF Stays
<1> QED
  BY <1>2, <1>3 DEF remove_peer_from_mesh

LEMMA LeaveMembers ==
    ASSUME StorageInv, NEW t, leave(t)
    PROVE  \A u \in DOMAIN mesh' : \A q \in mesh'[u] : Stays(u, q)
<1> SUFFICES ASSUME NEW u \in DOMAIN mesh', NEW q \in mesh'[u] PROVE Stays(u, q)
  OBVIOUS
<1> DEFINE R == {x \in {<<t, p>> : p \in At(mesh, t, {})} : At(peer_protocols, x[2], NONE) # "Gossipsub"}
<1>1. backoffs' = Backoff!update_backoff(backoffs, R, config.prune_backoff, now)
  BY DEF leave, make_prune
<1>2. u \in DOMAIN mesh /\ q \in mesh[u] /\ u # t
  BY LeaveMesh
<1>3. <<u, q>> \notin R
  BY <1>2
<1> HIDE DEF R
<1>4. /\ DOMAIN backoffs'.backoffs = DOMAIN backoffs.backoffs \union R
      /\ \A r \in DOMAIN backoffs.backoffs \ R : backoffs'.backoffs[r] = backoffs.backoffs[r]
  BY <1>1, UpdateSound, ConfigNumbers DEF StorageInv
<1> QED
  BY <1>2, <1>3, <1>4 DEF Stays

LEMMA GraftMembers ==
    ASSUME StorageInv, NEW p, NEW T, handle_graft(p, T)
    PROVE  \A u \in DOMAIN mesh' : \A q \in mesh'[u] : Stays(u, q) \/ Enters(u, q)
<1> SUFFICES ASSUME NEW u \in DOMAIN mesh', NEW q \in mesh'[u] PROVE Stays(u, q) \/ Enters(u, q)
  OBVIOUS
<1>1. PICK R : /\ R \subseteq {<<t, p>> : t \in Refuses(p, T)}
               /\ backoffs' = Backoff!update_backoff(backoffs, R, config.prune_backoff, now)
  BY GraftForm
<1>2. /\ DOMAIN backoffs'.backoffs = DOMAIN backoffs.backoffs \union R
      /\ \A r \in DOMAIN backoffs.backoffs \ R : backoffs'.backoffs[r] = backoffs.backoffs[r]
  BY <1>1, UpdateSound, ConfigNumbers DEF StorageInv
<1>3. u \in DOMAIN mesh /\ mesh'[u] = IF u \in Accepts(p, T) THEN mesh[u] \union {p} ELSE mesh[u]
  BY GraftForm
<1>4. <<u, q>> \notin R
  <2> SUFFICES ASSUME q = p, u \in Refuses(p, T) PROVE FALSE
    BY <1>1
  <2>1. p \notin mesh[u]
    BY Verdicts DEF Refuses
  <2>2. u \notin Accepts(p, T)
    BY DEF Accepts, Refuses
  <2> QED
    BY <1>3, <2>1, <2>2
<1>5. CASE q \in mesh[u]
  BY <1>2, <1>3, <1>4, <1>5 DEF Stays
<1>6. CASE q \notin mesh[u]
  <2>1. q = p /\ u \in Accepts(p, T)
    BY <1>3, <1>6
  <2>2. ~(<<u, p>> \in DOMAIN backoffs.backoffs /\ backoffs.backoffs[<<u, p>>].time > now)
    BY <2>1, Verdicts DEF Accepts
  <2> QED
    BY <1>2, <1>4, <2>1, <2>2 DEF Enters
<1> QED
  BY <1>5, <1>6

LEMMA SubscriptionMembers ==
    ASSUME StorageInv, NEW p, NEW t, NEW a, handle_received_subscriptions(p, t, a)
    PROVE  \A u \in DOMAIN mesh' : \A q \in mesh'[u] : Stays(u, q) \/ Enters(u, q)
<1>1. \/ /\ backoffs' = backoffs
         /\ \/ mesh' = mesh
            \/ CanBeGrafted(p, t) /\ mesh' = [mesh EXCEPT ![t] = @ \union {p}]
      \/ remove_peer_from_mesh(p, t, config.prune_backoff, FALSE)
  BY DEF handle_received_subscriptions
<1>2. CASE remove_peer_from_mesh(p, t, config.prune_backoff, FALSE)
  BY <1>2, RemovalMembers, ConfigNumbers
<1>3. CASE backoffs' = backoffs /\ mesh' = mesh
  BY <1>3 DEF Stays
<1>4. CASE backoffs' = backoffs /\ CanBeGrafted(p, t) /\ mesh' = [mesh EXCEPT ![t] = @ \union {p}]
  <2>1. <<t, p>> \notin DOMAIN backoffs.backoffs
    BY <1>4 DEF CanBeGrafted, Backoff!is_backoff_with_slack
  <2> SUFFICES ASSUME NEW u \in DOMAIN mesh', NEW q \in mesh'[u] PROVE Stays(u, q) \/ Enters(u, q)
    OBVIOUS
  <2>2. u \in DOMAIN mesh /\ (q \in mesh[u] \/ (u = t /\ q = p))
    BY <1>4
  <2> QED
    BY <1>4, <2>1, <2>2 DEF Stays, Enters
<1> QED
  BY <1>1, <1>2, <1>3, <1>4

LEMMA SubscribeMembers ==
    ASSUME NEW t, subscribe(t)
    PROVE  \A u \in DOMAIN mesh' : \A q \in mesh'[u] : Stays(u, q) \/ Enters(u, q)
<1>1. PICK new : new \subseteq Usable(t) /\ mesh' = Put(mesh, t, new)
  BY JoinForm DEF subscribe
<1>2. backoffs' = backoffs
  BY DEF subscribe
<1> SUFFICES ASSUME NEW u \in DOMAIN mesh', NEW q \in mesh'[u] PROVE Stays(u, q) \/ Enters(u, q)
  OBVIOUS
<1>3. (u = t /\ q \in new) \/ (u \in DOMAIN mesh /\ q \in mesh[u])
  BY <1>1 DEF Put
<1>4. q \in new => <<t, q>> \notin DOMAIN backoffs.backoffs
  BY <1>1 DEF Usable, Backoff!is_backoff_with_slack
<1> QED
  BY <1>2, <1>3, <1>4 DEF Stays, Enters

LEMMA PeerEventMembers ==
    ASSUME handle_peer_event
    PROVE  \A u \in DOMAIN mesh' : \A q \in mesh'[u] : Stays(u, q)
<1>1. backoffs' = backoffs
  BY DEF handle_peer_event
<1>2. DOMAIN mesh' = DOMAIN mesh /\ \A u \in DOMAIN mesh : mesh'[u] \subseteq mesh[u]
  <2>1. CASE mesh' = mesh
    BY <2>1
  <2>2. CASE handle_remove_dead_peer(Head(rx).peer)
    BY <2>2 DEF handle_remove_dead_peer
  <2> QED
    BY <2>1, <2>2, Zenon DEF handle_peer_event
<1> QED
  BY <1>1, <1>2 DEF Stays

\* Without scores the maintenance prunes nobody, grafts only peers that are not in back-off, and
\* leaves a mesh below mesh_n_low only when there is nobody left to graft.
LEMMA UnscoredMaintained ==
    ASSUME ~Scored, NEW t \in DOMAIN mesh, mesh[t] \subseteq Peers, Cardinality(mesh[t]) <= Limit,
           NEW b, NEW ticks, NEW r \in MaintainMesh(t, b, BeatScores, ticks)
    PROVE  /\ r.prune = {}
           /\ \A p \in r.peers : p \in mesh[t] \/ p \in Fresh(t, b)
           /\ \/ Cardinality(r.peers) >= config.mesh_n_low
              \/ \A p \in At(topic_peers, t, {}) \intersect Fresh(t, b) : IsGossip(p) => p \in r.peers
<1>1. PICK good, add, cut, top : Maintained(t, b, BeatScores, ticks, r, good, add, cut, top)
  BY MaintainedForm
<1>2. \A p \in Peers : BeatScores[p] = 0
  BY DEF BeatScores, ScoreOf
<1>3. good = mesh[t]
  BY <1>1, <1>2 DEF Maintained
<1> DEFINE E == {p \in Fresh(t, b) \ good : BeatScores[p] >= 0}
           n == config.mesh_n - Cardinality(good)
<1>4. Cardinality(good) \in Nat
  BY <1>3, PeersCounted
<1>5. E \subseteq Peers /\ E = Fresh(t, b) \ good
  BY <1>2 DEF Fresh
<1>6. CASE Cardinality(good) >= config.mesh_n_low
  <2>1. add = {}
    BY <1>1, <1>6 DEF Maintained, Fills
  <2>2. Cardinality(good \union add) <= config.mesh_n_high
    <3>1. good \union add = good
      BY <2>1
    <3> QED
      BY <1>3, <3>1, ConfigNumbers DEF Limit
  <2>3. cut = {} /\ top = {}
    BY <1>1, <2>2 DEF Maintained, Cuts, Tops
  <2>4. r.peers = good /\ r.prune = {}
    BY <1>1, <1>3, <2>1, <2>3 DEF Maintained
  <2> QED
    BY <1>3, <1>6, <2>4
<1>7. CASE ~(Cardinality(good) >= config.mesh_n_low)
  <2>1. add \in get_random_peers(t, n, E)
    BY <1>1, <1>7 DEF Maintained, Fills
  <2>2. n \in Nat
    BY <1>4, <1>7, ConfigNumbers
  <2> HIDE DEF E
  <2>3. /\ add \subseteq E /\ Cardinality(add) <= n
        /\ \/ Cardinality(add) = n
           \/ \A p \in At(topic_peers, t, {}) \intersect E : IsGossip(p) => p \in add
    <3> HIDE DEF n
    <3>1. E \subseteq Peers
      BY <1>5
    <3> QED
      BY <2>1, <2>2, <3>1, RandomPeersSound, Zenon
  <2>4. add \subseteq Peers /\ good \subseteq Peers /\ good \intersect add = {}
    BY <1>3, <1>5, <2>3
  <2>5. Cardinality(good \union add) = Cardinality(good) + Cardinality(add) /\ Cardinality(add) \in Nat
    BY <2>4, UnionBounded
  <2>6. Cardinality(good \union add) <= config.mesh_n_high
    BY <1>4, <2>3, <2>5, ConfigNumbers
  <2>7. cut = {} /\ top = {}
    BY <1>1, <2>6 DEF Maintained, Cuts, Tops
  <2>8. r.peers = good \union add /\ r.prune = {}
    BY <1>1, <1>3, <2>7 DEF Maintained
  <2>9. CASE Cardinality(add) = n
    <3>1. Cardinality(r.peers) >= config.mesh_n_low
      BY <1>4, <2>5, <2>8, <2>9, ConfigNumbers
    <3> QED
      BY <1>3, <1>5, <2>3, <2>8, <3>1
  <2>10. CASE \A p \in At(topic_peers, t, {}) \intersect E : IsGossip(p) => p \in add
    BY <1>3, <1>5, <2>3, <2>8, <2>10
  <2> QED
    BY <2>3, <2>9, <2>10
<1> QED
  BY <1>6, <1>7

\* A heartbeat without scores, as a whole.
LEMMA UnscoredBeat ==
    ASSUME ~Scored, TablesInv, StorageInv, Beat
    PROVE  /\ DOMAIN mesh' = DOMAIN mesh
           /\ DOMAIN backoffs'.backoffs = DOMAIN CleanBackoffs.backoffs
           /\ \A q \in DOMAIN backoffs'.backoffs : /\ q \in DOMAIN backoffs.backoffs
                                                   /\ backoffs'.backoffs[q] = backoffs.backoffs[q]
           /\ \A t \in DOMAIN mesh :
                 /\ \A p \in mesh'[t] : p \in mesh[t] \/ p \in Fresh(t, CleanBackoffs)
                 /\ \/ Cardinality(mesh'[t]) >= config.mesh_n_low
                    \/ \A p \in At(topic_peers, t, {}) \intersect Fresh(t, CleanBackoffs) :
                          IsGossip(p) => p \in mesh'[t]
<1> DEFINE b == CleanBackoffs
<1>1. PICK m \in PickEach(MeshChoices) :
        /\ mesh' = [t \in DOMAIN mesh |-> m[t].peers]
        /\ \E grafts : backoffs' = send_graft_prune(apply_iwant_penalties, CleanBackoffs, grafts,
                                   UNION {{<<t, p>> : p \in m[t].prune} : t \in DOMAIN mesh}).backoffs
  BY Zenon DEF Beat, heartbeat, MeshChoices, CleanBackoffs, BeatScores
<1>2. ASSUME NEW t \in DOMAIN mesh
      PROVE  /\ m[t].prune = {}
             /\ \A p \in m[t].peers : p \in mesh[t] \/ p \in Fresh(t, b)
             /\ \/ Cardinality(m[t].peers) >= config.mesh_n_low
                \/ \A p \in At(topic_peers, t, {}) \intersect Fresh(t, b) : IsGossip(p) => p \in m[t].peers
  <2>1. m[t] \in MaintainMesh(t, b, BeatScores, heartbeat_ticks + 1)
    BY MeshPicked
  <2>2. mesh[t] \subseteq Peers /\ Cardinality(mesh[t]) <= Limit
    BY DEF TablesInv, MeshInv
  <2> QED
    BY <2>1, <2>2, UnscoredMaintained
<1>3. UNION {{<<t, p>> : p \in m[t].prune} : t \in DOMAIN mesh} = {}
  BY <1>2
<1>4. PICK R : R = {} /\ backoffs' = Backoff!update_backoff(b, R, config.prune_backoff, now)
  <2> DEFINE Q == {q \in {} : At(peer_protocols, q[2], NONE) # "Gossipsub"}
  <2>1. backoffs' = Backoff!update_backoff(b, Q, config.prune_backoff, now)
    BY <1>1, <1>3 DEF send_graft_prune, make_prune
  <2>2. Q = {}
    OBVIOUS
  <2> QED
    BY <2>1, <2>2
<1>5. /\ StorageSound(b)
      /\ DOMAIN b.backoffs \subseteq DOMAIN backoffs.backoffs
      /\ \A q \in DOMAIN b.backoffs : b.backoffs[q] = backoffs.backoffs[q]
  BY ExpirySound DEF CleanBackoffs, StorageInv
<1> HIDE DEF b
<1>6. /\ DOMAIN backoffs'.backoffs = DOMAIN b.backoffs \union R
      /\ \A q \in DOMAIN b.backoffs \ R : backoffs'.backoffs[q] = b.backoffs[q]
  <2>1. StorageSound(b) /\ config.prune_backoff \in Nat /\ now \in Nat
    BY <1>5, ConfigNumbers DEF StorageInv
  <2>2. backoffs' = Backoff!update_backoff(b, R, config.prune_backoff, now)
    BY <1>4
  <2> QED
    BY <2>1, <2>2, UpdateSound
<1>7. /\ DOMAIN backoffs'.backoffs = DOMAIN b.backoffs
      /\ \A q \in DOMAIN backoffs'.backoffs : /\ q \in DOMAIN backoffs.backoffs
                                              /\ backoffs'.backoffs[q] = backoffs.backoffs[q]
  BY <1>4, <1>5, <1>6
<1>8. DOMAIN mesh' = DOMAIN mesh /\ \A t \in DOMAIN mesh : mesh'[t] = m[t].peers
  BY <1>1
<1>9. \A t \in DOMAIN mesh :
                 /\ \A p \in mesh'[t] : p \in mesh[t] \/ p \in Fresh(t, b)
                 /\ \/ Cardinality(mesh'[t]) >= config.mesh_n_low
                    \/ \A p \in At(topic_peers, t, {}) \intersect Fresh(t, b) :
                          IsGossip(p) => p \in mesh'[t]
  <2> TAKE t \in DOMAIN mesh
  <2>1. mesh'[t] = m[t].peers
    BY <1>8
  <2> QED
    BY <1>2, <2>1
<1> QED
  BY <1>7, <1>8, <1>9 DEF b

LEMMA UnscoredMembers ==
    ASSUME ~Scored, TablesInv, StorageInv, [Next]_vars
    PROVE  \A u \in DOMAIN mesh' : \A q \in mesh'[u] : Stays(u, q) \/ Enters(u, q)
<1> DEFINE Members == \A u \in DOMAIN mesh' : \A q \in mesh'[u] : Stays(u, q) \/ Enters(u, q)
           Same == mesh' = mesh /\ backoffs' = backoffs
<1>1. Same => Members
  BY DEF Stays
<1>2. Beat => Members
  <2> SUFFICES ASSUME Beat, NEW u \in DOMAIN mesh', NEW q \in mesh'[u] PROVE Stays(u, q) \/ Enters(u, q)
    OBVIOUS
  <2>1. /\ u \in DOMAIN mesh
        /\ q \in mesh[u] \/ q \in Fresh(u, CleanBackoffs)
    BY UnscoredBeat
  <2>2. <<u, q>> \in DOMAIN backoffs'.backoffs => /\ <<u, q>> \in DOMAIN backoffs.backoffs
                                                  /\ backoffs'.backoffs[<<u, q>>] = backoffs.backoffs[<<u, q>>]
    BY UnscoredBeat
  <2>3. q \in Fresh(u, CleanBackoffs) => <<u, q>> \notin DOMAIN backoffs'.backoffs
    BY UnscoredBeat DEF Fresh, Backoff!is_backoff_with_slack
  <2> QED
    BY <2>1, <2>2, <2>3 DEF Stays, Enters
<1>3. handle_peer_event => Members
  BY PeerEventMembers
<1>4. handle_cancel => Members
  BY LeaveMembers DEF handle_cancel
<1>5. \A p, t, a : handle_received_subscriptions(p, t, a) => Members
  BY SubscriptionMembers
<1>6. \A p, t : \A b \in RemoteBackoffs : handle_prune(p, t, b) => Members
  <2> SUFFICES ASSUME NEW p, NEW t, NEW b \in RemoteBackoffs, handle_prune(p, t, b) PROVE Members
    BY Zenon
  <2> DEFINE time == IF b = NONE THEN config.prune_backoff ELSE b
  <2>1. time \in Nat
    BY InputAssumption, ConfigNumbers
  <2>2. remove_peer_from_mesh(p, t, time, TRUE)
    BY DEF handle_prune
  <2> QED
    BY <2>1, <2>2, RemovalMembers
<1>7. \A p, T : handle_graft(p, T) => Members
  BY GraftMembers
<1>8. \A t : subscribe(t) => Members
  BY SubscribeMembers
<1>9. \A t : unsubscribe(t) => Members
  BY LeaveMembers DEF unsubscribe
<1>10. Quiet => Same
  BY DEF Quiet, meshVars
<1>11. \A p, t, ids : handle_ihave(p, t, ids) => Same
  BY DEF handle_ihave
<1>12. \A p, ids : handle_iwant(p, ids) => Same
  BY DEF handle_iwant, meshVars
<1>13. \A p, m : handle_received_message(p, m) => Same
  BY DEF handle_received_message, meshVars
<1>14. \A p, m, e : handle_invalid_message(p, m, e) => Same
  BY DEF handle_invalid_message, meshVars
<1>15. \A m : publish(m) => Same
  BY DEF publish
<1>16. UNCHANGED vars => Same
  BY DEF vars, meshVars
<1> HIDE DEF Same, Members
<1>17. Next => Members
  BY <1>1, <1>2, <1>3, <1>4, <1>5, <1>6, <1>7, <1>8, <1>9, <1>10, <1>11, <1>12, <1>13, <1>14, <1>15,
     StepCases, Zenon DEF Step
<1> QED
  BY <1>1, <1>16, <1>17 DEF Members

UnscoredInv == TablesInv /\ StorageInv /\ NoMeshInBackoff

LEMMA UnscoredStep ==
    ASSUME ~Scored, UnscoredInv, [Next]_vars
    PROVE  UnscoredInv'
<1>1. TablesInv' /\ StorageInv'
  BY TablesStep, StorageStep DEF UnscoredInv
<1>2. \A u \in DOMAIN mesh' : \A q \in mesh'[u] : Stays(u, q) \/ Enters(u, q)
  BY UnscoredMembers DEF UnscoredInv
<1>3. NoMeshInBackoff'
  BY <1>1, <1>2, BackoffSteps, MembersRespect DEF UnscoredInv
<1> QED
  BY <1>1, <1>3 DEF UnscoredInv

LEMMA UnscoredInit ==
    ASSUME NEW P \in SUBSET Peers, InitWith(P)
    PROVE  UnscoredInv
<1>1. NoMeshInBackoff
  BY DEF InitWith, NoMeshInBackoff
<1> QED
  BY <1>1, TablesInit, StorageInit DEF UnscoredInv

\* Only a heartbeat counts as one.
LEMMA TicksAreBeats ==
    ASSUME [Next]_vars, heartbeat_ticks' # heartbeat_ticks
    PROVE  Beat
<1> DEFINE Same == heartbeat_ticks' = heartbeat_ticks
<1>1. Quiet => Same
  BY DEF Quiet
<1>2. handle_peer_event => Same
  BY DEF handle_peer_event
<1>3. handle_cancel => Same
  BY DEF handle_cancel, leave
<1>4. \A p, t, a : handle_received_subscriptions(p, t, a) => Same
  BY DEF handle_received_subscriptions, Received
<1>5. \A p, t, b : handle_prune(p, t, b) => Same
  BY DEF handle_prune, Received
<1>6. \A p, T : handle_graft(p, T) => Same
  BY Zenon DEF handle_graft, Received
<1>7. \A t : subscribe(t) \/ unsubscribe(t) => Same
  BY DEF subscribe, unsubscribe, leave
<1>8. \A p, t, ids : handle_ihave(p, t, ids) => Same
  BY DEF handle_ihave, Received
<1>9. \A p, ids : handle_iwant(p, ids) => Same
  BY DEF handle_iwant, Received
<1>10. \A p, m : handle_received_message(p, m) => Same
  BY DEF handle_received_message, Received
<1>11. \A p, m, e : handle_invalid_message(p, m, e) => Same
  BY DEF handle_invalid_message, Received
<1>12. \A m : publish(m) => Same
  BY DEF publish
<1>13. UNCHANGED vars => Same
  BY DEF vars
<1> HIDE DEF Same
<1>14. Next => Beat \/ Same
  BY <1>1, <1>2, <1>3, <1>4, <1>5, <1>6, <1>7, <1>8, <1>9, <1>10, <1>11, <1>12, StepCases, Zenon DEF Step
<1> QED
  BY <1>13, <1>14 DEF Same

LEMMA UnscoredRepairs ==
    ASSUME ~Scored, UnscoredInv, [Next]_vars
    PROVE  MeshIsRepaired
<1> SUFFICES ASSUME heartbeat_ticks' # heartbeat_ticks, NEW t \in DOMAIN mesh',
                    ~(Cardinality(mesh'[t]) >= config.mesh_n_low),
                    NEW p \in At(topic_peers, t, {}) \ mesh'[t],
                    IsGossip(p)
             PROVE  <<t, p>> \in DOMAIN backoffs'.backoffs
  BY DEF MeshIsRepaired
<1>1. Beat
  BY TicksAreBeats
<1>2. /\ t \in DOMAIN mesh
      /\ DOMAIN backoffs'.backoffs = DOMAIN CleanBackoffs.backoffs
      /\ \A q \in At(topic_peers, t, {}) \intersect Fresh(t, CleanBackoffs) : IsGossip(q) => q \in mesh'[t]
  BY <1>1, UnscoredBeat DEF UnscoredInv
<1>3. p \in Peers
  BY DEF At, UnscoredInv, TablesInv, TopicInv
<1>4. p \notin Fresh(t, CleanBackoffs)
  BY <1>2
<1> QED
  BY <1>2, <1>3, <1>4 DEF Fresh, Backoff!is_backoff_with_slack

\* In a router without peer scoring (the default) a PRUNE is respected by every way into a mesh,
\* GRAFTs, subscriptions, joins and heartbeats: no peer is a member before its back-off is over.
THEOREM GossipPruneIsRespected ==
    ASSUME NEW P \in SUBSET Peers, ~Scored
    PROVE  SpecWith(P) => []PruneIsRespected
<1>1. InitWith(P) => UnscoredInv
  BY UnscoredInit
<1>2. UnscoredInv /\ [Next]_vars => UnscoredInv'
  BY UnscoredStep
<1>3. UnscoredInv => PruneIsRespected
  BY SoundRingAgrees DEF UnscoredInv, PruneIsRespected
<1> QED
  BY <1>1, <1>2, <1>3, PTL DEF SpecWith

\* In a router without peer scoring, every heartbeat leaves a mesh below mesh_n_low only if no
\* subscribed gossipsub peer could join it, and no step ends a back-off before its time.
THEOREM GossipHeartbeatRepairs ==
    ASSUME NEW P \in SUBSET Peers, ~Scored
    PROVE  SpecWith(P) => HeartbeatRepairs
<1>1. InitWith(P) => UnscoredInv
  BY UnscoredInit
<1>2. UnscoredInv /\ [Next]_vars => UnscoredInv'
  BY UnscoredStep
<1>3. UnscoredInv /\ [Next]_vars => MeshIsRepaired /\ BackoffIsKept
  BY UnscoredRepairs, StorageStep DEF UnscoredInv
<1> QED
  BY <1>1, <1>2, <1>3, PTL DEF SpecWith, HeartbeatRepairs

-----------------------------------------------------------------------------
(* What is advertised can be had *)

\* The history of the message cache: an id is in one slot at most, and what is in a slot is held.
CacheSound(c) ==
    /\ c.history \in Seq(SUBSET Messages) /\ Len(c.history) = config.history_length
    /\ \A i \in 1 .. config.history_length : c.history[i] \subseteq DOMAIN c.msgs
    /\ \A i, j \in 1 .. config.history_length : i # j => c.history[i] \intersect c.history[j] = {}

LEMMA NewCacheSound == CacheSound(MCache!new)
<1>1. /\ MCache!new.history = [i \in 1 .. config.history_length |-> {}]
      /\ MCache!new.msgs = << >>
  BY DEF MCache!new
<1>2. MCache!new.history \in Seq(SUBSET Messages) /\ Len(MCache!new.history) = config.history_length
  BY <1>1, ConfigNumbers
<1> QED
  BY <1>1, <1>2 DEF CacheSound

LEMMA PutSound ==
    ASSUME NEW c, CacheSound(c), NEW id \in Messages, NEW msg
    PROVE  CacheSound(MCache!put(c, id, msg))
<1> DEFINE d == MCache!put(c, id, msg)
           n == config.history_length
<1>1. /\ d.history = IF id \in DOMAIN c.msgs THEN c.history ELSE [c.history EXCEPT ![1] = @ \union {id}]
      /\ DOMAIN d.msgs = DOMAIN c.msgs \union {id}
  BY DEF MCache!put, MCache!Extend
<1>2. n \in Nat \ {0}
  BY ConfigNumbers
<1> HIDE DEF d, n
<1>3. /\ c.history \in Seq(SUBSET Messages) /\ Len(c.history) = n
      /\ \A i \in 1 .. n : c.history[i] \subseteq DOMAIN c.msgs
      /\ \A i, j \in 1 .. n : i # j => c.history[i] \intersect c.history[j] = {}
  BY DEF CacheSound, n
<1>4. CASE id \in DOMAIN c.msgs
  BY <1>1, <1>3, <1>4 DEF CacheSound, n, d
<1>5. CASE id \notin DOMAIN c.msgs
  <2>1. d.history = [c.history EXCEPT ![1] = @ \union {id}]
    BY <1>1, <1>5
  <2>2. d.history \in Seq(SUBSET Messages) /\ Len(d.history) = n
    BY <1>2, <1>3, <2>1
  <2>3. \A i \in 1 .. n : d.history[i] = IF i = 1 THEN c.history[i] \union {id} ELSE c.history[i]
    <3>1. DOMAIN c.history = 1 .. n
      BY <1>3
    <3> QED
      BY <2>1, <3>1
  <2>4. \A i \in 1 .. n : id \notin c.history[i]
    BY <1>3, <1>5
  <2>5. \A i \in 1 .. n : d.history[i] \subseteq DOMAIN d.msgs
    BY <1>1, <1>3, <2>3
  <2>6. \A i, j \in 1 .. n : i # j => d.history[i] \intersect d.history[j] = {}
    <3> SUFFICES ASSUME NEW i \in 1 .. n, NEW j \in 1 .. n, i # j, NEW x \in d.history[i], x \in d.history[j]
                 PROVE  FALSE
      OBVIOUS
    <3>1. (x = id \/ x \in c.history[i]) /\ (x = id \/ x \in c.history[j])
      BY <2>3
    <3>2. x = id => i = 1 /\ j = 1
      BY <2>3, <2>4
    <3> QED
      BY <1>3, <3>1, <3>2
  <2> QED
    BY <2>2, <2>5, <2>6 DEF CacheSound, n, d
<1> QED
  BY <1>4, <1>5

LEMMA ShiftSound ==
    ASSUME NEW c, CacheSound(c)
    PROVE  /\ CacheSound(MCache!shift(c))
           /\ \A id : id \in DOMAIN c.msgs /\ id \notin c.history[config.history_length] =>
                 /\ id \in DOMAIN MCache!shift(c).msgs
                 /\ MCache!shift(c).msgs[id] = c.msgs[id]
<1> DEFINE d == MCache!shift(c)
           n == config.history_length
           h == c.history
<1>1. /\ d.history = <<{}>> \o SubSeq(h, 1, n - 1)
      /\ DOMAIN d.msgs = DOMAIN c.msgs \intersect (DOMAIN c.msgs \ h[n])
      /\ \A id \in DOMAIN d.msgs : d.msgs[id] = c.msgs[id]
  BY DEF MCache!shift, MCache!Restrict
<1>2. n \in Nat \ {0}
  BY ConfigNumbers
<1> HIDE DEF d, n, h
<1>3. /\ h \in Seq(SUBSET Messages) /\ Len(h) = n
      /\ \A i \in 1 .. n : h[i] \subseteq DOMAIN c.msgs
      /\ \A i, j \in 1 .. n : i # j => h[i] \intersect h[j] = {}
  BY DEF CacheSound, n, h
<1>4. SubSeq(h, 1, n - 1) \in Seq(SUBSET Messages) /\ Len(SubSeq(h, 1, n - 1)) = n - 1
      /\ \A i \in 1 .. n - 1 : SubSeq(h, 1, n - 1)[i] = h[i]
  BY <1>2, <1>3
<1>5. <<{}>> \in Seq(SUBSET Messages) /\ Len(<<{}>>) = 1
  OBVIOUS
<1>6. /\ d.history \in Seq(SUBSET Messages) /\ Len(d.history) = n
      /\ \A i \in 1 .. n : d.history[i] = IF i = 1 THEN {} ELSE h[i - 1]
  <2> DEFINE u == <<{}>>
             w == SubSeq(h, 1, n - 1)
  <2>1. u \in Seq(SUBSET Messages) /\ Len(u) = 1 /\ u[1] = {}
    BY <1>5
  <2>2. w \in Seq(SUBSET Messages) /\ Len(w) = n - 1 /\ \A i \in 1 .. n - 1 : w[i] = h[i]
    BY <1>4
  <2>3. d.history = u \o w
    BY <1>1
  <2> HIDE DEF u, w
  <2>4. /\ u \o w \in Seq(SUBSET Messages) /\ Len(u \o w) = Len(u) + Len(w)
        /\ \A i \in 1 .. Len(u) + Len(w) : (u \o w)[i] = IF i <= Len(u) THEN u[i] ELSE w[i - Len(u)]
    BY <2>1, <2>2, ConcatProperties
  <2>5. Len(u) + Len(w) = n
    BY <1>2, <2>1, <2>2
  <2>6. ASSUME NEW i \in 1 .. n PROVE (u \o w)[i] = IF i = 1 THEN {} ELSE h[i - 1]
    <3>1. (u \o w)[i] = IF i <= Len(u) THEN u[i] ELSE w[i - Len(u)]
      BY <2>4, <2>5
    <3>2. CASE i = 1
      BY <2>1, <3>1, <3>2
    <3>3. CASE i # 1
      <4>1. i - 1 \in 1 .. n - 1 /\ ~(i <= 1)
        BY <1>2, <3>3
      <4> QED
        BY <2>1, <2>2, <3>1, <3>3, <4>1
    <3> QED
      BY <3>2, <3>3
  <2> QED
    BY <2>3, <2>4, <2>5, <2>6
<1>7. \A i \in 1 .. n : d.history[i] \subseteq DOMAIN d.msgs
  <2> SUFFICES ASSUME NEW i \in 1 .. n, i # 1 PROVE h[i - 1] \subseteq DOMAIN d.msgs
    BY <1>6
  <2>1. i - 1 \in 1 .. n /\ i - 1 # n /\ n \in 1 .. n
    BY <1>2
  <2> QED
    BY <1>1, <1>3, <2>1
<1>8. \A i, j \in 1 .. n : i # j => d.history[i] \intersect d.history[j] = {}
  <2> SUFFICES ASSUME NEW i \in 1 .. n, NEW j \in 1 .. n, i # j, i # 1, j # 1
               PROVE  h[i - 1] \intersect h[j - 1] = {}
    BY <1>6
  <2>1. i - 1 \in 1 .. n /\ j - 1 \in 1 .. n /\ i - 1 # j - 1
    BY <1>2
  <2> QED
    BY <1>3, <2>1
<1>9. CacheSound(d)
  BY <1>6, <1>7, <1>8 DEF CacheSound, n
<1>10. \A id : id \in DOMAIN c.msgs /\ id \notin h[n] => id \in DOMAIN d.msgs /\ d.msgs[id] = c.msgs[id]
  BY <1>1
<1> QED
  BY <1>9, <1>10 DEF d, n, h

LEMMA CountedSound ==
    ASSUME NEW c, CacheSound(c), NEW ids, NEW p
    PROVE  CacheSound(MCache!get_with_iwant_counts(c, ids, p))
<1> DEFINE d == MCache!get_with_iwant_counts(c, ids, p)
<1>1. d.msgs = c.msgs /\ d.history = c.history
  BY DEF MCache!get_with_iwant_counts
<1> QED
  BY <1>1 DEF CacheSound

\* What waits for the next heartbeat is no IHAVE.
PoolInv ==
    \A p \in DOMAIN control_pool : \A i \in control_pool[p] :
        "kind" \in DOMAIN i /\ i.kind \in {"iwant", "graft", "prune"}
HeldInv == CacheSound(mcache) /\ PoolInv

LEMMA PoolAdd ==
    ASSUME PoolInv, NEW P, NEW item, "kind" \in DOMAIN item, item.kind \in {"iwant", "graft", "prune"},
           control_pool' = control_pool_add(control_pool, P, item)
    PROVE  PoolInv'
<1> SUFFICES ASSUME NEW p \in DOMAIN control_pool', NEW i \in control_pool'[p]
             PROVE  "kind" \in DOMAIN i /\ i.kind \in {"iwant", "graft", "prune"}
  BY DEF PoolInv
<1>1. i = item \/ (p \in DOMAIN control_pool /\ i \in control_pool[p])
  BY DEF control_pool_add, At
<1> QED
  BY <1>1 DEF PoolInv

\* The message cache after a step.
CacheMoves ==
    \/ mcache' = mcache
    \/ \E id \in Messages : \E msg : mcache' = MCache!put(mcache, id, msg)
    \/ mcache' = MCache!shift(mcache)
    \/ \E ids, p : mcache' = MCache!get_with_iwant_counts(mcache, ids, p)

LEMMA CacheMovesSound == CacheSound(mcache) /\ CacheMoves => CacheSound(mcache')
<1> SUFFICES ASSUME CacheSound(mcache), CacheMoves PROVE CacheSound(mcache')
  OBVIOUS
<1>1. CASE mcache' = mcache
  BY <1>1
<1>2. CASE \E id \in Messages : \E msg : mcache' = MCache!put(mcache, id, msg)
  BY <1>2, PutSound
<1>3. CASE mcache' = MCache!shift(mcache)
  BY <1>3, ShiftSound
<1>4. CASE \E ids, p : mcache' = MCache!get_with_iwant_counts(mcache, ids, p)
  BY <1>4, CountedSound
<1> QED
  BY <1>1, <1>2, <1>3, <1>4 DEF CacheMoves

\* No handler but the heartbeat sends an IHAVE.
Silent == \A i \in out' : i.kind # "ihave"

LEMMA SentSilent ==
    ASSUME NEW S, out' = Sent(S), \A i \in S : i.kind # "ihave"
    PROVE  Silent
  BY DEF Sent, Silent

LEMMA LeaveHeld ==
    ASSUME HeldInv, NEW t, leave(t)
    PROVE  PoolInv' /\ CacheMoves /\ Silent
<1>1. CacheMoves
  BY DEF leave, cacheVars, CacheMoves
<1>2. PoolInv'
  <2> DEFINE item == [kind |-> "prune", topic |-> t]
  <2>1. control_pool' = control_pool_add(control_pool, At(mesh, t, {}), item)
    BY DEF leave
  <2>2. "kind" \in DOMAIN item /\ item.kind = "prune"
    OBVIOUS
  <2> HIDE DEF item
  <2> QED
    BY <2>1, <2>2, PoolAdd DEF HeldInv
<1>3. Silent
  BY DEF leave, Announce, Sent, Silent
<1> QED
  BY <1>1, <1>2, <1>3

LEMMA IHaveHeld ==
    ASSUME HeldInv, NEW p, NEW t, NEW ids, handle_ihave(p, t, ids)
    PROVE  PoolInv' /\ CacheMoves /\ Silent
<1>1. CacheMoves /\ Silent
  BY DEF handle_ihave, cacheVars, CacheMoves, Silent
<1>2. control_pool' = control_pool
      \/ \E ask : control_pool' = control_pool_add(control_pool, {p}, [kind |-> "iwant", ids |-> ask])
  BY DEF handle_ihave
<1>3. PoolInv'
  <2>1. CASE control_pool' = control_pool
    BY <2>1 DEF HeldInv, PoolInv
  <2>2. ASSUME NEW ask, control_pool' = control_pool_add(control_pool, {p}, [kind |-> "iwant", ids |-> ask])
        PROVE  PoolInv'
    <3> DEFINE item == [kind |-> "iwant", ids |-> ask]
    <3>1. "kind" \in DOMAIN item /\ item.kind = "iwant"
      OBVIOUS
    <3>2. control_pool' = control_pool_add(control_pool, {p}, item)
      BY <2>2
    <3> HIDE DEF item
    <3> QED
      BY <3>1, <3>2, PoolAdd DEF HeldInv
  <2> QED
    BY <1>2, <2>1, <2>2
<1> QED
  BY <1>1, <1>3

LEMMA SubscribeHeld ==
    ASSUME HeldInv, NEW t, subscribe(t)
    PROVE  PoolInv' /\ CacheMoves /\ Silent
<1>1. CacheMoves
  BY DEF subscribe, cacheVars, CacheMoves
<1>2. Silent
  BY DEF subscribe, Announce, Sent, Silent
<1>3. \E N : control_pool' = control_pool_add(control_pool, N, [kind |-> "graft", topic |-> t])
  BY Zenon DEF subscribe, join
<1>4. PoolInv'
  <2> DEFINE item == [kind |-> "graft", topic |-> t]
  <2>1. "kind" \in DOMAIN item /\ item.kind = "graft"
    OBVIOUS
  <2>2. \E N : control_pool' = control_pool_add(control_pool, N, item)
    BY <1>3
  <2> HIDE DEF item
  <2> QED
    BY <2>1, <2>2, PoolAdd DEF HeldInv
<1> QED
  BY <1>1, <1>2, <1>4

LEMMA PublishHeld ==
    ASSUME HeldInv, NEW m \in Messages, publish(m)
    PROVE  PoolInv' /\ CacheMoves /\ Silent
<1>1. control_pool' = control_pool
  BY DEF publish
<1>2. CacheMoves
  <2>1. mcache' = mcache \/ mcache' = MCache!put(mcache, m, [topic |-> TopicOf[m], validated |-> TRUE])
    BY Zenon DEF publish
  <2> QED
    BY <2>1, Zenon DEF CacheMoves
<1>3. Silent
  <2>1. PICK to : \E c : out' = (IF c THEN Forwarded(m, NONE) ELSE {})
                       \union Sent({[to |-> p, kind |-> "message", id |-> m, via |-> "publish"] : p \in to})
    BY Zenon DEF publish
  <2> QED
    BY <2>1 DEF Forwarded, Sent, Silent
<1> QED
  BY <1>1, <1>2, <1>3 DEF HeldInv, PoolInv

LEMMA MessageHeld ==
    ASSUME HeldInv, NEW p, NEW m \in Messages, handle_received_message(p, m)
    PROVE  PoolInv' /\ CacheMoves /\ Silent
<1>1. control_pool' = control_pool
  BY DEF handle_received_message, meshVars
<1>2. CASE KnownFast(p, m) \/ Refused(p, m)
  BY <1>1, <1>2 DEF KnownFast, Refused, cacheVars, CacheMoves, Silent, HeldInv, PoolInv
<1>3. CASE Repeated(p, m)
  BY <1>1, <1>3 DEF Repeated, CacheMoves, Silent, HeldInv, PoolInv
<1>4. CASE Delivered(p, m)
  <2>1. CacheMoves
    <3>1. \E msg : mcache' = MCache!put(mcache, m, msg)
      BY <1>4, Zenon DEF Delivered
    <3> QED
      BY <3>1, Zenon DEF CacheMoves
  <2>2. PICK c1, c2 : out' = notify_subs(m)
                  \union (IF c1
                          THEN Sent({[to |-> q, kind |-> "message", id |-> m, via |-> "dispatch"] : q \in mesh[TopicOf[m]]})
                          ELSE {})
                  \union (IF c2 THEN Forwarded(m, p) ELSE {})
    BY <1>4, Zenon DEF Delivered
  <2>3. Silent
    <3>1. \A i \in notify_subs(m) : i.kind = "message"
      BY DEF notify_subs
    <3>2. \A i \in Forwarded(m, p) : i.kind = "message"
      BY DEF Forwarded, Sent
    <3>3. \A i \in Sent({[to |-> q, kind |-> "message", id |-> m, via |-> "dispatch"] : q \in mesh[TopicOf[m]]}) :
             i.kind = "message"
      BY DEF Sent
    <3> DEFINE D == Sent({[to |-> q, kind |-> "message", id |-> m, via |-> "dispatch"] : q \in mesh[TopicOf[m]]})
    <3> HIDE DEF D
    <3>4. \A i \in out' : i \in notify_subs(m) \/ i \in D \/ i \in Forwarded(m, p)
      BY <2>2 DEF D
    <3> QED
      BY <3>1, <3>2, <3>3, <3>4 DEF Silent, D
  <2> QED
    BY <1>1, <2>1, <2>3 DEF HeldInv, PoolInv
<1> QED
  BY <1>2, <1>3, <1>4, Zenon DEF handle_received_message

\* The items that waited for the heartbeat keep their kind.
LEMMA FlushedSilent ==
    ASSUME PoolInv
    PROVE  \A i \in flush_control_pool : i.kind # "ihave"
<1> SUFFICES ASSUME NEW p \in DOMAIN control_pool, NEW i \in control_pool[p]
             PROVE  Put(i, "to", p).kind # "ihave"
  BY DEF flush_control_pool
<1>1. "kind" \in DOMAIN i /\ i.kind \in {"iwant", "graft", "prune"}
  BY DEF PoolInv
<1>2. Put(i, "to", p).kind = i.kind
  BY <1>1 DEF Put
<1> QED
  BY <1>1, <1>2

\* What emit_gossip() advertises for a topic comes from the slots that are gossiped.
LEMMA GossipIsCached ==
    ASSUME NEW t, NEW members, NEW s, NEW F \in EmitGossip(t, members, s), NEW p \in DOMAIN F
    PROVE  F[p] \subseteq MCache!get_gossip_message_ids(mcache, t)
<1>1. PICK N : F \in [N -> Picks(MCache!get_gossip_message_ids(mcache, t), config.max_ihave_length)]
  BY Zenon DEF EmitGossip
<1>2. F[p] \in Picks(MCache!get_gossip_message_ids(mcache, t), config.max_ihave_length)
  BY <1>1
<1> QED
  BY <1>2 DEF Picks

LEMMA HeartbeatHeld ==
    ASSUME HeldInv, Beat, config.history_gossip < config.history_length
    PROVE  /\ PoolInv' /\ CacheMoves
           /\ \A i \in out' : i.kind = "ihave" => \A id \in i.ids : MCache!Gettable(mcache', id)
<1> DEFINE Emits(ihave, G) ==
              /\ DOMAIN ihave = G
              /\ \A t \in G : \E members : ihave[t] \in EmitGossip(t, members, apply_iwant_penalties)
           Adverts(ihave, G) == UNION {{[to |-> p, kind |-> "ihave", ids |-> ihave[t][p]] :
                                             p \in DOMAIN ihave[t]} : t \in G}
<1>0. PICK m \in PickEach(MeshChoices) : \E f, G :
        \E ihave \in PickEach([t \in G |-> EmitGossip(t, IF t \in DOMAIN m THEN m[t].peers ELSE f[t],
                                                      apply_iwant_penalties)]) :
           /\ out' = Sent(send_graft_prune(apply_iwant_penalties, CleanBackoffs,
                              UNION {{<<t, p>> : p \in m[t].graft} : t \in DOMAIN mesh},
                              UNION {{<<t, p>> : p \in m[t].prune} : t \in DOMAIN mesh}).items
                          \union flush_control_pool
                          \union UNION {{[to |-> p, kind |-> "ihave", ids |-> ihave[t][p]] :
                                             p \in DOMAIN ihave[t]} : t \in G})
           /\ control_pool' = << >>
           /\ mcache' = MCache!shift(mcache)
  BY Zenon DEF Beat, heartbeat, MeshChoices, CleanBackoffs, BeatScores
<1>1. PICK f, G, ihave :
        /\ ihave \in PickEach([t \in G |-> EmitGossip(t, IF t \in DOMAIN m THEN m[t].peers ELSE f[t],
                                                       apply_iwant_penalties)])
        /\ \E grafts, prunes :
             out' = Sent(send_graft_prune(apply_iwant_penalties, CleanBackoffs, grafts, prunes).items
                         \union flush_control_pool \union Adverts(ihave, G))
        /\ control_pool' = << >>
        /\ mcache' = MCache!shift(mcache)
  BY <1>0, Zenon
<1>2. Emits(ihave, G)
  BY <1>1 DEF PickEach
<1>3. PICK grafts, prunes :
        out' = Sent(send_graft_prune(apply_iwant_penalties, CleanBackoffs, grafts, prunes).items
                    \union flush_control_pool \union Adverts(ihave, G))
  BY <1>1, Zenon
<1>4. \A i \in send_graft_prune(apply_iwant_penalties, CleanBackoffs, grafts, prunes).items : i.kind # "ihave"
  BY DEF send_graft_prune
<1>5. ASSUME NEW i \in out', i.kind = "ihave", NEW id \in i.ids PROVE MCache!Gettable(mcache', id)
  <2> DEFINE n == config.history_length
  <2>1. i \in Adverts(ihave, G)
    <3> HIDE DEF Adverts
    <3> QED
      BY <1>3, <1>4, <1>5, FlushedSilent DEF Sent, HeldInv
  <2>2a. PICK t \in G : \E p \in DOMAIN ihave[t] : i = [to |-> p, kind |-> "ihave", ids |-> ihave[t][p]]
    BY <2>1
  <2>2. PICK p \in DOMAIN ihave[t] : i = [to |-> p, kind |-> "ihave", ids |-> ihave[t][p]]
    BY <2>2a
  <2>3. id \in ihave[t][p]
    BY <1>5, <2>2
  <2>4. id \in MCache!get_gossip_message_ids(mcache, t)
    BY <1>2, <2>3, GossipIsCached
  <2>5. PICK k \in 1 .. config.history_gossip : id \in mcache.history[k]
    BY <2>4 DEF MCache!get_gossip_message_ids
  <2>6. id \in DOMAIN mcache.msgs /\ mcache.msgs[id].validated
    BY <2>4 DEF MCache!get_gossip_message_ids
  <2>7. k \in 1 .. n /\ n \in 1 .. n /\ k # n
    BY ConfigNumbers
  <2>8. id \notin mcache.history[n]
    BY <2>5, <2>7 DEF HeldInv, CacheSound
  <2>9. id \in DOMAIN mcache'.msgs /\ mcache'.msgs[id] = mcache.msgs[id]
    BY <1>1, <2>6, <2>8, ShiftSound DEF HeldInv
  <2> QED
    BY <2>6, <2>9 DEF MCache!Gettable
<1>6. PoolInv'
  BY <1>1 DEF PoolInv
<1>7. CacheMoves
  BY <1>1 DEF CacheMoves
<1> QED
  BY <1>5, <1>6, <1>7

LEMMA HeldStep ==
    ASSUME HeldInv, [Next]_vars, config.history_gossip < config.history_length
    PROVE  /\ HeldInv'
           /\ Next => \A i \in out' : i.kind = "ihave" => \A id \in i.ids : MCache!Gettable(mcache', id)
<1> DEFINE Held == \A i \in out' : i.kind = "ihave" => \A id \in i.ids : MCache!Gettable(mcache', id)
           Fine == PoolInv' /\ CacheMoves /\ Held
<1>1. Silent => Held
  BY DEF Silent
<1>2. control_pool' = control_pool => PoolInv'
  BY DEF HeldInv, PoolInv
<1>3. mcache' = mcache => CacheMoves
  BY DEF CacheMoves
<1>4. Quiet => Fine
  <2>1. Quiet => mcache' = mcache /\ control_pool' = control_pool /\ Silent
    BY DEF Quiet, meshVars, cacheVars, Silent
  <2> QED
    BY <1>1, <1>2, <1>3, <2>1
<1>5. handle_peer_event => Fine
  <2> SUFFICES ASSUME handle_peer_event PROVE Fine
    OBVIOUS
  <2>1. mcache' = mcache /\ control_pool' = control_pool
    BY DEF handle_peer_event, cacheVars
  <2>2. out' = {} \/ handle_new_peer(Head(rx).peer)
    BY Zenon DEF handle_peer_event
  <2>3. Silent
    BY <2>2 DEF handle_new_peer, Silent
  <2> QED
    BY <1>1, <1>2, <1>3, <2>1, <2>3
<1>6. Beat => Fine
  BY HeartbeatHeld
<1>7. handle_cancel => Fine
  BY <1>1, LeaveHeld DEF handle_cancel
<1>8. \A t : unsubscribe(t) => Fine
  BY <1>1, LeaveHeld DEF unsubscribe
<1>9. \A p, t, a : handle_received_subscriptions(p, t, a) => Fine
  <2> SUFFICES ASSUME NEW p, NEW t, NEW a, handle_received_subscriptions(p, t, a) PROVE Fine
    BY Zenon
  <2>1. mcache' = mcache /\ control_pool' = control_pool
    BY DEF handle_received_subscriptions, cacheVars
  <2>2. out' = {} \/ out' = Sent({[to |-> p, kind |-> "graft", topic |-> t]})
    BY DEF handle_received_subscriptions
  <2>3. Silent
    BY <2>2 DEF Sent, Silent
  <2> QED
    BY <1>1, <1>2, <1>3, <2>1, <2>3
<1>10. \A p, t, b : handle_prune(p, t, b) => Fine
  <2>1. \A p, t, b : handle_prune(p, t, b) => mcache' = mcache /\ control_pool' = control_pool /\ Silent
    BY DEF handle_prune, cacheVars, Silent
  <2> QED
    BY <1>1, <1>2, <1>3, <2>1
<1>11. \A p, T : handle_graft(p, T) => Fine
  <2> SUFFICES ASSUME NEW p, NEW T, handle_graft(p, T) PROVE Fine
    BY Zenon
  <2>1. mcache' = mcache /\ control_pool' = control_pool
    BY DEF handle_graft, cacheVars
  <2>2. \E R : out' = Sent({[to |-> p, kind |-> "prune", topic |-> t] : t \in R})
    BY Zenon DEF handle_graft
  <2>3. Silent
    BY <2>2 DEF Sent, Silent
  <2> QED
    BY <1>1, <1>2, <1>3, <2>1, <2>3
<1>12. \A p, t, ids : handle_ihave(p, t, ids) => Fine
  BY <1>1, IHaveHeld
<1>13. \A p, ids : handle_iwant(p, ids) => Fine
  <2> SUFFICES ASSUME NEW p, NEW ids, handle_iwant(p, ids) PROVE Fine
    BY Zenon
  <2>1. mcache' = mcache \/ mcache' = MCache!get_with_iwant_counts(mcache, ids, p)
    BY Zenon DEF handle_iwant
  <2>2. control_pool' = control_pool
    BY DEF handle_iwant, meshVars
  <2>3. out' = {} \/ \E R : out' = Sent({[to |-> p, kind |-> "message", id |-> m, via |-> "iwant"] : m \in R})
    BY Zenon DEF handle_iwant
  <2>4. Silent
    BY <2>3 DEF Sent, Silent
  <2>5. CacheMoves
    BY <2>1, Zenon DEF CacheMoves
  <2> QED
    BY <1>1, <1>2, <2>2, <2>4, <2>5
<1>14. \A p, m, e : handle_invalid_message(p, m, e) => Fine
  <2>1. \A p, m, e : handle_invalid_message(p, m, e) => mcache' = mcache /\ control_pool' = control_pool /\ Silent
    BY DEF handle_invalid_message, meshVars, cacheVars, Silent
  <2> QED
    BY <1>1, <1>2, <1>3, <2>1
<1>15. \A t : subscribe(t) => Fine
  BY <1>1, SubscribeHeld
<1>16. \A m \in Messages : publish(m) => Fine
  BY <1>1, PublishHeld
<1>17. \A p : \A m \in Known : handle_received_message(p, m) => Fine
  <2>1. Known \subseteq Messages
    BY DEF Known
  <2> QED
    BY <1>1, <2>1, MessageHeld
<1>18. UNCHANGED vars => HeldInv'
  BY DEF vars, meshVars, cacheVars, HeldInv, PoolInv
<1>19. PoolInv' /\ CacheMoves => HeldInv'
  BY CacheMovesSound DEF HeldInv
<1> HIDE DEF Fine
<1>20. Next => Fine
  BY <1>4, <1>5, <1>6, <1>7, <1>8, <1>9, <1>10, <1>11, <1>12, <1>13, <1>14, <1>15, <1>16, <1>17,
     StepCases, Zenon DEF Step
<1> QED
  BY <1>18, <1>19, <1>20 DEF Fine

\* As long as fewer heartbeats are gossiped than are kept (build() also lets them be equal), the
\* messages that a heartbeat advertises survive the shift of the message cache in the same
\* heartbeat, so that an IWANT for them can be answered.
THEOREM GossipAdvertisedIsHeld ==
    ASSUME NEW P \in SUBSET Peers, config.history_gossip < config.history_length
    PROVE  SpecWith(P) => AdvertisedIsHeld
<1> DEFINE Held == \A i \in out' : i.kind = "ihave" => \A m \in i.ids : MCache!Gettable(mcache', m)
<1>1. InitWith(P) => HeldInv
  <2>1. InitWith(P) => CacheSound(mcache)
    BY NewCacheSound DEF InitWith
  <2>2. InitWith(P) => PoolInv
    BY DEF InitWith, PoolInv
  <2> QED
    BY <2>1, <2>2 DEF HeldInv
<1>2. HeldInv /\ [Next]_vars => HeldInv'
  BY HeldStep
<1>3. HeldInv /\ [Next]_vars => [Held]_vars
  BY HeldStep
<1> QED
  BY <1>1, <1>2, <1>3, PTL DEF SpecWith, AdvertisedIsHeld

-----------------------------------------------------------------------------
(* Promises *)

\* A promise is about a message that a remote could announce, none of ours before it is out.
PromiseInv ==
    /\ now \in Nat
    /\ \A k \in DOMAIN duplicate_cache : duplicate_cache[k].expires \in Int
    /\ \A q \in DOMAIN promises : SourceOf[q[1]] = Self => q[1] \in published
    /\ ~Scored => DOMAIN promises = {}
    /\ PromiseMeansMissing

\* insert() keeps what has not expired and adds the key.
LEMMA InsertForm ==
    ASSUME NEW c, NEW k, NEW ttl, NEW time
    PROVE  LET d == Cache!insert(c, k, ttl, time)
           IN  \A j \in DOMAIN d :
                  \/ j \in DOMAIN c /\ c[j].expires > time /\ d[j] = c[j]
                  \/ j = k /\ Cache!is_new(c, k, time) /\ d[j].expires = time + ttl
<1> DEFINE live == Cache!remove_expired_keys(c, time)
           d == Cache!insert(c, k, ttl, time)
<1>1. /\ \A j : j \in DOMAIN live <=> j \in DOMAIN c /\ c[j].expires > time
      /\ \A j \in DOMAIN live : live[j] = c[j]
  BY DEF Cache!remove_expired_keys, Cache!Restrict
<1>2. d = IF k \in DOMAIN live THEN live
          ELSE [j \in DOMAIN live \union {k} |->
                   IF j = k THEN [element |-> TRUE, expires |-> time + ttl] ELSE live[j]]
  BY DEF Cache!insert, Cache!or_insert_with
<1>3. Cache!is_new(c, k, time) <=> k \notin DOMAIN live
  BY DEF Cache!is_new
<1> HIDE DEF live, d
<1>4. ASSUME NEW j \in DOMAIN d
      PROVE  \/ j \in DOMAIN c /\ c[j].expires > time /\ d[j] = c[j]
             \/ j = k /\ Cache!is_new(c, k, time) /\ d[j].expires = time + ttl
  <2>1. CASE k \in DOMAIN live
    BY <1>1, <1>2, <2>1
  <2>2. CASE k \notin DOMAIN live
    BY <1>1, <1>2, <1>3, <2>2
  <2> QED
    BY <2>1, <2>2
<1> QED
  BY <1>4 DEF d

\* The promises get fewer, and the duplicate cache forgets.
LEMMA PromisesFade ==
    ASSUME PromiseInv, now' \in {now, now + 1}, DOMAIN promises' \subseteq DOMAIN promises,
           published \subseteq published',
           \A k \in DOMAIN duplicate_cache' : k \in DOMAIN duplicate_cache /\ duplicate_cache'[k] = duplicate_cache[k]
    PROVE  PromiseInv'
<1>1. now' \in Nat /\ now <= now'
  BY DEF PromiseInv
<1>2. \A k \in DOMAIN duplicate_cache' : duplicate_cache'[k].expires \in Int
  BY DEF PromiseInv
<1>3. \A q \in DOMAIN promises' : SourceOf[q[1]] = Self => q[1] \in published'
  BY DEF PromiseInv
<1>4. ~Scored => DOMAIN promises' = {}
  BY DEF PromiseInv
<1>5. PromiseMeansMissing'
  <2> SUFFICES ASSUME NEW q \in DOMAIN promises', q[1] \in DOMAIN duplicate_cache'
               PROVE  duplicate_cache'[q[1]].expires <= now'
    BY DEF PromiseMeansMissing
  <2>1. duplicate_cache[q[1]].expires <= now /\ duplicate_cache'[q[1]] = duplicate_cache[q[1]]
    BY DEF PromiseInv, PromiseMeansMissing
  <2> QED
    BY <1>1, <1>2, <2>1 DEF PromiseInv
<1> QED
  BY <1>1, <1>2, <1>3, <1>4, <1>5 DEF PromiseInv

\* A message arrives or is published: a promise for it is settled, or there was none.
LEMMA PromiseSettled ==
    ASSUME PromiseInv, now' = now, NEW m, published \subseteq published',
           DOMAIN promises' \subseteq DOMAIN promises,
           Cache!is_new(duplicate_cache, m, now) => \A q \in DOMAIN promises' : q[1] # m,
           duplicate_cache' = Cache!insert(duplicate_cache, m, config.duplicate_cache_time, now)
    PROVE  PromiseInv'
<1>1. \A j \in DOMAIN duplicate_cache' :
         \/ /\ j \in DOMAIN duplicate_cache /\ duplicate_cache[j].expires > now
            /\ duplicate_cache'[j] = duplicate_cache[j]
         \/ /\ j = m /\ Cache!is_new(duplicate_cache, m, now)
            /\ duplicate_cache'[j].expires = now + config.duplicate_cache_time
  BY InsertForm
<1>2. now \in Nat /\ \A k \in DOMAIN duplicate_cache : duplicate_cache[k].expires \in Int
  BY DEF PromiseInv
<1>3. \A k \in DOMAIN duplicate_cache' : duplicate_cache'[k].expires \in Int
  BY <1>1, <1>2, ConfigNumbers
<1>4. \A q \in DOMAIN promises' : q[1] \notin DOMAIN duplicate_cache'
  <2> SUFFICES ASSUME NEW q \in DOMAIN promises', q[1] \in DOMAIN duplicate_cache' PROVE FALSE
    OBVIOUS
  <2>1. q[1] \in DOMAIN duplicate_cache /\ duplicate_cache[q[1]].expires > now
    BY <1>1
  <2>2. duplicate_cache[q[1]].expires <= now
    BY <2>1 DEF PromiseInv, PromiseMeansMissing
  <2> QED
    BY <1>2, <2>1, <2>2
<1>5. /\ \A q \in DOMAIN promises' : SourceOf[q[1]] = Self => q[1] \in published'
      /\ ~Scored => DOMAIN promises' = {}
  BY DEF PromiseInv
<1>6. PromiseMeansMissing'
  BY <1>4 DEF PromiseMeansMissing
<1> QED
  BY <1>2, <1>3, <1>5, <1>6 DEF PromiseInv

LEMMA IHavePromises ==
    ASSUME PromiseInv, NEW p, NEW t, NEW ids \in SUBSET Known, handle_ihave(p, t, ids)
    PROVE  PromiseInv'
<1>1. UNCHANGED <<duplicate_cache, published, now>>
  BY DEF handle_ihave, cacheVars, Received
<1> DEFINE wants == {m \in ids : t \in DOMAIN mesh /\ ~Cache!contains_key(duplicate_cache, m)}
<1>2. \/ promises' = promises
      \/ \E n : \E ask \in Picks(wants, n) : \E tracked \in ask : \E e :
            promises' = IfScored(Score!add_promise(promises, p, tracked, e), promises)
  BY Zenon DEF handle_ihave
<1>3. CASE promises' = promises
  BY <1>1, <1>3, PromisesFade DEF PromiseInv
<1>4. ASSUME NEW n, NEW ask \in Picks(wants, n), NEW tracked \in ask, NEW e,
             promises' = IfScored(Score!add_promise(promises, p, tracked, e), promises)
      PROVE  PromiseInv'
  <2>1. tracked \in wants
    <3> HIDE DEF wants
    <3> QED
      BY DEF Picks
  <2>2. /\ tracked \notin DOMAIN duplicate_cache
        /\ SourceOf[tracked] = Self => tracked \in published
    BY <2>1 DEF Cache!contains_key, Known
  <2> HIDE DEF wants
  <2>3. DOMAIN promises' = DOMAIN promises \/ (Scored /\ DOMAIN promises' = DOMAIN promises \union {<<tracked, p>>})
    BY <1>4 DEF IfScored, Score!add_promise
  <2>4. CASE DOMAIN promises' = DOMAIN promises
    BY <1>1, <2>4, PromisesFade DEF PromiseInv
  <2>5. CASE Scored /\ DOMAIN promises' = DOMAIN promises \union {<<tracked, p>>}
    BY <1>1, <2>2, <2>5 DEF PromiseInv, PromiseMeansMissing
  <2> QED
    BY <2>3, <2>4, <2>5
<1> QED
  BY <1>2, <1>3, <1>4

\* A rejection settles promises, or leaves them alone.
LEMMA RejectedFade ==
    ASSUME NEW s, NEW p, NEW m, NEW reason
    PROVE  DOMAIN Rejected(s, promises, p, m, reason).promises \subseteq DOMAIN promises
<1>1. \A g, r : DOMAIN Score!promise_rejected(g, m, r) \subseteq DOMAIN g
  BY DEF Score!promise_rejected, Score!message_delivered, Score!Restrict
<1> QED
  BY <1>1 DEF Rejected

LEMMA MessagePromises ==
    ASSUME PromiseInv, NEW p, NEW m, handle_received_message(p, m)
    PROVE  PromiseInv'
<1>1. UNCHANGED <<published, now>>
  BY DEF handle_received_message, Received
<1>2. CASE KnownFast(p, m) \/ Refused(p, m)
  <2>1. \E s : promises' = Rejected(s, promises, p, m, RejectReason(p, m)).promises
    BY <1>2, Zenon DEF KnownFast, Refused
  <2>2. DOMAIN promises' \subseteq DOMAIN promises
    BY <2>1, RejectedFade
  <2>3. duplicate_cache' = duplicate_cache
    BY <1>2 DEF KnownFast, Refused, cacheVars
  <2> QED
    BY <1>1, <2>2, <2>3, PromisesFade
<1>3. CASE ~Cache!is_new(duplicate_cache, m, now) /\ Repeated(p, m)
  <2>1. promises' = promises /\ duplicate_cache' = Cache!insert(duplicate_cache, m, config.duplicate_cache_time, now)
    BY <1>3 DEF Repeated, Remember
  <2> QED
    BY <1>1, <1>3, <2>1, PromiseSettled
<1>4. CASE Delivered(p, m)
  <2>1. /\ promises' = IfScored(Score!message_delivered(promises, m), promises)
        /\ duplicate_cache' = Cache!insert(duplicate_cache, m, config.duplicate_cache_time, now)
    BY <1>4, Zenon DEF Delivered, Remember
  <2>2. DOMAIN promises' \subseteq DOMAIN promises /\ \A q \in DOMAIN promises' : q[1] # m
    BY <2>1 DEF IfScored, Score!message_delivered, Score!Restrict, PromiseInv
  <2> QED
    BY <1>1, <2>1, <2>2, PromiseSettled
<1> QED
  BY <1>2, <1>3, <1>4, Zenon DEF handle_received_message

LEMMA PublishPromises ==
    ASSUME PromiseInv, NEW m, publish(m)
    PROVE  PromiseInv'
<1>1. now' = now /\ promises' = promises /\ SourceOf[m] = Self /\ m \notin published
  BY DEF publish, envVars, scoreVars
<1>2. \/ UNCHANGED <<duplicate_cache, published>>
      \/ /\ published' = published \union {m}
         /\ duplicate_cache' = Cache!insert(duplicate_cache, m, config.duplicate_cache_time, now)
  BY Zenon DEF publish
<1>3. CASE UNCHANGED <<duplicate_cache, published>>
  BY <1>1, <1>3, PromisesFade
<1>4. CASE /\ published' = published \union {m}
           /\ duplicate_cache' = Cache!insert(duplicate_cache, m, config.duplicate_cache_time, now)
  <2>1. \A q \in DOMAIN promises' : q[1] # m
    BY <1>1 DEF PromiseInv
  <2> QED
    BY <1>1, <1>4, <2>1, PromiseSettled
<1> QED
  BY <1>2, <1>3, <1>4

LEMMA PromiseStep ==
    ASSUME PromiseInv, [Next]_vars
    PROVE  PromiseInv'
<1> DEFINE Same == UNCHANGED <<duplicate_cache, promises, published>>
<1>1. Same => PromiseInv'
  BY PromisesFade, BackoffSteps
<1>2. Quiet => Same
  BY DEF Quiet, cacheVars, scoreVars
<1>3. handle_peer_event => Same
  BY DEF handle_peer_event, cacheVars
<1>4. handle_cancel => Same
  BY DEF handle_cancel, leave, cacheVars
<1>5. \A t : unsubscribe(t) => Same
  BY DEF unsubscribe, leave, cacheVars
<1>6. \A p, t, a : handle_received_subscriptions(p, t, a) => Same
  BY DEF handle_received_subscriptions, cacheVars, Received
<1>7. \A p, t, b : handle_prune(p, t, b) => Same
  BY DEF handle_prune, cacheVars, Received
<1>8. \A p, T : handle_graft(p, T) => Same
  BY Zenon DEF handle_graft, cacheVars, Received
<1>9. \A p, ids : handle_iwant(p, ids) => Same
  BY DEF handle_iwant, scoreVars, Received
<1>10. \A t : subscribe(t) => Same
  BY DEF subscribe, cacheVars
<1>11. UNCHANGED vars => Same
  BY DEF vars, cacheVars, scoreVars
<1>12. Beat => PromiseInv'
  <2> SUFFICES ASSUME Beat PROVE PromiseInv'
    OBVIOUS
  <2>1. promises' = IfScored(Score!keep_promises(promises, now), promises) /\ UNCHANGED <<duplicate_cache, published, now>>
    BY Zenon DEF Beat, heartbeat
  <2>2. DOMAIN promises' \subseteq DOMAIN promises
    BY <2>1 DEF IfScored, Score!keep_promises, Score!Restrict
  <2> QED
    BY <2>1, <2>2, PromisesFade
<1>13. \A p, m, e : handle_invalid_message(p, m, e) => PromiseInv'
  <2> SUFFICES ASSUME NEW p, NEW m, NEW e, handle_invalid_message(p, m, e) PROVE PromiseInv'
    BY Zenon
  <2>1. UNCHANGED <<duplicate_cache, published, now>>
    BY DEF handle_invalid_message, cacheVars, Received
  <2>2. promises' = promises \/ promises' = Score!promise_rejected(promises, m, e)
    BY DEF handle_invalid_message, IfScored
  <2>3. DOMAIN promises' \subseteq DOMAIN promises
    BY <2>2 DEF Score!promise_rejected, Score!message_delivered, Score!Restrict
  <2> QED
    BY <2>1, <2>3, PromisesFade
<1>14. \A p, t : \A ids \in SUBSET Known : handle_ihave(p, t, ids) => PromiseInv'
  BY IHavePromises
<1>15. \A p, m : handle_received_message(p, m) => PromiseInv'
  BY MessagePromises
<1>16. \A m : publish(m) => PromiseInv'
  BY PublishPromises
<1> HIDE DEF Same
<1>17. Next => PromiseInv'
  BY <1>1, <1>2, <1>3, <1>4, <1>5, <1>6, <1>7, <1>8, <1>9, <1>10, <1>12, <1>13, <1>14, <1>15, <1>16,
     StepCases, Zenon DEF Step
<1> QED
  BY <1>1, <1>11, <1>17

\* gossip_promises.rs judges fairly: while a promise to send a message is open, the message has
\* not arrived by any way, or its entry in the duplicate cache has run out, so that no peer is
\* penalised for a message that we had.
THEOREM GossipPromiseMeansMissing ==
    ASSUME NEW P \in SUBSET Peers
    PROVE  SpecWith(P) => []PromiseMeansMissing
<1>1. InitWith(P) => PromiseInv
  BY DEF InitWith, PromiseInv, PromiseMeansMissing, Cache!new
<1>2. PromiseInv /\ [Next]_vars => PromiseInv'
  BY PromiseStep
<1>3. PromiseInv => PromiseMeansMissing
  BY DEF PromiseInv
<1> QED
  BY <1>1, <1>2, <1>3, PTL DEF SpecWith
=============================================================================
