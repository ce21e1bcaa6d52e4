\* The parts beside the swarm's main loop, one at a time.
CONSTANTS
  Conns <- UpgradeConns  ForeignSets <- UpgradeForeign  Names <- UpgradeNames  NameLen <- UpgradeNameLen
  Slash <- UpgradeSlash  DialSec <- DialerSec  DialMux <- DialerMux  ListenSec <- ListenerSec
  ListenMux <- ListenerMux  BadPeer = {}  Limit = 2  Buffer = 1  TimedDial = TRUE  TimedAccept = TRUE
  MaxListens = 1  ForeignNames <- UpgradeForeignNames  MaxFrames = 1
  \* the secure handshakes and streams
  Keys = {"k1", "k2"}  Configs <- SecureConfigs  MaxCorrupt = 1
  MAX_FRAME_LEN = 2  Tag = 1  Room = 3  MaxBytes = 5  MaxWrite = 2
  \* Kademlia's requests
  Jobs <- KadJobs  Mixes <- KadMixes  Request <- KadRequest  Responses <- KadResponses  Large <- KadLarge
  max_reuse_count = 3  read_timeout = TRUE  MaxLosses = 1
  \* floodsub
  Self = "me"  Peers = {"p", "q"}  Topics = {"t"}  Subs = {1, 2}  SubTopic <- FloodSubTopic
  Msgs = {"m1", "m2"}  Ours = {"m1"}  Source <- FloodSource  MsgTopics <- FloodMsgTopics
  subscribe_local_messages = FALSE  MaxConns = 2  MaxEvents = 4
  \* gossipsub's RPCs
  max_transmit_size = 100  max_subscribed_topics = 1  max_subscriptions_per_request = 2
  whitelist = {"t1", "t2"}  MaxItems = 2  Foreign <- GossipForeign  Published <- GossipPublished
  Subscriptions <- GossipSubscriptions  Controls <- GossipControls  NONE = NONE
  \* ping and identify
  max_failures = 2  limit = 3  MaxPings = 3  MaxReports = 2
  listened_addrs <- OurAddrs  Observed <- ObservedAddrs  IsIp <- NotMemory
  \* the peer store
  BookPeers = {"p"}  Addrs = {"a", "b"}  Ttls = {1, 2}  ADDRESS_TTL = 2
  MaxTime = 2  MaxCalls = 3  MaxStarts = 2
SPECIFICATION Spec
INVARIANTS UpgradeSafe SecureSafe KadAnswers  ConnSafe
 
CHECK_DEADLOCK FALSE
