\* The mesh of one topic among three peers: subscriptions, GRAFTs, PRUNEs, back-offs, heartbeats.
SPECIFICATION ConnectedSpec
CONSTANTS
    p1 = p1  p2 = p2  p3 = p3  t1 = t1  t2 = t2  m1 = m1  m2 = m2  self = self  NONE = NONE
    Peers = {p1, p2, p3}
    Topics = {t1}
    Self = self
    KindOf <- AllV11
    Messages = {}
    TopicOf <- OneTopic
    SourceOf <- FirstOwn
    Invalid = {}
    Blacklist = {}
    Allowed = {t1}
    config <- BaseConfig
    thresholds <- Thresholds
    Scored = FALSE
    publish_config = "Signing"
    UsesFastId = FALSE
    RemoteBackoffs = {1}
    Calls = {"subscribe", "unsubscribe", "drop", "heartbeat"}
    params <- Params
    TIME_CACHE_DURATION = 9
    MaxTime = 2
    MaxConns = 1
    MaxSubs = 1
    MaxQueue = 1
    Churn = {p1}
    MaxEvents = 3
SYMMETRY Symmetry
VIEW View
INVARIANTS PruneIsRespected TopicTablesAgree
PROPERTIES HeartbeatRepairs
CHECK_DEADLOCK FALSE
