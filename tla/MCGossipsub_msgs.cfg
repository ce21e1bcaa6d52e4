\* Messages, gossip, promises and scores between two peers.
SPECIFICATION ConnectedSpec
CONSTANTS
    p1 = p1  p2 = p2  p3 = p3  t1 = t1  t2 = t2  m1 = m1  m2 = m2  self = self  NONE = NONE
    Peers = {p1, p2}
    Topics = {t1}
    Self = self
    KindOf <- AllV11
    Messages = {m1, m2}
    TopicOf <- OneTopic
    SourceOf <- FirstOwn
    Invalid = {m2}
    Blacklist = {}
    Allowed = {t1}
    config <- BaseConfig
    thresholds <- Thresholds
    Scored = TRUE
    publish_config = "Signing"
    UsesFastId = TRUE
    RemoteBackoffs = {NONE}
    Calls = {"subscribe", "publish", "heartbeat", "close"}
    params <- Params
    TIME_CACHE_DURATION = 9
    MaxTime = 2
    MaxConns = 1
    MaxSubs = 1
    MaxQueue = 1
    Churn = {}
    MaxEvents = 3
VIEW View
CHECK_DEADLOCK FALSE
 
PROPERTIES AdvertisedIsHeld
