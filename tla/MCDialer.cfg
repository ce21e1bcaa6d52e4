\* One dial of up to two addresses with retries, back-off and a mismatching peer.
\* No symmetry: the run checks progress too.
SPECIFICATION FairSpec
CONSTANTS
    d1 = d1  p1 = p1  p2 = p2  a1 = a1  a2 = a2  a3 = a3
    Dials = {d1}
    Peers = {p1, p2}
    Addrs = {a1, a2}
    Private = {}
    Loopback = {}
    NoTransport = {}
    FilterPrivate = FALSE
    FilterLoopback = TRUE
    UseDHT = TRUE
    Attempts = 2
    DialLimit = 1
    BackoffBase = 1
    BackoffCoef = 1
    BackoffMax = 1
CHECK_DEADLOCK FALSE
INVARIANTS TokensMatchJobs ResultsAccounted
PROPERTIES ImplementsDialService DialsEnd
