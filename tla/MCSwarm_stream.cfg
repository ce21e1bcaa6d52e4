\* The sub-streams of one connection, and progress.
SPECIFICATION FairSpec
CONSTANTS
    p1 = p1  p2 = p2  self = self  r1 = r1  r2 = r2
    Peers = {p1}
    Self = self
    Requests = {r1}
    Calls = {"new_connection", "new_stream", "disconnect", "close"}
    HasRouting = FALSE
    HasIdentify = FALSE
    MaxConns = 1
    MaxStreams = 2
    MaxErrors = 1
INVARIANT LiveStreamIsListed
PROPERTIES ClosedStaysClosed RequestsAnswered ClosingConnectionLeaves
CHECK_DEADLOCK FALSE
