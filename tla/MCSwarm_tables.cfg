\* Connection tables and dial transactions: two requests race each other, inbound
\* connections, the Identify tasks and close.
SPECIFICATION Spec
CONSTANTS
    p1 = p1  p2 = p2  self = self  r1 = r1  r2 = r2
    Peers = {p1}
    Self = self
    Requests = {r1, r2}
    Calls = {"connect", "new_connection", "clear_addrs", "close", "ban_peer_id"}
    HasRouting = TRUE
    HasIdentify = TRUE
    MaxConns = 2
    MaxStreams = 0
    MaxErrors = 0
SYMMETRY Symmetry
CHECK_DEADLOCK FALSE
INVARIANTS TablesAgree ConnectionsAccounted ExpectNeverFails OneReportPerDial
