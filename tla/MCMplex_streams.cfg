SPECIFICATION Spec
CONSTANTS
  Requests <- BothOpen
  NoReq = NoReq
  MaxId = 1
  Backlog = 0
  WireCap = 1
  MaxWrites <- OneByB
  StreamOps = {"close", "reset", "drop"}
  MayBreak = TRUE
CHECK_DEADLOCK FALSE
INVARIANTS InOrder EofMeansAll TablesMirror
