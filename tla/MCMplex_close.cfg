SPECIFICATION FairSpec
CONSTANTS
  Requests <- OpenAndClose
  NoReq = NoReq
  MaxId = 2
  Backlog = 0
  WireCap = 9
  MaxWrites <- OneByA
  StreamOps = {}
  MayBreak = FALSE
CHECK_DEADLOCK FALSE
INVARIANTS AcceptedInOrder
PROPERTIES RequestsAnswered ShutdownEnds
