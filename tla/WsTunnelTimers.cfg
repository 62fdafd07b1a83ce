SPECIFICATION TimerSpec
CONSTANTS
  Calls = {c1}
  ReqPieces = 3
  RespPieces = 3
  LinkPieces = 2
  Hazards = {"dial", "lost", "caller", "rejected", "backend"}
INVARIANTS
  TypeOK
  FailureCauses
  TruncatedByBackendOnly
PROPERTIES
  CallRefinement
  ClientEnds
  HandlerEnds
\* the system stops when the client is done and its handler has ended
CHECK_DEADLOCK FALSE
