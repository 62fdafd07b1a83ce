SPECIFICATION Spec
CONSTANTS
  Conns = {c1}
  NoHandle = NoHandle
  Nothing = Nothing
  ReqPieces = 1
  RespPieces = 1
  Hazards = {}
INVARIANTS
  InOrder
\* the system stops when every client is done, or when the process has died
CHECK_DEADLOCK FALSE
