SPECIFICATION BackendSpec
CONSTANTS
  Calls = {c1}
  ReqPieces = 4
  RespPieces = 4
  LinkPieces = 1
  Hazards = {"lost", "rejected", "backend"}
PROPERTIES
  Answered
\* the system stops when the client is done and its handler has ended
CHECK_DEADLOCK FALSE
