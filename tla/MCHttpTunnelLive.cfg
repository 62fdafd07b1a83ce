SPECIFICATION FairSpec
CONSTANTS
  Conns = {c1, c2}
  NoHandle = NoHandle
  Nothing = Nothing
  ReqPieces = 2
  RespPieces = 1
  Hazards = {"untilClose", "rejected"}
\* all properties are about behaviours all of whose states are orderly
CONSTRAINT Orderly
INVARIANTS
  FailuresAreTold
  DoneIsClosed
  NoDiscard
PROPERTIES
  Answered
  Released
\* the system stops when every client is done, or when the process has died
CHECK_DEADLOCK FALSE
