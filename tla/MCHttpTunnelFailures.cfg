SPECIFICATION Spec
CONSTANTS
  Conns = {c1, c2}
  NoHandle = NoHandle
  Nothing = Nothing
  ReqPieces = 1
  RespPieces = 2
  Hazards = {"network", "backend", "untilClose", "rejected"}
SYMMETRY Symmetry
INVARIANTS
  TypeOK
  PanicCauses
  AnswerIntegrity
  CloseDelimitedNeverEnds
  ReadNeverRacesDrain
PROPERTIES
  CallRefinement
  FailedStaysInTable
\* the system stops when every client is done, or when the process has died
CHECK_DEADLOCK FALSE
