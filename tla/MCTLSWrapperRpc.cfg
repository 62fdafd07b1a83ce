SPECIFICATION WrapperSpec
CONSTANTS
  Reports = {r1, r2}
  Channels = {q1}
  Paths <- TwoPaths
  Infos <- TwoInfos
  Requests <- SomeRequests
  NoInfo = NoInfo
  NoRequest = NoRequest
  DeployInfos = {"hdu"}
  AppRequests <- SomeAppRequests
  NoCall = NoCall
SYMMETRY Symmetry
INVARIANTS
  RpcIsLetThrough
\* the system stops when all reports and requests are over, or the process died
CHECK_DEADLOCK FALSE
