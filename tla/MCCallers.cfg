SPECIFICATION FairSpec
CONSTANTS
  WrapCalls = {w1}
  BrowserCalls = {b1, b2}
  Deploys = {"hdu", "unknown"}
  DeployHostMap <- OneDeploy
  Services <- TwoServices
  Peers = {"self", "user", "somebody"}
  SelfPeer = "self"
  NoPeer = "nobody"
  Identities = {"", "cert-rpc", "cert-student", "user-anonymous"}
  WrapInputs <- SomeWrapInputs
  BrowserInputs <- SomeBrowserInputs
  NoInput = NoInput
  NoSidecar = NoSidecar
INVARIANTS
  TypeOK
  RpcNamesThePeer
  ResultIsOfTarget
PROPERTIES
  Settles
\* the system stops when all calls are over or the program of the page ended
CHECK_DEADLOCK FALSE
