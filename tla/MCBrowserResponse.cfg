SPECIFICATION ResponseSpec
CONSTANTS
  WrapCalls = {}
  BrowserCalls = {b1, b2}
  Deploys = {"hdu"}
  DeployHostMap <- OneDeploy
  Services <- OneService
  Peers = {"self", "user"}
  SelfPeer = "self"
  NoPeer = "nobody"
  Identities = {"", "cert-rpc", "user-anonymous"}
  WrapInputs = {}
  BrowserInputs <- SomeInputs
  NoInput = NoInput
  NoSidecar = NoSidecar
  Readers = {r1, r2, r3}
  Bodies = {"object", "text"}
INVARIANTS
  BodyGoesToOne
\* the system stops when all calls are over or the program of the page ended
CHECK_DEADLOCK FALSE
