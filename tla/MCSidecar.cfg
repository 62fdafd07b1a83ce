SPECIFICATION SidecarSpec
CONSTANTS
  Conns = {c1, c2, c3}
  NoHandle = NoHandle
  Configs <- SomeConfigs
  NoConfig = NoConfig
  Processes = 2
SYMMETRY Symmetry
INVARIANTS
  TypeOK
  SidecarTypeOK
  DenseIDs
  OwnHandle
  TableIsRegistered
  NoSpurious404
  NeverHalfAlive
\* every client opens and closes one connection, and the process may die
CHECK_DEADLOCK FALSE
