SPECIFICATION SidecarSpec
CONSTANTS
  Conns = {c1, c2}
  NoHandle = NoHandle
  Configs <- SomeConfigs
  NoConfig = NoConfig
  Processes = 2
INVARIANT StaleIDsAreRefused
\* every client opens and closes one connection, and the process may die
CHECK_DEADLOCK FALSE
