SPECIFICATION Spec
CONSTANTS
  Conns = {c1, c2, c3}
  NoHandle = NoHandle
PROPERTY NewIDIsNew
CHECK_DEADLOCK FALSE
