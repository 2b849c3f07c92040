CONSTANTS
  Watchers = {w1, w2}
  App = app
  RbSize = 2
  BUF_LINES = 2
  MaxOps = 3
SPECIFICATION Spec
INVARIANTS
  NoSelfRecord
PROPERTIES
  FallsSilent
  EchoesForever
CHECK_DEADLOCK FALSE
