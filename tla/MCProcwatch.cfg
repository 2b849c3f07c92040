CONSTANTS
  RbSize = 2
  MAX_ARGS_LEN = 4
  NUL = NUL
  ArgAreas <- MCArgAreas
  MaxEvents = 4
SPECIFICATION Spec
INVARIANTS
  LinePerEvent
CHECK_DEADLOCK FALSE
