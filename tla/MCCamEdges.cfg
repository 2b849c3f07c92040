SPECIFICATION Spec
CONSTANTS
  CPUs = {c1, c2}
  Pids = {p1, p2}
  CHAIN_WINDOW = 1
  MAX_EDGES = 2
  MaxRun = 1
  MaxTime = 2
  MaxHooks = 3
INVARIANTS
  CallShowsEdge
  LinkIsLatest
CHECK_DEADLOCK FALSE
SYMMETRY Symmetry
