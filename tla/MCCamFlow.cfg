CONSTANTS
  CPUs = {c1, c2}
  Reqs = {r1, r2}
  Contexts <- MCContexts
  MAX_REQS = 1
  MAX_SESSIONS = 1
  Elems = {e1, e2, e3}
  NULL = NULL
  W = 8
  MaxTime = 3
SYMMETRY Symmetry
SPECIFICATION Spec
INVARIANTS
  TypeOK
  TableExact
  LatencyExact
PROPERTIES
  RefusedWhenFull
