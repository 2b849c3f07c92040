SPECIFICATION Spec
CONSTANTS
  CPUs = {c1, c2}
  Keys <- MCKeys
  Shellish = {"su"}
  AlertShells = {"su"}
  WINDOW = 1
  TimeMod = 16
  ALERT_AT = 2
  WARN_AT = 2
  MaxRun = 1
  MapSize = 2
  Elems = {e1, e2, e3, e4}
  NULL = NULL
  MaxTime = 2
  MaxExecs = 5
  MaxOf <- MCMaxOf
INVARIANTS
  NoOvercount
  CountSound
  BurstDetected
CHECK_DEADLOCK FALSE
SYMMETRY Symmetry
