SPECIFICATION Spec
CONSTANTS
  CPUs = {c1, c2}
  Apps <- MCApps
  Others <- MCOthers
  MATCH_WINDOW = 2
  DEDUP_WINDOW = 2
  MaxCallers = 1
  TimeMod = 16
  MaxRun = 1
  MaxTime = 4
  MaxCalls = 3
  MaxSessions = 1
INVARIANTS
  SessionAttribution
  NamedWasLast
  FreshCallerFound
  DedupSpacing
CHECK_DEADLOCK FALSE
SYMMETRY Symmetry
