SPECIFICATION Spec
CONSTANTS
  Runs <- MCRuns
  Tool <- MCTool
  None = None
INVARIANTS
  TypeOK
  OwnFilterStays
  CleanExit
PROPERTIES
  OrphanBlocks
CHECK_DEADLOCK FALSE
