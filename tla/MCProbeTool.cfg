SPECIFICATION Spec
CONSTANTS
  CPUs = {c1, c2}
  RbSize = 2
  MaxPerCpu = 2
INVARIANTS
  TypeOK
  RingInv
  Accounted
  NoProbeLeft
PROPERTIES
  ImplementsStream
  StopObeyed
  SubmittedIsHandled
CHECK_DEADLOCK FALSE
