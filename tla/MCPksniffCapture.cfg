SPECIFICATION Spec
CONSTANTS
  MAX_PACKETS = 2
  MAX_TALKERS = 2
  NSlots = 4
  LIST_MIN = 2
  Heights = {2}
  Addrs <- MCAddrs
  Traffic <- FourHosts
  Tokens = {}
  BUF_SIZE = 1
  Keys <- CaptureKeys
  HasOut = TRUE
  Ticks = {TRUE, FALSE}
  MaxArrivals = 4
INVARIANTS
  TypeOK
  OwnerCountsAll
PROPERTIES
  ImplementsLog
  TopRanking
CHECK_DEADLOCK FALSE
