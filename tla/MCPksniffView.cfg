SPECIFICATION Spec
CONSTANTS
  MAX_PACKETS = 3
  MAX_TALKERS = 2
  NSlots = 4
  LIST_MIN = 2
  Heights = {2, 3}
  Addrs <- MCAddrs
  Traffic <- TwoKinds
  Tokens <- MCTokens
  BUF_SIZE = 3
  Keys <- ViewKeys
  HasOut = TRUE
  Ticks = {FALSE}
  MaxArrivals = 4
INVARIANTS
  SavedIsRecent
PROPERTIES
  SelectionShown
  QuitObeyed
  ImplementsLine
CHECK_DEADLOCK FALSE
