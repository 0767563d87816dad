CONSTANTS
  Ports = {9229}
  None = None
  Pending = Pending
  MaxCalls = 4
SPECIFICATION FairSpec
INVARIANTS OneKnownProcess StopWins
PROPERTIES RecycleRenews Settles
CHECK_DEADLOCK FALSE
