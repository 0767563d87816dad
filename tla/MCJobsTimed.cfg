CONSTANTS
  a = a
  b = b
  c = c
  Jobs = {a, b}
  Local = {}
  None = None
  Steps <- OneStep
  After <- Nothing
  Accepts <- NoEvent
  TailEvent <- Nothing
  Timed = {a, b}
  Succ <- PeriodSucc
  Procs = {p1, p2}
  MaxClock = 0
  MaxCrashes = 2
SPECIFICATION FairSpec
INVARIANTS ChainOfRuns DeletedForGood IdentityResolves
PROPERTY PassesFinish
CHECK_DEADLOCK FALSE
