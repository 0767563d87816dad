CONSTANTS
  a = a
  b = b
  c = c
  Jobs = {a}
  Local = {}
  None = None
  Steps <- OneStep
  After <- Nothing
  Accepts <- NoEvent
  TailEvent <- Nothing
  Timed = {}
  Succ <- Nothing
  Procs = {p1}
  MaxClock = 3
  MaxCrashes = 0
SPECIFICATION Spec
INVARIANT JobEndTold
CHECK_DEADLOCK FALSE
