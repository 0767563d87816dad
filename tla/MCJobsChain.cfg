CONSTANTS
  a = a
  b = b
  c = c
  Jobs = {a, b, c}
  Local = {c}
  None = None
  Steps <- ChainSteps
  After <- ChainAfter
  Accepts <- ChainAccepts
  TailEvent <- ChainTail
  Timed = {}
  Succ <- Nothing
  Procs = {p1, p2}
  MaxClock = 3
  MaxCrashes = 1
SPECIFICATION Spec
SYMMETRY ProcSymmetry
INVARIANTS StoreSound RunsOnce PredecessorKept NoLostWakeUp
CHECK_DEADLOCK FALSE
