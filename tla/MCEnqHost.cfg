CONSTANTS
  Steps = {t1, t2}
  Keys = {k1, k2}
  None = None
  WAIT_TRIES = 2
  MaxSid = 3
SPECIFICATION Spec
SYMMETRY Symmetry
INVARIANTS PinsHold NoLockLeft EndedKeyHoldsNothing RetiresOnce
