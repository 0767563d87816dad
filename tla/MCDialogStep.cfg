CONSTANTS
  Sessions = {s1, s2}
  Readers = {}
  Receivers = {r1}
  InjectedClock = FALSE
  NoToken = NoToken
  NoState = NoState
  MaxLuw = 2
  MaxRows = 1
SPECIFICATION Spec
SYMMETRY SessionSymmetry
INVARIANTS LuwAtomic OwnContext LuwEndTold QueueSound
