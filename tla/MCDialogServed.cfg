CONSTANTS
  Sessions = {s1, s2}
  Readers = {q1}
  Receivers = {}
  InjectedClock = TRUE
  NoToken = NoToken
  NoState = NoState
  MaxLuw = 2
  MaxRows = 0
SPECIFICATION FairSpec
PROPERTY Served
