CONSTANTS
  Handlers = {h1, h2}
  None = None
  MaxMessages = 2
  MaxArms = 2
  MaxSends = 2
SPECIFICATION FairSpec
INVARIANTS Conversation SocketOrder NothingLeft
PROPERTIES NobodyLeft ConnectionEnds
CHECK_DEADLOCK FALSE
