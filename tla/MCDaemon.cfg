CONSTANTS
  Daemons = {d1}
  Handlers = {h1, h2}
  None = None
  MaxSends = 3
  MaxArms = 2
  MaxDumps = 2
SPECIFICATION FairSpec
INVARIANTS QueueExact
PROPERTIES MailboxOrder OwedHappens
CHECK_DEADLOCK FALSE
