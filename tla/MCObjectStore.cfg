CONSTANTS
  Objects = {x}
  Versions = {v0, v1, v2}
  First = v0
  Absent = Absent
  None = None
  NoFile = NoFile
  CellClass = x
  Activators = {a1, a2}
  MaxSaves = 2
  MaxEdits = 1
  MaxTickets = 2
  MaxCrashes = 1
  MaxAll = 5
SPECIFICATION Spec
SYMMETRY Symmetry
INVARIANTS LiveIsActivated ActiveIsLive StoreKept RefusedOnlyIfWritten JournalTrue
CHECK_DEADLOCK FALSE
