CONSTANTS
  Tables = {t1}
  FieldLists <- OneKey
  Modes = {"E", "S", "X"}
  Scopes = {0, 1, 3}
  Slots = {1, 2}
  MaxSeq = 7
  MaxCount = 2
SPECIFICATION Spec
INVARIANTS IInv SessionExclusion ExclusiveAlone UpdateTaskProtected
PROPERTY ImplementsOwners
CHECK_DEADLOCK FALSE
