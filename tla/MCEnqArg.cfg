CONSTANTS
  Char = {"a", " "}
  Lengths <- KeyLengths
  Excess = 1
SPECIFICATION PairSpec
INVARIANTS CollideIsCommonKey
CHECK_DEADLOCK FALSE
