SPECIFICATION HistorySpec
CONSTANTS
  Users = {u1}
  NoOne = NoOne
  MaxVeID = 1
  RegulatedPeriod = 4
  MaxLockTime = 8
  Amounts = {8}
  Durations = {4, 8}
  GenesisTimes = {6}
  InitialCoins = {10}
  Gaps = {1, 3}
  LastTime = 16
  MaxAttached = 0
  Precision = 10
  Scenarios <- OnlyLocks
INVARIANT LoopWithinTwoRounds
CHECK_DEADLOCK FALSE
