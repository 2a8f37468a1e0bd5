SPECIFICATION FairSpec
CONSTANTS
  Entries = {e1, e2, e3, e4}
  Workers = {w1, w2}
  Capacity = 1
  Attempts = 5
  NoEntry = NoEntry
CHECK_DEADLOCK FALSE
INVARIANTS
  LossesAreCounted
PROPERTIES
  EveryRowIsResolved
