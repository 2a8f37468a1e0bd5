SPECIFICATION DefsSpec
CONSTANTS
  Calls = {r1, r2}
  Gateways = {g1, g2}
  DefsTTL = 1
  MaxFetch = 1
  MaxEdits = 1
  MaxTime = 3
  NoEntry = NoEntry
CHECK_DEADLOCK FALSE
SYMMETRY MCSymmetry
INVARIANTS
  StalenessBounded
  EffectiveUnlessOvertaken
