SPECIFICATION PricingSpec
CONSTANTS
  PerMillion = 10
  PerMinute = 2
  MinutesPerDay = 3
  MiniMaxCaches = 3
  NoWindow = NoWindow
  NoInstant = NoInstant
  Admins = {a1, a2}
  Others = {"customer", "shopper"}
  Patches <- MCPatches
  FirstModels <- MCFirstModels
  MaxEdits = 2
  Requests <- MCRequests
  Slack = 2
  DefaultOutput = 4
  VisibleFloor = 3
  MaxTime = 6
  a1 = a1
  a2 = a2
SYMMETRY
  MCSymmetry
CONSTRAINT
  MCScope
INVARIANTS
  BilledAsServed
  AllowanceIsLargest
  ChargedWithinQuote
  ChargedAsShown
PROPERTY
  EditsKeepTheRest
CHECK_DEADLOCK FALSE
