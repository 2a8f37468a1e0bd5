SPECIFICATION Spec
CONSTANTS
  Handlers = {h1}
  Requests <- MCThreeChats
  User = "user"
  Plan <- MCPlan
  Bought = {2}
  MaxCredit = 2
  MaxTime = 0
  MaxFailures = 0
  MaxArrivals = 1
  NoTime = NoTime
  NoRequest = NoRequest
  NoRow = NoRow
  Nobody = Nobody
  Outside = Outside
CHECK_DEADLOCK FALSE
PROPERTIES
  RefusalsAreJustified
SYMMETRY MCSymmetry
