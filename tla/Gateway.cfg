SPECIFICATION FairSpec
CONSTANTS
  Handlers = {h1, h2}
  Requests <- MCAll
  User = "user"
  Plan <- MCTwoWindows
  Bought = {1}
  MaxCredit = 1
  MaxTime = 1
  MaxFailures = 1
  MaxArrivals = 2
  NoTime = NoTime
  NoRequest = NoRequest
  NoRow = NoRow
  Nobody = Nobody
  Outside = Outside
CHECK_DEADLOCK FALSE
CONSTRAINT
  MCScope
INVARIANTS
  OnlyLapsesGoUnpaid
  AnswersAreAccounted
PROPERTIES
  ImplementsExclusiveScope
  ScopesAreReturned
