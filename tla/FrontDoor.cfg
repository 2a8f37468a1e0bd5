SPECIFICATION FrontDoorFair
CONSTANTS
  Callers = {c1, c2}
  Limits = {2, 3}
  Total = 4
  Routes = {"api", "proxy"}
  Proxy = "proxy"
  Attempts = 2
  Threshold = 2
  MaxFlakes = 2
  MaxPanics = 1
CONSTRAINT
  MCScope
INVARIANTS
  BytesConserved
PROPERTIES
  TrafficMoves
  OutagesAreNoticed
  ServiceResumes
  RevocationTakesHold
