SPECIFICATION Spec
CONSTANTS
  Callers = {c1, c2}
  SettleIDs = {r1, r2, r3}
  InsertIDs = {r1, r2, r3}
  TopupIDs = {t1, t2}
  p1 = p1
  p2 = p2
  Plans <- MCPlans
  WindowSets <- MCWindowSets
  Costs = {3}
  InsertCosts = {3}
  Amounts = {2}
  Expiries <- MCExpiries
  MaxTime = 3
  MaxLatency = 2
  Retention = 1
  Idle = Idle
  Nobody = Nobody
  NoTime = NoTime
CONSTRAINT
  MCScope
SYMMETRY MCSymmetry
INVARIANTS
  TopupsNeverOverdrawn
  HolderGoesOn
  OverageAssessed
PROPERTIES
  SoonestExpiryFirst
  DeletedTopupsPayNothing
  ImplementsChargeLedger
