SPECIFICATION FairSpec
CONSTANTS
  h1 = h1
  h2 = h2
  h3 = h3
  alice = alice
  q1 = q1
  q2 = q2
  q3 = q3
  Handlers <- MCHandlers
  Requests <- MCRequests
  TTL = 4
  MaxMissed = 2
  NoRequest = NoRequest
  NoLease = NoLease
  Outside = Outside
INVARIANTS
  HolderKeepsLease
PROPERTIES
  ImplementsExclusiveScope
  LeaseEnds
