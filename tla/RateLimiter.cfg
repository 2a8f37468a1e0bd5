SPECIFICATION LimiterSpec
CONSTANTS
  Requests = {"a", "b", "c", "d"}
  Gateways = {"g1", "g2"}
  Tokens <- MCTokens
  Nano <- MCNano
  Skew <- MCSkew
  MaxSkew = 1
  Lag = 1
  Rpm = 2
  Tpm = 2
  Window = 3
  Keep = 4
  SweepInterval = 3
  IdleAfter = 3
  UsesRedis = TRUE
  RequiresRedis = FALSE
  MaxTime = 4
  NoLimiter = NoLimiter
  Redis = Redis
CHECK_DEADLOCK FALSE
CONSTRAINT
  MCScope
INVARIANTS
  EachLimiterHolds
PROPERTIES
  ThrottlingIsJustified
