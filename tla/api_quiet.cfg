SPECIFICATION FairSpec
CONSTANTS
  Salt <- ThreeSalts
  Extra = {}
  Limit = 3
  MaxCalls = 2
  MaxQueue = 2
CHECK_DEADLOCK FALSE

INVARIANTS ResponseMatches AtMostOnce SaltRetrySuffices
PROPERTIES CallReturns
