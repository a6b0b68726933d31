SPECIFICATION Spec
CONSTANTS
  Salt <- OneSalt
  Extra = {"push"}
  Limit = 64
  MaxCalls = 2
  MaxQueue = 2
INVARIANTS ResponseMatches
CHECK_DEADLOCK FALSE
