SPECIFICATION FloodSpec
CONSTANTS
  Salt <- OneSalt
  Extra = {"push", "nested", "flood"}
  Limit = 3
  MaxCalls = 2
  MaxQueue = 2
INVARIANTS ServiceNeverSurfaced
PROPERTIES CallReturns
CHECK_DEADLOCK FALSE
