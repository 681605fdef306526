CONSTANTS
  Components <- OnlyStatistics
  P = 3
  Errors = {5}
  MaxCalls = 2
  MaxCount = 1
  AtCalls = 1
SPECIFICATION AnySpec
INVARIANT
  ComputedIsGlobal
CHECK_DEADLOCK FALSE
