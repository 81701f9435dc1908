SPECIFICATION Spec
CONSTANTS
  Procs = {1}
  Roots = {1}
  Keys = {7}
  HalfWord = 10
  Tries = 2
  MaxMems = 2
  MaxCalls = 3
  MaxDeaths = 0
PROPERTIES KeyedCallReturns
CHECK_DEADLOCK FALSE
