SPECIFICATION Spec
CONSTANTS
  Procs = {1, 6}
  Roots = {1}
  Keys = {7}
  HalfWord = 10
  Tries = 2
  MaxMems = 2
  MaxCalls = 4
  MaxDeaths = 1
INVARIANT RightMemory
INVARIANT KeptUntilRemoved
INVARIANT OneOwnerPerKey
 
CHECK_DEADLOCK FALSE
