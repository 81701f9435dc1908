SPECIFICATION Spec
CONSTANTS
  b1 = b1
  b2 = b2
  b3 = b3
  s1 = s1
  s2 = s2
  Bufs = {b1, b2, b3}
  Sizes = {s1, s2}
  SizeOf <- TwoSizes
  FirstRoot = b1
  NULL = NULL
  MaxVersion = 0
  MaxCursor = 0
INVARIANT TypeOK
INVARIANT NotWaitingForKnownBuffer
