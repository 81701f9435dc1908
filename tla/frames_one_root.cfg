SPECIFICATION FairSpec
CONSTANTS
  b1 = b1
  b2 = b2
  b3 = b3
  s1 = s1
  s2 = s2
  Bufs = {b1}
  Sizes = {s1}
  SizeOf <- OneSize
  FirstRoot = b1
  NULL = NULL
  MaxVersion = 2
  MaxCursor = 1
INVARIANT ContentNotLost
INVARIANT CursorNotLost
PROPERTY FrameShown
