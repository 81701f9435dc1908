SPECIFICATION StartedSpec
CONSTANTS
  m1 = m1
  m2 = m2
  w1 = w1
  w2 = w2
  b1 = b1
  b2 = b2
  b3 = b3
  i1 = i1
  i2 = i2
  Mappings = {m1, m2}
  Windows = {w1}
  Bufs = {b1}
  Ids = {i1}
  IdOf <- MCIdOf1
  defaultWin = defaultWin
  proxyDef = proxyDef
  NULL = NULL
  Faults = {"mmap", "invalid", "release", "create", "current"}
PROPERTY HandshakeTerminates
PROPERTY ListensToServer
INVARIANT FlagFollowsSurface
