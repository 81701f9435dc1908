SPECIFICATION Spec
CONSTANTS
  m1 = m1
  m2 = m2
  w1 = w1
  w2 = w2
  b1 = b1
  b2 = b2
  b3 = b3
  i1 = i1
  i2 = i2
  Mappings = {m1, m2}
  Windows = {w1, w2}
  Bufs = {b1, b2, b3}
  Ids = {i1, i2}
  IdOf <- MCIdOf
  defaultWin = defaultWin
  proxyDef = proxyDef
  NULL = NULL
  Faults = {"mmap", "invalid", "create", "current"}
SYMMETRY Symmetric
INVARIANT TypeOK
INVARIANT NoUseAfterUnmap
INVARIANT NoMappingLeak
INVARIANT OldSurfaceDestroyed
INVARIANT DrawnBufferAlive
INVARIANT ListsDisjoint
PROPERTY FreedOnGLThread
