SPECIFICATION FairSpec
CONSTANTS
  srv = srv
  a1 = a1
  a2 = a2
  a3 = a3
  c1 = c1
  c2 = c2
  Server = srv
  Activities = {a1, a2, a3}
  Conns = {c1, c2}
  NULL = NULL
CHECK_DEADLOCK FALSE
INVARIANT TypeOK
INVARIANT ConnectedExclusion
INVARIANT ConnectedHolderOwns
PROPERTY LockObtainedOrReplaced
