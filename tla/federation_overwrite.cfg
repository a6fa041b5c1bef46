SPECIFICATION Spec
CONSTANTS
  i1 = i1
  i2 = i2
  k1 = k1
  k2 = k2
  Ids = {i1, i2}
  Keys = {k1, k2}
  Claims <- MCOwnNames
  Requests = {h1, h2}
  PoolSize = 1
  None = None
PROPERTY ActivePeersAreKept
CHECK_DEADLOCK FALSE
