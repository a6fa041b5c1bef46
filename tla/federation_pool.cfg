SPECIFICATION Spec
CONSTANTS
  i1 = i1
  i2 = i2
  k1 = k1
  k2 = k2
  Ids = {i1, i2}
  Keys = {k1, k2}
  Claims <- MCAnyNames
  Requests = {h1, h2, h3}
  PoolSize = 2
  None = None
INVARIANTS TypeOK TrustIsEstablished  PeersAreConsistent
PROPERTY ActivePeersAreGuarded
SYMMETRY MCSymmetry
