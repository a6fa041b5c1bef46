SPECIFICATION Spec
CONSTANTS
  Nodes = {n1, n2}
  Keyed = {n1}
  Candidates = {c1, c2}
  Pushes = {p1, p2, p3}
  MaxFaults = 1
  None = None
SYMMETRY Symmetry
INVARIANTS TypeOK RevocationHolds RevocationHoldsInIndex IndexIsBacked CachedIsSearchable IndexIsFresh CachedIsVerified
CHECK_DEADLOCK FALSE
