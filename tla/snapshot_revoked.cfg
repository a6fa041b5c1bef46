SPECIFICATION Spec
CONSTANTS
  Nodes = {n1, n2}
  Keyed = {n1}
  Candidates = {c1, c2}
  Pushes = {p1, p2, p3}
  MaxFaults = 0
  None = None
SYMMETRY Symmetry
INVARIANT RevokedDataGone
CHECK_DEADLOCK FALSE
