SPECIFICATION SearchSpec
CONSTANTS
  Nodes = {n1}
  Keyed = {}
  Candidates = {c1, c2, c3}
  Pushes = {p1, p2, p3}
  MaxFaults = 0
  DefaultLimit = 2
  MaxLimit = 2
  Asked = {0, 1}
  K = 60
  None = None
SYMMETRY Symmetry
INVARIANTS SearchTypeOK AnswerIsRanked AnswerIsFull
CHECK_DEADLOCK FALSE
