SPECIFICATION Spec
CONSTANTS
  Sessions = {s1}
  NodeSessions = {s1}
  Users = {u1, u2}
  Links = {m1, m2}
  Requests = {h1, h2, h3}
  MaxAborts = 0
  None = None
SYMMETRY Symmetry
INVARIANT SecretAgreement
CHECK_DEADLOCK FALSE
