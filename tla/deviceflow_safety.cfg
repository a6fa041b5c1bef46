SPECIFICATION Spec
CONSTANTS
  Sessions = {s1, s2}
  NodeSessions = {s1}
  Users = {u1, u2}
  Links = {m1, m2}
  Requests = {h1, h2, h3}
  MaxAborts = 1
  None = None
SYMMETRY Symmetry
INVARIANTS TypeOK OwnerIsApprover LinksAreSingleUse TokensAreEarned ConsumedIsGranted SecretLostToUnheard
PROPERTIES ApprovalIsFinal ImplementsGrant
CHECK_DEADLOCK FALSE
