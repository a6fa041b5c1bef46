SPECIFICATION Spec
CONSTANTS
  adminKey = adminKey
  ipKey = ipKey
  emailKey = emailKey
  AdminKeys = {adminKey}
  IpKeys = {ipKey}
  EmailKeys = {emailKey}
  Keys = {adminKey, ipKey, emailKey}
  Calls = {h1, h2, h3, h4}
  Limit <- MCLimit
  Window = 1
  MaxRestarts = 1
SYMMETRY Symmetry
INVARIANTS TypeOK AdmissionsBounded OneSessionPerLink EntryIsEarned SessionsAreKept
PROPERTIES ImplementsQuota EndedSessionsStayOut
CHECK_DEADLOCK FALSE
