SPECIFICATION Spec
CONSTANTS
  NumRequests = 2
  MaxAttempts = 2
  Backoffs <- MCBackoffs
  BatchSize = 2
  Nodes = {1, 2}
  Owner <- MCOwner
  LivingCV <- MCLivingCV
  Endpoint <- MCEndpoint
  MaxFaults = 1
INVARIANTS TypeOK HeldRowsAreCurrent PostsBounded NoLostWakeup
PROPERTIES OnlyDueRowsPosted ImplementsQueue
