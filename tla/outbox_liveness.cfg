SPECIFICATION FairSpec
CONSTANTS
  NumRequests = 2
  MaxAttempts = 3
  Backoffs <- MCBackoffs
  BatchSize = 1
  Nodes = {2}
  Owner <- MCOwner
  LivingCV <- MCLivingCV
  Endpoint <- MCEndpoint
  MaxFaults = 1
PROPERTY Settles
