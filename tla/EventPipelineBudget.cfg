SPECIFICATION Spec
CONSTANTS
  Message = {m1}
  Undecodable = {}
  LeaseSeconds = 1
  Delays = {0, 1}
  MaxTime = 4
  MaxClaims = 4
  MaxPublications = 1
  MaxFinite = 4
  Worker = {w1}
  UsePolicy = TRUE
  RequeueOnError = TRUE
  WorkerPolicy <- MCPolicy
  HasDeadLetterQueue = TRUE
  Errors <- MCErrors
  HandlersMeetLease = TRUE
  MaxFaults = 2
INVARIANT MaxDeliveriesKept
CHECK_DEADLOCK FALSE
