SPECIFICATION LiveSpec
CONSTANTS
  m1 = m1
  m2 = m2
  PollSeconds = 1
  Message = {m1, m2}
  Undecodable = {}
  LeaseSeconds = 1
  Delays = {0, 1}
  MaxTime = 2
  MaxClaims = 4
  MaxPublications = 2
  MaxFinite = 4
  Worker = {w1, w2}
  UsePolicy = TRUE
  RequeueOnError = TRUE
  WorkerPolicy <- MCPolicy
  HasDeadLetterQueue = TRUE
  Errors <- MCErrors
  HandlersMeetLease = FALSE
  MaxFaults = 1
INVARIANTS
  TypeOK
  NoEventLost
  DeliveryBudget
  OneEndUnlessLapsed
  AtMostOneOwner
PROPERTIES
  SettledInSpiteOfTrouble
CHECK_DEADLOCK FALSE
