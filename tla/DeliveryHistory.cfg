SPECIFICATION Spec
CONSTANTS
  Message = {m1, m2}
  Undecodable = {m2}
  LeaseSeconds = 2
  Delays = {0, 1, 2}
  MaxTime = 5
  MaxClaims = 4
  MaxPublications = 3
INVARIANTS
  TypeOK
  FirstDeliveryInOrder
  RedeliveryJustified
  DeliveriesCounted
  RemovedForGood
PROPERTIES
  EndedClaimsStayEnded
  KeepsProtocol
CHECK_DEADLOCK FALSE
