SPECIFICATION Spec
CONSTANTS
  Message = {m1, m2, m3}
  Delays = {0, 1, 9}
  LastInstant = 9
  MaxTime = 2
  MaxClaims = 4
  MaxPublications = 4
INVARIANTS
  TypeOK
  PendingAgrees
PROPERTIES
  KeepsProtocol
CHECK_DEADLOCK FALSE
