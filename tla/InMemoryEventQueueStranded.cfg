SPECIFICATION Spec
CONSTANTS
  Message = {m1, m2}
  Delays = {0, 1, 9}
  LastInstant = 9
  MaxTime = 2
  MaxClaims = 2
  MaxPublications = 2
INVARIANT UnclaimedIsPending
CHECK_DEADLOCK FALSE
