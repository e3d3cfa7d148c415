SPECIFICATION MCSpec
CONSTANTS
  t1 = t1
  t2 = t2
  m1 = m1
  m2 = m2
  none = none
  Thread = {t1, t2}
  Message = {m1}
  NoEvent = none
  UsePolicy = TRUE
  RequeueOnError = TRUE
  StopOnError = FALSE
  MaxEvents = 0
  CountMayFail = FALSE
  MaxRuns = 2
  MaxFaults = 2
  MaxFinite = 8
  Policies <- MCPolicies
INVARIANTS
  TypeOK
  RunsExclusive
  RetriedLeftToLaterRuns
  RetriesBounded
PROPERTIES
  CountedRunsEnd
  RetriesEnd
CHECK_DEADLOCK FALSE
