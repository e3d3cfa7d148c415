SPECIFICATION Spec
CONSTANTS
  Thread = {t1}
  Message = {m1, m2}
  NoEvent = NoEvent
  UsePolicy = TRUE
  RequeueOnError = TRUE
  StopOnError = FALSE
  MaxEvents = 0
  CountMayFail = FALSE
  MaxRuns = 1
  MaxFaults = 1
INVARIANT UnroutedFailureEndsRun
CHECK_DEADLOCK FALSE
