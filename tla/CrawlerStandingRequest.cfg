SPECIFICATION CrawlerSpec
CONSTANTS
  Thread = {t1}
  DirectBotCalls = FALSE
  MaxRuns = 2
  MaxInterrupts = 0
INVARIANT StoppedByStandingRequest
CHECK_DEADLOCK FALSE
