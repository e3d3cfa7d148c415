SPECIFICATION MCSpec
CONSTANTS
  Thread = {t1, t2}
  DirectBotCalls = TRUE
  MaxRuns = 2
  MaxInterrupts = 1
  Requester = {c1, c2, c3}
  Domain = {d1}
  Threshold = 2
  Recovery = 2
  MaxRebuilds = 1
  Feeder = {f1, f2}
  Stages <- MCStages
  MaxPipeRuns = 2
  Texts <- MCTexts
  Mappings <- MCMappings
  Orders <- MCOrders
  Tag = {"p", "br", "script"}
  VoidTag = {"br"}
  HiddenTag = {"script"}
  MaxNodes = 4
  MaxParts = 2
  Bases <- MCBases
  Environments <- MCEnvironments
INVARIANTS
  RuntimeTypeOK
  CrawlerSafe
  HttpSafe
  PipelineSafe
  CellsSurvive
  TreeFollowsTags
  LayersKept
PROPERTIES
  StopRequestsWork
  OpenCircuitRecovers
CHECK_DEADLOCK FALSE
