SPECIFICATION MCSpec
CONSTANTS
  a1 = a1
  p1 = p1
  p2 = p2
  Actor = {a1, a2}
  Plugin = {p1, p2}
  Batch <- MCBatch
  MaxRegistrations = 3
  RegistrationsTogether = 2
  Installations <- MCInstallations
  MaxDiscoveries = 2
INVARIANTS
  PluginsTypeOK
  ManagerSafe
  DiscoverySafe
PROPERTIES
  BatchesEndAtFailure
CHECK_DEADLOCK FALSE
