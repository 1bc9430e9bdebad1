CONSTANTS
  p1 = p1  p2 = p2  cg1 = cg1  cg2 = cg2  pg1 = pg1  pg2 = pg2
  pod1 = pod1  pod2 = pod2  c1 = c1  c2 = c2  obi = obi  nil = nil
  Pids = {p1}
  ConfigGroups = {cg1}
  ProcessGroups = {pg1}
  Pods = {pod1}
  Configs = {c1, c2}
  GenericFactories = {}
  ProcessDetails <- MCSoloDetails
  Distros <- MCDistros
  DistroFactories <- MCSoloFactories
  ConfigGroup <- MCConfigGroup
  ProcessGroup <- MCProcessGroup
  PodOf <- MCPodOf
  Distribution <- MCDistribution
  Candidates <- MCSoloCandidates
  ApiMayFail = TRUE
  MaxSpawns = 2
  MaxRequests = 1
  MaxConfigChanges = 2
  EventsCap = 2
  RequestsCap = 1
  ConfigUpdatesCap = 1
SPECIFICATION FairSpec
INVARIANTS
  TypeOK
  ConfigIsFreshOrPending
PROPERTIES
  ExitedProcessIsCleaned
  ConfigConverges
  ShutdownEnds
CHECK_DEADLOCK FALSE
