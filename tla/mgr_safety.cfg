CONSTANTS
  p1 = p1  p2 = p2  cg1 = cg1  cg2 = cg2  pg1 = pg1  pg2 = pg2
  pod1 = pod1  pod2 = pod2  c1 = c1  c2 = c2  obi = obi  nil = nil
  Pids = {p1, p2}
  ConfigGroups = {cg1, cg2}
  ProcessGroups = {pg1, pg2}
  Pods = {pod1, pod2}
  Configs = {c1}
  GenericFactories = {obi}
  ProcessDetails <- MCProcessDetails
  Distros <- MCDistros
  DistroFactories <- MCFactories
  ConfigGroup <- MCConfigGroup
  ProcessGroup <- MCProcessGroup
  PodOf <- MCPodOf
  Distribution <- MCDistribution
  Candidates <- MCCandidates
  ApiMayFail = FALSE
  MaxSpawns = 2
  MaxRequests = 2
  MaxConfigChanges = 0
  EventsCap = 2
  RequestsCap = 1
  ConfigUpdatesCap = 1
SPECIFICATION Spec
INVARIANTS
  AttachedMatchesTracked
  IndexesAgree
  MetricsMatchTracked
  RecordsMatchTracked
  CleanShutdownClosesAll
PROPERTIES
  UnInstrumentsOwnGroup
CHECK_DEADLOCK FALSE
