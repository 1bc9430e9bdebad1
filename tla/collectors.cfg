CONSTANTS
  plain = plain  spans = spans  nil = nil
  Confs <- MCConfs
  SpanMetrics <- MCSpanMetrics
  Controllers <- MCControllers
  InitialConf = spans
  DestDemands <- MCDestDemands
  InitialDests <- MCMetrics
  Retries = 3
  Env = {"destinations", "apps", "config", "edit node config", "edit gateway config", "restart", "reconcile fails", "delayed call fails"}
  MaxChanges = 1
  MaxFaults = 1
SPECIFICATION FairSpec
INVARIANTS
  TypeOK
  NodeOutOfSyncIsPending
  NodeGroupWaitsForGateway
PROPERTIES
  NodeFollowsGateway
CHECK_DEADLOCK FALSE
