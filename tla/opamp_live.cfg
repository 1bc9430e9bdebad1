CONSTANTS
  w1 = w1  w2 = w2  c1 = c1  c2 = c2  a1 = a1  a2 = a2  x1 = x1  x2 = x2  g1 = g1  g2 = g2  nil = nil
  Agents = {a1}
  OldAgents = {}
  Identities <- MCOneProcess
  Workloads = {w1}
  Containers = {c1}
  Configs = {x1, x2}
  InitialConfig = x1
  Handlers = {g1, g2}
  Healths = {"noconnection"}
  HeartbeatHealths = {"none"}
  ChannelCap = 1
  maxInstrumentationInstancesPerPod = 1
  MaxChanges = 1
  MaxFaults = 1
SPECIFICATION FairSpec
INVARIANTS
  TypeOK
  ConfigIsFreshOrPending
PROPERTIES
  AgentsAreServed
CHECK_DEADLOCK FALSE
