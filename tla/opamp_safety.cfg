CONSTANTS
  w1 = w1  w2 = w2  c1 = c1  c2 = c2  a1 = a1  a2 = a2  x1 = x1  x2 = x2  g1 = g1  g2 = g2  nil = nil
  Agents = {a1, a2}
  OldAgents = {}
  Identities <- MCOneProcess
  Workloads = {w1}
  Containers = {c1, c2}
  Configs = {x1, x2}
  InitialConfig = x1
  Handlers = {g1, g2}
  Healths = {"healthy"}
  HeartbeatHealths = {"none"}
  ChannelCap = 1
  maxInstrumentationInstancesPerPod = 1
  MaxChanges = 0
  MaxFaults = 2
SPECIFICATION Spec
INVARIANTS
  OneConnectionPerProcess
  RecordsFollowConnections
SYMMETRY MCSymmetry
CHECK_DEADLOCK FALSE
