CONSTANTS
  w1 = w1  w2 = w2  h1 = h1  h2 = h2  none = none  nil = nil
  Workloads = {w1, w2}
  Hashes = {h1}
  Desires <- MCOneAgent
  Controllers = {"instrumentationconfig", "instrumentationrules"}
  IcController = "instrumentationconfig"
  NoLimiter = {"instrumentationrules"}
  Confs <- MCConfs
  InitialConf <- MCConf
  MaxLimit = 1
  Env = {"rules", "lag", "crash"}
  MaxEvents = 2
  Failing = {}
  MaxFailures = 0
SPECIFICATION Spec
INVARIANTS
  RolloutsWithinLimit
PROPERTIES
  ImplementsLimiter
SYMMETRY MCSymmetry
CHECK_DEADLOCK FALSE
