CONSTANTS
  w1 = w1  w2 = w2  h1 = h1  h2 = h2  none = none  nil = nil
  Workloads = {w1, w2}
  Hashes = {h1}
  Desires <- MCOneAgent
  Controllers = {"instrumentationconfig"}
  IcController = "instrumentationconfig"
  NoLimiter = {}
  Confs <- MCConfs
  InitialConf <- MCConf
  MaxLimit = 1
  Env = {"replace", "lag", "crash"}
  MaxEvents = 1
  Failing = {"status"}
  MaxFailures = 1
SPECIFICATION FairSpec
PROPERTIES
  RolledOutInTheEnd
CHECK_DEADLOCK FALSE
