CONSTANTS
  w1 = w1  w2 = w2  h1 = h1  h2 = h2  none = none  nil = nil
  Workloads = {w1}
  Hashes = {h1, h2}
  Desires <- MCAllDesires
  Controllers = {"instrumentationconfig", "effectiveconfig"}
  IcController = "instrumentationconfig"
  NoLimiter = {}
  Confs <- MCChangingConfs
  InitialConf <- MCConf
  MaxLimit = 1
  Env = {"backoff", "details", "source", "workload", "conf", "crash", "recover", "pause", "second"}
  MaxEvents = 2
  Failing = {"patch", "latch", "status"}
  MaxFailures = 2
SPECIFICATION Spec
INVARIANTS
  TypeOK
  SlotHolderIsReconciled
  FinishedRunsTheHash
PROPERTIES
  RollbackLatchHolds
CHECK_DEADLOCK FALSE
