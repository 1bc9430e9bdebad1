CONSTANTS
  w1 = w1  w2 = w2
  nil = nil
  default = default
  Workloads = {w1}
  StaticPods = {}
  Sources = {"s1", "s2", "s3", "s4"}
  Kind <- MCKind
  Matches <- MCMatches
  DataStreams = {}
  Settings = {"p"}
  Env = {"source", "workload", "accident", "failure", "crash", "race"}
  MaxEvents = 3
SPECIFICATION FairSpec
CHECK_DEADLOCK FALSE
INVARIANTS TypeOK OutOfSyncIsPending
PROPERTIES InSyncInTheEnd DeletedSourceGoes
