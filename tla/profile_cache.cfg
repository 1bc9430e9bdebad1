CONSTANTS
  k1 = k1  k2 = k2  c1 = c1  e1 = e1  e2 = e2  m1 = m1  m2 = m2  nil = nil
  Keys = {k1, k2}
  Sizes = {1, 2}
  Consumers = {c1}
  Editors = {e1}
  Mergers = {m1}
  ConfigMerger = m1
  DefaultLimits <- MCDefaultLimits
  HelmLimits <- MCHelmLimits
  LocalLimits <- MCLocalLimits
  Edits <- MCEdits
  Env = {"edit", "toggle", "crash"}
  MaxEvents = 2
  MaxAge = 3
SPECIFICATION Spec
INVARIANTS
  TypeOK
  WithinBudget
  BytesAreCounted
PROPERTIES
  KeptWhileRequested
