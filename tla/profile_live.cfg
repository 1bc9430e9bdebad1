CONSTANTS
  k1 = k1  k2 = k2  c1 = c1  e1 = e1  e2 = e2  m1 = m1  m2 = m2  nil = nil
  Keys = {k1}
  Sizes = {1}
  Consumers = {c1}
  Editors = {e1, e2}
  Mergers = {m1, m2}
  ConfigMerger = m1
  DefaultLimits <- MCDefaultLimits
  HelmLimits <- MCHelmLimits
  LocalLimits <- MCLocalLimits
  Edits <- MCEdits
  Env = {"edit", "toggle", "unreadable", "refused", "deployment", "delete", "crash"}
  MaxEvents = 2
  MaxAge = 3
SPECIFICATION FairSpec
INVARIANTS
  SettingsArePending
PROPERTIES
  IdleSlotIsSwept
  LimitsArePersisted
