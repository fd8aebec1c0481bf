SPECIFICATION Spec
CONSTANTS
  Channels = {c1, c2}
  Events = {1, 2, 3}
  CreatedAt <- MCCreatedAt
  ThreadOf <- MCThreadOf
  Kickoffs = {}
  MaxPending = 2
  MaxBatch = 2
  MaxRetries = 1
  Agents = {a1, a2}
  a1 = a1
  a2 = a2
  Configs <- MCInterrupts
  Owned = {1}
  Threshold = 2
INVARIANT InterruptedSurvive
CHECK_DEADLOCK FALSE
