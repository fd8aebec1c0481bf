SPECIFICATION Spec
CONSTANTS
  Channels = {c1, c2}
  Events = {1, 2, 3, 4}
  CreatedAt <- MCCreatedAt
  ThreadOf <- MCThreadOf
  Kickoffs = {4}
  MaxPending = 2
  MaxBatch = 2
  MaxRetries = 1
  Agents = {a1, a2}
  a1 = a1
  a2 = a2
  Configs <- MCConfigs
  Owned = {1}
  Threshold = 2
INVARIANTS TypeOK TurnsExclusive HeldOnce OneThreadPerTurn ParentTurnLeased
PROPERTIES LostOnlyAtCap
SYMMETRY Symmetry
CHECK_DEADLOCK FALSE
