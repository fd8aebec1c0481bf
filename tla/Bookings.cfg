SPECIFICATION FairSpec
CONSTANTS
  Lessons = {1, 2}
  Children = {c1}
  c1 = c1
  Seeds = {b1}
  b1 = b1
  Requests = {r1, r2, r3}
  r1 = r1
  r2 = r2
  r3 = r3
  MaxTries = 2
  Capacities <- MCCapacities
  MaxAttempts = 2
  MaxLeases = 3
  Configs <- MCConfigs
INVARIANTS TypeOK CancelledEmpty SelectionKept OncePerRequest  ReceiptsDecide
PROPERTIES NoOverbooking TakesOpenLesson DecisionTold
CHECK_DEADLOCK FALSE
