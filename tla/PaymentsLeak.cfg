SPECIFICATION FairSpec
CONSTANTS
  Enrollments = {e1}
  Streams = {"s1", "s2"}
  Workers = {w1, w2}
  w1 = w1
  w2 = w2
  Keys = {k1, k2, k3}
  k1 = k1
  k2 = k2
  k3 = k3
  Prices = {0, 2}
  LastMonth = 3
  DaysPerMonth = 2
  PaymentDay = 1
  MaxCreated = 2
  Configs <- MCLeak
PROPERTIES NoLeak
CHECK_DEADLOCK FALSE
