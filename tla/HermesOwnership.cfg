SPECIFICATION Spec
CONSTANTS
  ParentEvents = {p1, p2}
  StaffEvents = {s1}
  AdminEvents = {s1}
  Batches = {{p1}, {p1, p2}, {s1}}
  FirstBound = TRUE
  FirstChannel = "thread"
  NoEvent = none
  MaxTurns = 2
  MaxParts = 1
  RetryLimit = 2
  MaxPublicationAttempts = 1
  MaxVersion = 3
  MaxConfig = 0
  MaxAttempt = 2
INVARIANTS SingleLease LeaseFence ReplyFence RetryKeepsSource
PROPERTIES ReplyFinal ResumeNewerThanTakeover ImplementsLedger
CHECK_DEADLOCK FALSE
