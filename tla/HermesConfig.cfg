SPECIFICATION FairSpec
CONSTANTS
  ParentEvents = {p1}
  StaffEvents = {s1}
  AdminEvents = {s1}
  Batches = {{p1}, {s1}}
  FirstBound = FALSE
  FirstChannel = "legacy"
  NoEvent = none
  MaxTurns = 2
  MaxParts = 1
  RetryLimit = 2
  MaxPublicationAttempts = 2
  MaxVersion = 3
  MaxConfig = 1
  MaxAttempt = 2
INVARIANT NothingLeftBehind
PROPERTIES CommittedSettles TriggerIsServed
CHECK_DEADLOCK FALSE
