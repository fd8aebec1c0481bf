SPECIFICATION FairSpec
CONSTANTS
  Messages = {s1}
  StaffMessages = {s1}
  ParentMessages = {p1}
  Connections = {wa, tg}
  WhatsApp = {wa}
  Connectors = {k1, k2}
  FirstRoute = tg
  FirstConnector = k1
  MaxAttempts = 2
  MaxConfig = 2
  MaxCommands = 0
INVARIANT LastOutcome
PROPERTIES FinalStays QueuedSettles AcceptedSettles
CHECK_DEADLOCK FALSE
