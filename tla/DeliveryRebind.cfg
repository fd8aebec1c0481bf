SPECIFICATION Spec
CONSTANTS
  Messages = {s1}
  StaffMessages = {s1}
  ParentMessages = {}
  Connections = {wa, tg}
  WhatsApp = {wa}
  Connectors = {k1}
  FirstRoute = tg
  FirstConnector = k1
  MaxAttempts = 2
  MaxConfig = 1
  MaxCommands = 0
INVARIANT RebindLeavesNothing
CHECK_DEADLOCK FALSE
