SPECIFICATION Spec
CONSTANTS
  Messages = {h1, s1}
  StaffMessages = {s1}
  ParentMessages = {p1}
  Connections = {wa}
  WhatsApp = {wa}
  Connectors = {k1}
  FirstRoute = wa
  FirstConnector = k1
  MaxAttempts = 1
  MaxConfig = 0
  MaxCommands = 1
INVARIANTS DeliveryEvidence QueueEvidence
CHECK_DEADLOCK FALSE
