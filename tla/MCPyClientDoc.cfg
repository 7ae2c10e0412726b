SPECIFICATION Spec
CONSTANTS
  Receiver = {r1}
  BroadcastCap = 1
  MaxEvents = 1
  MaxSessions = 1
PROPERTIES
  DisconnectGoesThrough
CHECK_DEADLOCK FALSE
