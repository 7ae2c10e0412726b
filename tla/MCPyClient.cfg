SPECIFICATION Spec
CONSTANTS
  Receiver = {r1}
  BroadcastCap = 2
  MaxEvents = 6
  MaxSessions = 3
INVARIANTS
  NoOrphanConnection
  SkipsOnlyOverwritten
CHECK_DEADLOCK FALSE
