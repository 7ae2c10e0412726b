SPECIFICATION FairSpec
CONSTANTS
  Codes <- MCCodes
  MaxEvents = 3
  BroadcastCap = 2
  RingCap = 2
  ChanCap = 1
  IntervalSecs = 5
  MaxBackoff = 60
INVARIANTS
  NobodyWaitsInVain
  ArrivesOnceInOrder
  Accounted
  CriticalFlushedFirst
  OnlyOldEventsEvicted
PROPERTIES
  ImplementsRelay
  FlushEnds
  ShutdownCompletes
  EveryEventSettles
  PollerEndsWithSenders
CHECK_DEADLOCK FALSE
