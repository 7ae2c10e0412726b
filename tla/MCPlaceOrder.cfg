SPECIFICATION FairSpec
CONSTANTS
  Order = {o1}
  RefusalCodes <- MCRefusal
  TransportCodes <- MCTransport
  WarningCodes <- MCWarning
  CancelNoticeFirst = FALSE
  MaxQueue = 3
INVARIANTS
  QueueTruthful
  NoPhantomFill
PROPERTIES
  ImplementsOrderTruth
  AwaitReturns
CHECK_DEADLOCK FALSE
