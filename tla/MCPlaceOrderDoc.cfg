SPECIFICATION Spec
CONSTANTS
  Order = {o1}
  RefusalCodes <- MCRefusal
  TransportCodes <- MCTransport
  WarningCodes <- MCWarning
  CancelNoticeFirst = TRUE
  MaxQueue = 3
INVARIANT
  RejectedIsRefused
CHECK_DEADLOCK FALSE
