SPECIFICATION Spec
CONSTANTS
  MaxCode = 11000
  MaxSent = 3
  MaxErrors = 2
  StreamErrors <- MCStreamErrors
INVARIANTS
  WholeOrError
  NetLiquidationIsReal
  EveryTickComesOut
  NoticeTablesAgree
  ErrorPathsAgree
CHECK_DEADLOCK FALSE
