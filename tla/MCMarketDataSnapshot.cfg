SPECIFICATION FairSpec
CONSTANT
  StreamErrors <- MCStreamErrors
INVARIANTS
  BestGreeksWin
  SuccessIsUsable
  FailureIsTruthful
PROPERTY
  SnapshotReturns
CHECK_DEADLOCK FALSE
