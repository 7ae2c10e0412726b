SPECIFICATION CliFairSpec
CONSTANTS
  Codes = {504, 2104, 2105, 2107}
  Version = 187
  DiagnosticBuffer = 2
  MaxNotices = 4
INVARIANT
  ReportIsHonest
PROPERTY
  DiagnoseEnds
CHECK_DEADLOCK FALSE
