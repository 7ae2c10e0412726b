SPECIFICATION Spec
CONSTANTS
  Task = {t1}
  Key = {k1}
  MaxSessions = 2
  MaxPipelines = 2
  MaxNotices = 1
INVARIANTS
  OnePipeline
CHECK_DEADLOCK FALSE
