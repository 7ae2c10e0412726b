SPECIFICATION FairSpec
CONSTANTS
  Task = {t1}
  Key = {k1}
  MaxSessions = 3
  MaxPipelines = 1
  MaxNotices = 1
INVARIANTS
  LiveClientIsWatched
  OneConnection
  StrayWatchersAborted
  CacheOfThisSession
PROPERTIES
  DisconnectStops
  DropEndsTasks
CHECK_DEADLOCK FALSE
