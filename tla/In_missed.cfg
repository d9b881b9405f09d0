SPECIFICATION FairSpec
CONSTANTS
  Messages = {m1, m2}
  Personal = {m1}
  Producers = {"scheduler", "backfill"}
  Faults = {"crash", "lost_push", "db_error"}
  MaxFaults = 2
  NoCursor = NoCursor
  None = None
  m4 = m4
  m3 = m3
  HistoryPage = 1
  HistoryKept = 2
  PageSize = 2
  MaxQueueDepth = 9
  MaxRepushes = 0
  MaxHistory = 3
  m1 = m1
  m2 = m2
PROPERTY NothingMissed
