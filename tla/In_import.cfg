SPECIFICATION ImportFairSpec
CONSTANTS
  Messages = {m1, m2, m3, m4}
  Personal = {m1, m2, m3, m4}
  Producers = {"import"}
  Faults = {"crash", "lost_push", "db_error", "redis_error"}
  MaxFaults = 3
  NoCursor = NoCursor
  None = None
  HistoryPage = 1
  HistoryKept = 0
  PageSize = 2
  MaxQueueDepth = 1
  MaxRepushes = 2
  MaxHistory = 0
  m1 = m1
  m2 = m2
  m3 = m3
  m4 = m4
INVARIANT ImportOnce
INVARIANT Backpressure
PROPERTIES ImportCovers EventuallyImported
