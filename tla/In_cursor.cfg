SPECIFICATION Spec
CONSTANTS
  Messages = {m1, m2}
  Personal = {m1, m2}
  Producers = {"scheduler", "backfill"}
  Faults = {"crash", "lost_push"}
  MaxFaults = 1
  NoCursor = NoCursor
  None = None
  m4 = m4
  HistoryPage = 3
  HistoryKept = 3
  PageSize = 2
  MaxQueueDepth = 9
  MaxRepushes = 0
  MaxHistory = 3
  m1 = m1
  m2 = m2
  m3 = m3
INVARIANT TypeOK
INVARIANT CursorCovers
INVARIANT DuplicatesBounded
SYMMETRY PersonalPermutations
