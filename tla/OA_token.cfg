SPECIFICATION FairSpec
CONSTANTS
  c1 = c1
  c2 = c2
  stray = stray
  Clients = {c1, c2, stray}
  KeyOf <- OneStray
  SetupKey = "key"
  MaxGrants = 4
  None = None
  Faults = {"crash", "db_error", "grant_ended", "user_deleted"}
  MaxFaults = 2
INVARIANTS TypeOK HalvesMatch NoRevenant RowReadable SavedFirst
PROPERTIES EventuallyAuthorised EveryoneServed
