SPECIFICATION FairSpec
CONSTANTS
  w1 = w1
  w2 = w2
  None = None
  JobIds = {j1}
  Workers = {w1, w2}
  StageOf <- TwoTest
  StartStage <- StartTest
  MaxAttempts = 2
  MaxCopies = 1
  Faults = {"crash", "lost_push", "shutdown", "redis_error", "db_error", "slow_sweep"}
  MaxFaults = 2
PROPERTIES EventuallySettled
