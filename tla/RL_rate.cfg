SPECIFICATION Spec
CONSTANTS
  Keys = {k1, k2}
  Interval = 2
  Burst = 2
  MaxTime = 5
INVARIANT RateBounded
PROPERTY PatienceRewarded
CHECK_DEADLOCK FALSE
