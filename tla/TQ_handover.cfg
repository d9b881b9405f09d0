SPECIFICATION Spec
CONSTANTS
  w1 = w1
  w2 = w2
  None = None
  JobIds = {j1}
  Workers = {w1, w2}
  StageOf <- FetchRender
  StartStage <- StartFetch
  MaxAttempts = 2
  MaxCopies = 1
  Faults = {"crash"}
  MaxFaults = 2
INVARIANTS NoStranding
PROPERTIES LifecycleKept
