SPECIFICATION Spec
CONSTANTS
  None = None
  Jobs = {j1}
  Workers = {w1, w2}
  MaxAttempts = 3
  PatchTargets = {}
  MaxSteps = 3
  CheckpointEvery = 2
  Last = 5
INVARIANTS LineageIsComplete EveryStepWasTrained SucceededHasOutput
PROPERTIES HistoryIsFinal
SYMMETRY WorkerSymmetry
CHECK_DEADLOCK FALSE
