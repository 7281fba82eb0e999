SPECIFICATION Spec
CONSTANTS
  None = None
  NaN = NaN
  j1 = j1
  j2 = j2
  j3 = j3
  Jobs = {j1, j2, j3}
  Workers = {w1, w2}
  MaxAttempts = 2
  PatchTargets = {"RUNNING", "SUCCEEDED"}
  Examples = 1
  Metrics <- OneMetric
  Last = 3
  Measured <- Latencies
  Gates <- BothGates
  Rules <- GateRules
  Inputs <- Versions
  Configs <- SameTask
  Starts <- SomeRan
  Gated = {j2}
  Callers = {c1, c2}
INVARIANTS SucceededIsComplete GateStands PassIsEarned FailIsRefuted
PROPERTIES EndedJobFreezesRun SuccessIsMirrored
SYMMETRY Symmetries
CHECK_DEADLOCK FALSE
