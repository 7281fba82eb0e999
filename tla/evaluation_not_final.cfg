SPECIFICATION Spec
CONSTANTS
  None = None
  NaN = NaN
  j1 = j1
  j2 = j2
  j3 = j3
  Jobs = {j1}
  Workers = {w1}
  MaxAttempts = 2
  PatchTargets = {}
  Examples = 1
  Metrics <- OneMetric
  Last = 3
  Measured <- Latencies
  Gates <- BothGates
  Rules <- GateRules
  Inputs <- Versions
  Configs <- SameTask
  Starts <- NoneRan
  Gated = {j1}
  Callers = {}
PROPERTIES SucceededIsTerminal
CHECK_DEADLOCK FALSE
