SPECIFICATION Spec
CONSTANTS
  None = None
  Dims <- TwoDims
  Jobs = {j1}
  Workers = {w1, w2}
  Schedulers = {s1}
  Recoveries = {r1}
  Clients = {c1}
  Requests <- CpuRequests
  Total <- OneGpu
  MaxAttempts = 2
  MaxAdmissions = 1
  MaxTopic = 1
  MaxOutbox = 1
  Backed = {}
  Classes = {"transient", "permanent"}
  LoseMessages = FALSE
  PatchTargets = {}
  Deletable = {}
  PatchConfig = FALSE
INVARIANTS TypeOK OutcomeMatchesAttempt AttemptHistory ClaimableIsDispatched RunningIsReserved NoDoubleReservation NobodyIsForgotten OverHoldsNothing
PROPERTIES OverIsOver ImplementsHost
SYMMETRY WorkerSymmetry
CHECK_DEADLOCK FALSE
