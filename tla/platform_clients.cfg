SPECIFICATION Spec
CONSTANTS
  None = None
  Dims <- TwoDims
  Jobs = {j1}
  Workers = {w1}
  Schedulers = {s1, s2}
  Recoveries = {r1}
  Clients = {}
  Requests <- CpuRequests
  Total <- OneGpu
  MaxAttempts = 2
  MaxAdmissions = 1
  MaxTopic = 1
  MaxOutbox = 1
  Backed = {j1}
  Classes = {"transient"}
  LoseMessages = TRUE
  PatchTargets = {"RUNNING", "SUCCEEDED", "FAILED", "CANCELLED"}
  Deletable = {j1}
  PatchConfig = FALSE
INVARIANTS RunningIsReserved NoDoubleReservation OverHoldsNothing ReservationInv
PROPERTIES ImplementsLifecycle
CHECK_DEADLOCK FALSE
