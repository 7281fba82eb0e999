SPECIFICATION Spec
CONSTANTS
  None = None
  Dims <- TwoDims
  Jobs = {j1, j2}
  Workers = {w1}
  Schedulers = {s1}
  Recoveries = {}
  Clients = {}
  Requests <- MixedRequests
  Total <- OneGpu
  MaxAttempts = 1
  MaxAdmissions = 2
  MaxTopic = 1
  MaxOutbox = 1
  Backed = {}
  Classes = {"permanent"}
  LoseMessages = FALSE
  PatchTargets = {}
  Deletable = {}
  PatchConfig = TRUE
INVARIANTS Conservation
CHECK_DEADLOCK FALSE
