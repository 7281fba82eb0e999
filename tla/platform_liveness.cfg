SPECIFICATION FairSpec
CONSTANTS
  None = None
  Dims <- TwoDims
  Jobs = {j1}
  Workers = {w1, w2}
  Schedulers = {s1}
  Recoveries = {r1}
  Clients = {}
  Requests <- CpuRequests
  Total <- OneSlot
  MaxAttempts = 2
  MaxAdmissions = 1
  MaxTopic = 1
  MaxOutbox = 1
  Backed = {}
  Classes = {"transient"}
  LoseMessages = FALSE
  PatchTargets = {}
  Deletable = {}
  PatchConfig = FALSE
PROPERTIES EveryJobEnds
CHECK_DEADLOCK FALSE
