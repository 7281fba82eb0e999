SPECIFICATION ArtifactsSpec
CONSTANTS
  None = None
  p1 = p1
  p2 = p2
  p3 = p3
  Contents = {c1}
  Requests = {p2, p3}
  Id <- SharedId
  MaxVersions = 1
PROPERTIES LiveLeaseIsLeftAlone
CHECK_DEADLOCK FALSE
