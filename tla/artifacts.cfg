SPECIFICATION ArtifactsFairSpec
CONSTANTS
  None = None
  p1 = p1
  p2 = p2
  p3 = p3
  Contents = {c1}
  Requests = {p1, p2, p3}
  Id <- SharedId
  MaxVersions = 2
INVARIANTS ArtifactsInv UploadedIsStored VersionsAreUploaded
PROPERTIES DecidedOnce ImplementsRegistry PendingIsDecided
CHECK_DEADLOCK FALSE
