\* A Load's request id collides with a write of another node: the write's Store result reaches the Load, which decodes it as its read index.
CONSTANTS
  c1 = c1
  c2 = c2
  Clients <- MCClients
  MaxReqIds = 2
  MaxConfIds = 0
  MaxLog = 2
  MaxRestarts = 0
  MaxStops = 0
  ForeignWrites = TRUE
  ForeignConfIds = {}
  ParentDeadlines = {TRUE}
  CollidingReqIds = {1}
  IdReuseOnRestart = FALSE
  InstallSnapshots = FALSE
  StoreErrors = FALSE
SPECIFICATION Spec
SYMMETRY ClientSymmetry
INVARIANT LoadLinearizable
