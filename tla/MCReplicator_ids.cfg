\* Request ids: another node whose id agrees with this one in its low 16 bits hands out the same request ids (request id 1 may be carried by its write).
CONSTANTS
  c1 = c1
  c2 = c2
  Clients <- MCClients
  MaxReqIds = 2
  MaxConfIds = 0
  MaxLog = 2
  MaxRestarts = 0
  MaxStops = 0
  ForeignWrites = FALSE
  ForeignConfIds = {}
  ParentDeadlines = {TRUE}
  CollidingReqIds = {1}
  IdReuseOnRestart = FALSE
  InstallSnapshots = FALSE
  StoreErrors = FALSE
SPECIFICATION Spec
SYMMETRY ClientSymmetry
INVARIANT AckIsOwn
