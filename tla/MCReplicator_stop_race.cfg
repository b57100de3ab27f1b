\* Stop racing calls in progress and readCommits.
CONSTANTS
  c1 = c1
  c2 = c2
  Clients <- MCClients
  MaxReqIds = 2
  MaxConfIds = 0
  MaxLog = 2
  MaxRestarts = 0
  MaxStops = 1
  ForeignWrites = FALSE
  ForeignConfIds = {}
  ParentDeadlines = {TRUE}
  CollidingReqIds = {}
  IdReuseOnRestart = FALSE
  InstallSnapshots = FALSE
  StoreErrors = FALSE
SPECIFICATION Spec
SYMMETRY ClientSymmetry
PROPERTY StoreUnusedAfterClose
