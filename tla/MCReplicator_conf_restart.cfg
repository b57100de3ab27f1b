\* ConfChange ids: one restart, after which confChangeCount starts again at 0 while the log is replayed; no other node proposes ConfChanges.
CONSTANTS
  c1 = c1
  c2 = c2
  Clients <- MCClients
  MaxReqIds = 0
  MaxConfIds = 1
  MaxLog = 2
  MaxRestarts = 1
  MaxStops = 0
  ForeignWrites = FALSE
  ForeignConfIds = {}
  ParentDeadlines = {TRUE}
  CollidingReqIds = {}
  IdReuseOnRestart = FALSE
  InstallSnapshots = FALSE
  StoreErrors = FALSE
SPECIFICATION Spec
SYMMETRY ClientSymmetry
INVARIANT AckIsOwn
