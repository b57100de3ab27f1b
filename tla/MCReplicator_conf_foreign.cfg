\* ConfChange ids: another node's per-process counter hands out ConfChange id 1 too; no restart.
CONSTANTS
  c1 = c1
  c2 = c2
  Clients <- MCClients
  MaxReqIds = 0
  MaxConfIds = 1
  MaxLog = 2
  MaxRestarts = 0
  MaxStops = 0
  ForeignWrites = FALSE
  ForeignConfIds = {1}
  ParentDeadlines = {TRUE}
  CollidingReqIds = {}
  IdReuseOnRestart = FALSE
  InstallSnapshots = FALSE
  StoreErrors = FALSE
SPECIFICATION Spec
SYMMETRY ClientSymmetry
INVARIANT AckIsOwn
