\* A follower installs the leader's snapshot at run time; no restart.
CONSTANTS
  c1 = c1
  c2 = c2
  Clients <- MCClients
  MaxReqIds = 2
  MaxConfIds = 0
  MaxLog = 2
  MaxRestarts = 0
  MaxStops = 0
  ForeignWrites = FALSE
  ForeignConfIds = {}
  ParentDeadlines = {TRUE}
  CollidingReqIds = {}
  IdReuseOnRestart = FALSE
  InstallSnapshots = TRUE
  StoreErrors = FALSE
SPECIFICATION Spec
SYMMETRY ClientSymmetry
INVARIANT ApplyCursorAtApplied
