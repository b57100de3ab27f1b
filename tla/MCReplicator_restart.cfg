\* Crash and restart of the process, snapshot restore and log replay.
CONSTANTS
  c1 = c1
  c2 = c2
  Clients <- MCClients
  MaxReqIds = 2
  MaxConfIds = 0
  MaxLog = 2
  MaxRestarts = 1
  MaxStops = 0
  ForeignWrites = TRUE
  ForeignConfIds = {}
  ParentDeadlines = {TRUE}
  CollidingReqIds = {}
  IdReuseOnRestart = FALSE
  InstallSnapshots = TRUE
  StoreErrors = TRUE
SPECIFICATION Spec
SYMMETRY ClientSymmetry
INVARIANT TypeOK
INVARIANT RegistryNoLeak
INVARIANT AckIsOwn
INVARIANT LoadLinearizable
INVARIANT StoreIsLogPrefix
PROPERTY ImplementsReplicatedStore
