\* One process lifetime, no ConfChange from other nodes.
CONSTANTS
  c1 = c1
  c2 = c2
  Clients <- MCClients
  MaxReqIds = 2
  MaxConfIds = 1
  MaxLog = 2
  MaxRestarts = 0
  MaxStops = 1
  ForeignWrites = FALSE
  ForeignConfIds = {}
  ParentDeadlines = {TRUE}
  CollidingReqIds = {}
  IdReuseOnRestart = FALSE
  InstallSnapshots = FALSE
  StoreErrors = TRUE
SPECIFICATION Spec
SYMMETRY ClientSymmetry
INVARIANT TypeOK
INVARIANT RegistryNoLeak
INVARIANT AckIsOwn
INVARIANT LoadLinearizable
PROPERTY ImplementsReplicatedStore
