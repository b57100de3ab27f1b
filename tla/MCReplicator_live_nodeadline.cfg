\* Every call returns; the caller's ctx may carry no deadline (context.Background() through the library API).
CONSTANTS
  c1 = c1
  c2 = c2
  Clients <- MCOneClient
  MaxReqIds = 2
  MaxConfIds = 1
  MaxLog = 2
  MaxRestarts = 0
  MaxStops = 0
  ForeignWrites = FALSE
  ForeignConfIds = {}
  ParentDeadlines = {TRUE, FALSE}
  CollidingReqIds = {}
  IdReuseOnRestart = FALSE
  InstallSnapshots = FALSE
  StoreErrors = FALSE
SPECIFICATION Spec
PROPERTY OpsTerminate
