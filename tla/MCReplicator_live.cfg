\* Every call returns; the caller's ctx always carries a deadline (as NexusClient's 10s Timeout does).
CONSTANTS
  c1 = c1
  c2 = c2
  Clients <- MCOneClient
  MaxReqIds = 2
  MaxConfIds = 1
  MaxLog = 2
  MaxRestarts = 0
  MaxStops = 1
  ForeignWrites = FALSE
  ForeignConfIds = {}
  ParentDeadlines = {TRUE}
  CollidingReqIds = {}
  IdReuseOnRestart = FALSE
  InstallSnapshots = FALSE
  StoreErrors = FALSE
SPECIFICATION Spec
PROPERTY OpsTerminate
PROPERTY AppliedEventuallyVisible
