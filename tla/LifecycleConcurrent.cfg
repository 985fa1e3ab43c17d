SPECIFICATION FairSpec
CONSTANTS
  Ops = {o1, o2}
  Kinds <- Catalogs
  Entries = {e1, e2}
  Procs = {p1}
  StdioConfigs = {a}
  HTTPConfigs = {}
  Commanded = {}
  LateWatcher = TRUE
  None = None
INVARIANT StopKillsWhatItStops
PROPERTY OperationsReturn
PROPERTY FailureIsCleared
