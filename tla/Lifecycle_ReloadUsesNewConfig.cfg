SPECIFICATION Spec
CONSTANTS
  Ops = {o1, o2}
  Kinds <- Configurations
  Entries = {e1, e2, e3}
  Procs = {p1, p2}
  StdioConfigs = {a, b}
  HTTPConfigs = {h}
  Commanded = {}
  LateWatcher = FALSE
  None = None
CHECK_DEADLOCK FALSE
INVARIANT ReloadUsesNewConfig
