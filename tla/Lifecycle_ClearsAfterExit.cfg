SPECIFICATION Spec
CONSTANTS
  Ops = {o1}
  Kinds <- Reloads
  Entries = {e1, e2}
  Procs = {p1, p2}
  StdioConfigs = {a}
  HTTPConfigs = {h}
  Commanded = {}
  LateWatcher = TRUE
  None = None
CHECK_DEADLOCK FALSE
PROPERTY ClearsAfterExit
