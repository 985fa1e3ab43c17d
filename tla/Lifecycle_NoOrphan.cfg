SPECIFICATION Spec
CONSTANTS
  Ops = {o1}
  Kinds <- Starts
  Entries = {e1, e2}
  Procs = {p1, p2}
  StdioConfigs = {a}
  HTTPConfigs = {h}
  Commanded = {}
  LateWatcher = FALSE
  None = None
CHECK_DEADLOCK FALSE
INVARIANT NoOrphan
