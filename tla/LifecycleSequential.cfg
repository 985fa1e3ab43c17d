SPECIFICATION Spec
CONSTANTS
  Ops = {o1}
  Kinds <- AllKinds
  Entries = {e1,e2}
  Procs = {p1,p2}
  StdioConfigs = {a,b}
  HTTPConfigs = {h, k}
  Commanded = {k}
  LateWatcher = TRUE
  None = None
SYMMETRY Symmetric
INVARIANT TypeOK
INVARIANT ToolsMatchProcess
INVARIANT RollbackRestores
PROPERTY HandlesKept
