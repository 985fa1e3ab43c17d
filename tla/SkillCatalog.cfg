SPECIFICATION Spec
CONSTANTS
  x = x
  y = y
  Roles = {coder, orch, everyone}
  Orchestrator = orch
  Everyone = everyone
  Names = {n1, n2}
  Tags = {x, y}
  TagLists <- Lists
  Repos = {r1, r2}
  MaxSkills = 1
  None = None
  ScopeFiles <- Files
  coder = coder
CHECK_DEADLOCK FALSE
SYMMETRY Symmetric
INVARIANT TypeOK
INVARIANT EveryVisibleNameListed
INVARIANT HiddenOnlyBySubtraction
