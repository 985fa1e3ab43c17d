SPECIFICATION FairCallSpec
CONSTANTS
  Roles = {orchestrator, coder}
  Orchestrator = orchestrator
  Servers = {s1}
  Calls = {c1, c2}
  AuditFaulty = TRUE
CHECK_DEADLOCK FALSE
INVARIANT CallTypeOK
INVARIANT DecisionIsTimely
INVARIANT OneRecordPerCall
PROPERTY RecordArrives
