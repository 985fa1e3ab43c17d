SPECIFICATION Spec
CONSTANTS
  Roles = {orchestrator, coder, tester}
  Orchestrator = orchestrator
  Servers = {s1}
PROPERTY LastRevokeCloses
