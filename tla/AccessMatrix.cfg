SPECIFICATION Spec
CONSTANTS
  Roles = {orchestrator, coder, tester}
  Orchestrator = orchestrator
  Servers = {s1, s2}
SYMMETRY Symmetric
INVARIANT GrantedCanAccess
INVARIANT ListingAgrees
PROPERTY OnlyNamedLoseAccess
