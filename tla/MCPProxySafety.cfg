SPECIFICATION Spec
CONSTANTS
  Servers = {s1, s2}
  Calls = {c1, c2}
  None = None
  PipeCap = 1
  Noise <- NoNoise
CHECK_DEADLOCK FALSE
SYMMETRY Symmetric
INVARIANT TypeOK
INVARIANT ResponseMatchesRequest
INVARIANT NoPendingLeak
INVARIANT DeliverNeverBlocks
INVARIANT OpenWhileNamed
PROPERTY AtMostOnceCalls
