SPECIFICATION FairSpec
CONSTANTS
  Servers = {s1}
  Calls = {c1, c2}
  None = None
  PipeCap = 1
  Noise <- AllNoise
CHECK_DEADLOCK FALSE
PROPERTY CallsReturnUnlessBlocked
