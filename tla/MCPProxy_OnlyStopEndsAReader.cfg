SPECIFICATION Spec
CONSTANTS
  Servers = {s1, s2}
  Calls = {c1}
  None = None
  PipeCap = 1
  Noise <- NoNoise
CHECK_DEADLOCK FALSE
PROPERTY OnlyStopEndsAReader
