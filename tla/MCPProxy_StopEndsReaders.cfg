SPECIFICATION FairSpec
CONSTANTS
  Servers = {s1}
  Calls = {c1}
  None = None
  PipeCap = 1
  Noise <- NoNoise
CHECK_DEADLOCK FALSE
PROPERTY StopEndsReaders
