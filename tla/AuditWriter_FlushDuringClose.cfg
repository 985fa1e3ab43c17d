SPECIFICATION Spec
CONSTANTS
  Records = {r1}
  Flushers = {ticker, f1}
  Ticker = ticker
  Closers = {c1}
  BatchSize = 1
  UsePG = FALSE
  FileFails = FALSE
  PGFails = FALSE
CHECK_DEADLOCK FALSE
INVARIANT LogComplete
