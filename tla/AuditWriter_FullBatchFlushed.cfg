SPECIFICATION NoTimerSpec
CONSTANTS
  Records = {r1, r2}
  Flushers = {ticker}
  Ticker = ticker
  Closers = {c1}
  BatchSize = 1
  UsePG = FALSE
  FileFails = FALSE
  PGFails = FALSE
CHECK_DEADLOCK FALSE
PROPERTY FullBatchFlushed
