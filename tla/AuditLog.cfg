SPECIFICATION FairSpec
CONSTANTS
  Records = {r1, r2, r3}
  Flushers = {ticker}
  Ticker = ticker
  Closers = {c1, c2}
  BatchSize = 1
  UsePG = TRUE
  FileFails = TRUE
  PGFails = TRUE
CHECK_DEADLOCK FALSE
INVARIANT TypeOK
PROPERTY FileIsLog
PROPERTY TableIsLog
PROPERTY RecordLogged
PROPERTY CloseReturns
