SPECIFICATION Spec
CONSTANTS
  One = 1000
  APrecision = 100
  maxInRatio = 300
  expTail = 1
  Pools <- DodoPools
  Amounts = {1, 7, 20}
  MaxTrades = 1
  Iterations = 20
\* Trading ends.
CHECK_DEADLOCK FALSE
INVARIANT DodoQuotesIntegral
