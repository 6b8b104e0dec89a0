SPECIFICATION RouteCalldataSpec
CONSTANTS
  Bps = 1000
  transferBuffer = 10
  feeNumerator = 997
  CandidateRoutes <- V2Routes
  Principals = {100, 400}
  Slippages = {5, 15}
  Shortfalls = {0, 5, 12, 20}
  maxCalls = 5
  Costs = 1
  flashFee = 1
\* A transaction ends.
CHECK_DEADLOCK FALSE
INVARIANT V2ChainsExecute
