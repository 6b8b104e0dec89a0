SPECIFICATION Spec
CONSTANTS
  NoState = NoState
  Pools = {"a", "b", "c"}
  KindOf <- MempoolKinds
  Router = "router"
  Valued = {"a"}
  ttl = 1
  coalesceTtl = 1
  maxPools = 1
  maxEmits = 1
  MaxSwaps = 2
  Bps = 1000
  transferBuffer = 10
  feeNumerator = 997
  CandidateRoutes <- CalldataRoutes
  Principals = {10, 40}
  Slippages = {5, 15}
  Shortfalls = {0, 5, 12, 20}
  maxCalls = 5
  Costs = 1
  flashFee = 1
  RoutingPools <- FinderPools
  PoolTokens <- FinderTokens
  FeeOf <- FinderFees
  Majors = {"m"}
  MajorBonus = 2
  HopPenalty <- FinderHopPenalty
  Passes <- FinderPasses
  Quotas <- FinderQuotas
  CycleCap = 2
  Prices = {0, 3}
  Unknown = {"s"}
  Finders = {"dfs", "bellman-ford"}
\* Instances are bounded, and searches end.
CHECK_DEADLOCK FALSE
INVARIANTS
  TypeOK
  EveryCycleFound
  BestAmountChosen
  NothingForFree
  RotationCovers
  GroupsSound
  ProjectionFollowsPending
  NoRouteSettles
  WindowNeverOverquotes
PROPERTY RatesSpread
