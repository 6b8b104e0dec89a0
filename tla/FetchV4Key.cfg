SPECIFICATION PoolStateFetchSpec
CONSTANTS
  PoolOrder <- KeyThenV3
  KindOf <- KindOfBoth
  CyclePools = {"a"}
  Heads = {"h"}
  Others = {"o"}
  NoState = NoState
  Invalid = Invalid
  InvalidAfter = 3
  SkipAfter = 2
  MaxPrice = 1
  MaxFaults = 1
\* Nothing is left to do once every pool is fetched and no fault remains.
CHECK_DEADLOCK FALSE
INVARIANT V4KeyNotFetched
