SPECIFICATION Spec
CONSTANTS
  NoState = NoState
  Invalid = Invalid
  NoBlock = NoBlock
\* Instances are bounded, and a shutdown ends.
CHECK_DEADLOCK FALSE
PROPERTIES
  CrashRecovered
  BreakerCloses
  CyclePoolsUsable
  PoolsEnumerated
  ExpiredLifted
  StaleUntracked
