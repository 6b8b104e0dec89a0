SPECIFICATION LoopAndDetectorSpec
CONSTANTS
  Pools = {p1, p2}
  Checks = {k1}
  RebuildInterval = 2
  MaxReorgs = 1
  MaxFailures = 1
  MaxHeight = 3
  MaxForks = 1
  MaxErrors = 1
  MaxTracked = 2
  checkDepth = 2
  CheckSlots = {c1, c2}
  NoBlock = NoBlock
INVARIANT DroppedRoutesStayDropped
