SPECIFICATION ReorgDetectorSpec
CONSTANTS
  MaxHeight = 3
  MaxForks = 1
  MaxErrors = 1
  MaxTracked = 3
  checkDepth = 2
  CheckSlots = {c1, c2}
  NoBlock = NoBlock
PROPERTY ForkDetectedBeforeMutation
