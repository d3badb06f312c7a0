SPECIFICATION Spec
CONSTANTS
  FragSize = 2
  MaxPack = 2
  BufCount = 2
  Sizes = {1, 3, 5}
  MaxFrame = 3
  NetMax = 2
  NoNode = NoNode
  DelayDecodes = 1
  MaxJoins = 2
INVARIANTS WholeFramesOnly RunMeansReceiving BuffersAccounted
PROPERTIES FramesInOrder CloseReturns
CHECK_DEADLOCK FALSE
