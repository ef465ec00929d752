CONSTANTS
  OutputSize = 4
  MaxSizes = {0, 3, 4, 14}
  VarintBytes = 3
  VarintBase = 2
  DoubleBytes = 2
  Powers = {1, 2, 4, 8, 16, 32}
  LargestRequest = 23
  MaxLength = 9
  PosBound = 7
  Idle = Idle
SPECIFICATION Spec
INVARIANTS InBounds UniformLimit AllOrNothing Terminated NoLeak
PROPERTY LoopEnds
