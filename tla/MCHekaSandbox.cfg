SPECIFICATION RSpec
CONSTANTS
  m1 = m1
  m2 = m2
  Messages <- MCMessages
  Types <- AllTypes
  NULL = NULL
  InstructionLimits <- MCLimits
  MemoryLimit = 8
  MaxCount = 2
  MaxMatchers = 1
  BufferSize = 2
  WriteArguments <- MCArguments
  Resurrects = FALSE
SYMMETRY MessageSymmetry
INVARIANTS ScriptReadsCurrent Statistics WritesWhole MatchersFreed
PROPERTIES FatalMeansTerminated
