CONSTANTS
  RS = 3
  US = 4
  TAG = 1
  BAD = 0
  MaxByte = 4
  CharMax = 4
  MaxMessage = 2
  BUFSIZ = 8
  Sizes = {1, 2, 4, 8, 16}
  Streams <- MCStreams
  Messages <- MCMessages
  DecodeModes = {TRUE, FALSE}
SPECIFICATION Spec
INVARIANTS OffsetExact ChunkingIndependent NoFalseEnd
PROPERTY ReachesEnd
