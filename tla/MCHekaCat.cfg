CONSTANTS
  RS = 3
  US = 4
  TAG = 1
  BAD = 0
  MaxByte = 4
  CharMax = 4
  MaxMessage = 2
  BUFSIZ = 7
  Sizes = {1, 2, 4, 8, 16}
  Logs <- MCLogs
  Options <- MCOptions
  Matching = {2}
  MaxMissing = 4
SPECIFICATION Spec
INVARIANTS StartsAtHeader CopyReadsBack
PROPERTY CatchesUp
CHECK_DEADLOCK FALSE
