SPECIFICATION Spec
CONSTANTS
  UCHAR_MAX = 9
  Nano = 10
  INT_MIN <- MCMinPid
  Inputs <- MCInputs
  Messages <- MCMessages
INVARIANT ParenthesesGroup
CHECK_DEADLOCK FALSE
