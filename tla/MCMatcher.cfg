SPECIFICATION Spec
CONSTANTS
  UCHAR_MAX = 9
  Nano = 10
  INT_MIN <- MCMinPid
  Inputs <- MCInputs
  Messages <- MCMessages
INVARIANTS
  MeansWhatItSays
  AcceptsTheLanguage
CHECK_DEADLOCK FALSE
