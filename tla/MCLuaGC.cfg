SPECIFICATION Spec
CONSTANTS
  GCSWEEPMAX = 2
  MINSTRTABSIZE = 1
  Programs <- MCPrograms
INVARIANTS ListsSound LiveKept Reclaims FinalizedOnce
CHECK_DEADLOCK FALSE
