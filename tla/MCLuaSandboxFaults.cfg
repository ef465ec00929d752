SPECIFICATION CSpec
CONSTANTS
  k1 = k1
  k2 = k2
  v0 = v0
  v1 = v1
  Keys <- MCKeys
  Values <- MCValues
  DefaultValue = v0
  Versions <- NoVersions
  InstructionLimits <- NoLimit
  MemoryLimit = 8
  Nil = Nil
  Unsavable = Unsavable
  Ignored = Ignored
  NoVersion = NoVersion
  NoFile = NoFile
  Unread = Unread
  Revived = Revived
  Garbled = Garbled
  CrashPoints <- Everywhere
  DiskMayFill = TRUE
  ScriptCatches = TRUE
  StopCleanAfterFailure = TRUE
SYMMETRY KeySymmetry
INVARIANTS OneGeneration
 
