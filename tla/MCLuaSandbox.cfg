SPECIFICATION CSpec
CONSTANTS
  k1 = k1
  k2 = k2
  v0 = v0
  v1 = v1
  Keys <- MCKeys
  Values <- MCValues
  DefaultValue = v0
  Versions <- MCVersions
  InstructionLimits <- MCLimits
  MemoryLimit = 8
  Nil = Nil
  Unsavable = Unsavable
  Ignored = Ignored
  NoVersion = NoVersion
  NoFile = NoFile
  Unread = Unread
  Revived = Revived
  Garbled = Garbled
  CrashPoints <- NotWhilePreserving
  DiskMayFill = FALSE
  ScriptCatches = FALSE
  StopCleanAfterFailure = FALSE
INVARIANTS LimitsInForce
PROPERTIES RemovedOnlyIfUnsavable ReportedSaved HookEndsCall Resumes
