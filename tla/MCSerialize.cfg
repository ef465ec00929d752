CONSTANTS
  precision = 1
  INT_MAX = 12
  Tables = {"g", "t", "u"}
  Globals = "g"
  Graphs <- MCGraphs
  Savable = {"saved", "failing"}
  Failing = {"failing"}
  TableRefs = 2
SPECIFICATION Spec
INVARIANTS WrittenOnce Restores
CHECK_DEADLOCK FALSE
