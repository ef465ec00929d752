SPECIFICATION Spec
CONSTANTS
  a = a
  b = b
  Nil = Nil
  Numbers = {1, 2, 3}
  Objects = {a, b}
  Hash <- MCHash
  Values = {1}
  MAX_INT = 3
  MaxSince = 3
INVARIANTS Dictionary VisitsOnce Border
CHECK_DEADLOCK FALSE
