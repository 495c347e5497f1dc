SPECIFICATION Spec
CONSTANTS
  a = a
  b = b
  Nodes = {a, b}
  Scenarios <- RepeatedAtRollover
  MaxTxRetry = 3
  MaxSeq = 255
  Low = 30
  High = 230
  DupWindow = 10
CHECK_DEADLOCK FALSE
INVARIANT DuplicatesFlaggedAcross
