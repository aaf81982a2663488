SPECIFICATION LogSpec
CONSTANTS
  Formats = {"binary", "csv", "jsonl"}
  Cells = 3
  FlushEvery = 2
  MaxRows = 6
  MaxFaults = 1
INVARIANT LogInv
INVARIANT RefusalSparesEarlierRows
CHECK_DEADLOCK FALSE
