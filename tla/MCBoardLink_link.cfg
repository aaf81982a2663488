SPECIFICATION FairSpec

CONSTANTS
  Configs     <- MCConfigs
  Microgrid   <- MCMicrogrid
  Refused     <- MCRefused
  None        = None
  State       = State
  TxDepth     = 1
  MaxOps      = 3
  MaxFaults   = 2
  good        = good
  unpinned    = unpinned
  scalar      = scalar

INVARIANT AnswersItsRequest
INVARIANT ConfirmedIsHeld
INVARIANT LawIsWhole
INVARIANT StartedIsRunning
PROPERTY OperationsReturn
CHECK_DEADLOCK FALSE
