SPECIFICATION FairSpec

CONSTANTS
  MaxRuns   = 2
  MaxRadio  = 1
  MaxSeq    = 1
  MaxFaults = 1
  Unstopped = FALSE
  Hasty     = FALSE

INVARIANT LatchedHolds
INVARIANT HeardInRun
INVARIANT SilentAtRest
PROPERTY ImplementsBoardRun
PROPERTY RunsBegin
PROPERTY StopSilences
