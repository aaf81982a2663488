SPECIFICATION Spec

CONSTANTS
  Nodes      <- MCNodes
  Relays     <- MCRelays
  Runs       <- MCRuns
  Arms       <- MCArms
  Configs    <- MCConfigs
  Ids        <- MCIds
  None       = None
  Torn       = Torn
  MaxFaults  = 2
  NumRuns    = 2
  ArmOf      <- PairedArms
  Paired     = TRUE
  NumEvents  = 1
  EventNodes <- EventsOnWifi
  Fetchers   = 1
  LateClear  = FALSE
  LateCalls  = FALSE
  relay      = relay
  wifi       = wifi
  armA       = armA
  armB       = armB

INVARIANT TypeOK
INVARIANT Barrier
INVARIANT AckedIsApplied
INVARIANT ClearedIsIdle
INVARIANT CollectedIsWhole
INVARIANT CollectedOneArm
INVARIANT HubKnowsConfiguration
PROPERTY StartsFromReset
PROPERTY StaysInRun
CHECK_DEADLOCK FALSE
