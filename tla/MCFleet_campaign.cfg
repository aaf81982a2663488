SPECIFICATION FairSpec

CONSTANTS
  Nodes      <- MCNodes
  Relays     <- MCRelays
  Runs       <- MCRuns
  Arms       <- MCArms
  Configs    <- MCConfigs
  Ids        <- MCIds
  None       = None
  Torn       = Torn
  MaxFaults  = 1
  NumRuns    = 2
  ArmOf      <- PairedArms
  Paired     = TRUE
  NumEvents  = 1
  EventNodes <- EventsOnWifi
  Fetchers   = 1
  LateClear  = TRUE
  LateCalls  = TRUE
  relay      = relay
  wifi       = wifi
  armA       = armA
  armB       = armB

CHECK_DEADLOCK FALSE
PROPERTY ImplementsRunBarrier
PROPERTY SeriesEnds
