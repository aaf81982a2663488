SPECIFICATION Spec
CONSTANTS
    MaxNeighborsFirmware = 4
    AgentMaxNeighbors = 4
    MaxNeighbors = 16
    None = None
    Prime = 97
    XWatch = 47
    VarthetaWatch = 20
    SatPersist = 3
    TcDefault = 40000
    InputRuns <- MCInputRuns
    Docs <- MCDocs
    Fielded <- MCFielded
    MaxCut = 6
    Boards <- MCBoards
    Draw <- MCDraw
    Vars <- MCVars
    Periods = {8000, 300}
    WordMax = 100000000
INVARIANT BoardHoldsTheManifest
INVARIANT AdmittedCanRun
INVARIANT GeneratedAreSound
CHECK_DEADLOCK FALSE
