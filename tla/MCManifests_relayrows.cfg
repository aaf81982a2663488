SPECIFICATION Spec
CONSTANTS
    MaxNeighborsFirmware = 4
    AgentMaxNeighbors = 4
    MaxNeighbors = 16
    None = None
    Prime = 97
    XWatch = 47
    VarthetaWatch = 20
    SatPersist = 3
    TcDefault = 40000
    InputRuns <- MCInputRuns
    Docs <- MCTriangleDocs
    Fielded <- MCFielded
    MaxCut = 6
    Boards <- MCBoards
    Draw <- MCDraw
    Vars <- MCVars
    Periods = {8000, 300}
    WordMax = 100000000
CHECK_DEADLOCK FALSE
INVARIANT NeighborColumnsAreTheirs
