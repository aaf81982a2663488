SPECIFICATION AirSpec
CONSTANTS
    Base = 8
    Board = board
    Pi = pi
    Legacy = legacy
    Stranger = stranger
    BoardPackets <- MCBoardPackets
    PiPackets <- MCPiPackets
    LegacyPackets <- MCLegacyPackets
    StrangerAds <- MCStrangerAds
    StrayDatagrams <- MCStrayDatagrams
    Neighbors <- MCNeighbors
    ListenerId = 3
    MaxSent = 2
    MaxHeard = 2
INVARIANT AirInv
CHECK_DEADLOCK FALSE
