SPECIFICATION FairSpec

CONSTANTS
  Peers      <- MCPeers
  Declared   <- MCDeclared
  FirstSeqs  <- MCFirstSeqs
  SeqModulus = 16
  Window     = 3
  MaxAge     = 1
  Hold       = FALSE
  MaxSent    <- MCMaxSent
  MaxHeard   <- MCMaxHeard
  MaxRows    = 2
  Enabled    <- MCEnabled
  neighbour  = neighbour
  other      = other

INVARIANT ExchangeInv
INVARIANT DeliveryIsHonest
PROPERTY SilentDropped
CHECK_DEADLOCK FALSE
