SPECIFICATION Spec
CONSTANTS
  Ping = 1
  Command = 2
  MaxPayload = 2
  CrcReads = 9
  Burst = 3
  RingSize = 4
  ChunkSize = 3
  TxDepth = 1
  MaxFrames = 2
  MaxFaults = 2
INVARIANT UartInv
INVARIANT DeliveredWereSent
INVARIANT WholeFrameArrives
CHECK_DEADLOCK FALSE
