SPECIFICATION Spec
CONSTANTS
  MaxPackets = 2
  MaxStarts = 2
  MaxReports = 1
INVARIANT BridgeInv
INVARIANT StoppedIsSilent
PROPERTY PublishesEnd
CHECK_DEADLOCK FALSE
