SPECIFICATION Spec

CONSTANTS
  Agents  <- MCAgents
  Node    = first
  Dt      = 10
  Every   = 2
  Steps   <- MCSteps
  Jitter  = 1
  Delay   = 25
  Horizon = 100
  first   = first
  second  = second

INVARIANT LoopsInv
INVARIANT DeadlinesKeepPhase
INVARIANT ExchangeKeepsPace
CHECK_DEADLOCK FALSE
