SPECIFICATION SpotSpec
CONSTANTS
  SpotClients <- BinanceClient
  FuturesClients <- NoClient
  MaxAttempts = 2
  Damage <- BrokenBody
INVARIANT LeftOverIsCleaned
CHECK_DEADLOCK FALSE
