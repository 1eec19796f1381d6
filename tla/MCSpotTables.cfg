SPECIFICATION SpotSpec
CONSTANTS
  SpotClients <- MCSpotClients
  FuturesClients <- MCFuturesClients
  MaxAttempts = 2
  Damage <- MCDamage
INVARIANTS ClientReadsSafely
CHECK_DEADLOCK FALSE
