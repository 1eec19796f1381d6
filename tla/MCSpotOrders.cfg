SPECIFICATION SpotSpec
CONSTANTS
  SpotClients <- MCSpotClients
  FuturesClients <- MCFuturesClients
  MaxAttempts = 2
  Damage <- MCDamage
INVARIANTS OrdersKeepTheirMeaning RunLeavesNothing
PROPERTIES FoundIfThere ImplementsPlacement RunEnds
CHECK_DEADLOCK FALSE
