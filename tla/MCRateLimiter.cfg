SPECIFICATION LimiterFairSpec
CONSTANTS
  Keys = {1, 2}
  Callers = {c1, c2}
  ChargeSets <- MCCharges
  Rules <- MCRules
  InitialRules <- MCPartRules
  Observations = {2}
  Durations = {1, 3}
  MaxLag = 1
  MaxClock = 5
  MaxAdmin = 2
INVARIANTS LimitsHold
PROPERTIES AllOrNothing BanHolds WakesWhenRoom EveryWaitReturns
