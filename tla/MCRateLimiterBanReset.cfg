SPECIFICATION LimiterSpec
CONSTANTS
  Keys = {1, 2}
  Callers = {c1, c2}
  ChargeSets <- MCCharges
  Rules <- MCRules
  InitialRules <- MCInitialRules
  Observations = {}
  Durations = {1, 3}
  MaxLag = 0
  MaxClock = 6
  MaxAdmin = 2
PROPERTIES BanRespected
SYMMETRY MCSymmetry
