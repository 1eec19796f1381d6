SPECIFICATION SignedSpec
CONSTANTS
  Calls = {1, 2, 3}
  Scenarios <- QuotaScenarios
  Reported <- MCReported
  Epoch = 3
  MaxTries = 2
INVARIANTS EveryRequestFits
CHECK_DEADLOCK FALSE
