SPECIFICATION SignedSpec
CONSTANTS
  Calls = {1, 2, 3}
  Scenarios <- MCScenarios
  Reported <- MCReported
  Epoch = 3
  MaxTries = 2
INVARIANTS QuotasFit StampsAreAccepted
PROPERTIES NothingGoesBack CallsEnd
CHECK_DEADLOCK FALSE
