SPECIFICATION SignedSpec
CONSTANTS
  Calls = {1, 2, 3}
  Scenarios <- UsdmScenarios
  Reported <- MCReported
  Epoch = 3
  MaxTries = 2
INVARIANT SyncedStampIsNear
CHECK_DEADLOCK FALSE
