SPECIFICATION Spec
CONSTANTS
  MaxReconnectAttempts = 1
  SourceErrors = {"network"}
  ConnectErrors = {"network", "permanent"}
  HookErrors = {"network", "timeout"}
  PingErrors = {"network"}
  HandlerOutcomes = {"ok","fail"}
  CloseMayFail = FALSE
  MaxDials = 3
  MaxFailures = 2
  MaxReconnectCalls = 2
INVARIANT HandlerErrorReturned

