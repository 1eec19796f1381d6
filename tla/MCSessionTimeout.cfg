SPECIFICATION Spec
CONSTANTS
  MaxReconnectAttempts = 0
  SourceErrors = {"network"}
  ConnectErrors = {"network", "permanent"}
  HookErrors = {}
  PingErrors = {"timeout"}
  HandlerOutcomes = {"ok", "fail", "decode", "reconnect"}
  CloseMayFail = TRUE
  MaxDials = 3
  MaxFailures = 2
  MaxReconnectCalls = 2
INVARIANT TimeoutIsRetried

