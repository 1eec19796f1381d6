SPECIFICATION FairSpec
CONSTANTS
  MaxReconnectAttempts = 1
  SourceErrors = {"network"}
  ConnectErrors = {"network", "permanent"}
  HookErrors = {"network", "timeout"}
  PingErrors = {"network"}
  HandlerOutcomes = {"ok", "fail", "decode", "reconnect"}
  CloseMayFail = TRUE
  MaxDials = 3
  MaxFailures = 2
  MaxReconnectCalls = 2
INVARIANT SocketsAreKept
PROPERTIES EndsForAReason ClosesAreRight ObserverContract StopsOnRequest ReconnectHappens
