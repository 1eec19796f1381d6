SPECIFICATION DepthFairSpec
CONSTANTS
  Venues = {"binance", "usdm", "mexc"}
  Change <- MCChange
  MaxBufferedEvents = 3
  SnapshotLimit = 2
  ViewDepth = 1
  FirstId = 1
  MaxGeneration = 3
  MaxLost = 2
INVARIANTS BookIsExchangeBook LoopIsDriven
PROPERTIES ViewsAdvance Synchronizes
