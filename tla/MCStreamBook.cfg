SPECIFICATION StreamBookFairSpec
CONSTANTS
  Venues = {"okx", "okx5", "bybit", "bitget", "coinbase", "kraken", "krakenFutures", "gateio", "gateioFutures", "kucoin", "kucoinFutures", "cryptocom", "upbit", "bithumb", "korbit", "coinone", "htx"}
  Change <- MCChange
  Depth = 2
  ChecksumDepth = 1
  ViewDepth = 1
  MaxBuffered = 2
  QueueSize = 2
  FirstId = 2
  MaxGeneration = 2
  MaxFaults = 2
INVARIANTS StreamBookIsSound
PROPERTIES StreamViewsAdvance Resynchronizes
