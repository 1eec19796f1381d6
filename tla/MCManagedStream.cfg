SPECIFICATION ManagedFairSpec
CONSTANTS
  Venues = {"okx", "bybit", "coinbase", "kraken", "krakenFutures", "bitget", "binance", "gateio", "gateioFutures", "htx", "cryptocom", "mexc", "korbit", "binanceUsdm", "kucoin", "kucoinFutures", "coinone", "htxPrivate", "cryptocomPrivate"}
  Keys = {1, 2}
  ListLimit <- MCListLimit
  ChunkSize = 1
  MaxChanges = 2
  MaxConns = 2
INVARIANTS RestoringInStep
PROPERTIES ListedIsRestored
