SPECIFICATION ManagedSpec
CONSTANTS
  Venues = {"kucoin"}
  Keys = {1, 2}
  ListLimit <- MCListLimit
  ChunkSize = 1
  MaxChanges = 2
  MaxConns = 2
INVARIANTS ListedIsSubscribed
