SPECIFICATION Spec
CONSTANTS
  Asked = "A"
  Other = "B"
  MarketPage = 2
  CoinbasePage = 9
  KorbitPage = 5
  CandleDefault = 5
  Venues = {"coinbase", "korbit", "kraken"}
  Reads <- ThreeMinuteReads
  Listings <- MCListings
  Depths <- MCDepths
  Tapes = {7}
  Histories = {"busy", "gap", "silent"}
  Starts <- MCStarts
  MaxTicks = 1
  Unasked = 720
INVARIANT MergedCandlesAreWhole
CHECK_DEADLOCK FALSE
