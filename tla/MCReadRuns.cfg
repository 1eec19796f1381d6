SPECIFICATION Spec
CONSTANTS
  Asked = "A"
  Other = "B"
  MarketPage = 2
  CoinbasePage = 9
  KorbitPage = 5
  CandleDefault = 5
  Venues <- MCVenues
  Reads <- MCReads
  Listings <- MCListings
  Depths <- MCDepths
  Tapes = {0, 7, 120}
  Histories = {"busy", "sparse", "gap", "silent"}
  Starts <- MCStarts
  MaxTicks = 1
  Unasked = 720
INVARIANTS ReadsAreRight CandlesAreRight SmokeReportIsTrue
PROPERTIES ReadsEnd
CHECK_DEADLOCK FALSE
