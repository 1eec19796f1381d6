SPECIFICATION Spec
CONSTANTS
  Venues <- MCVenues
  Markets = {"m1", "m2"}
  Books <- MCBooks
  PageSize = 2
  BatchSize = 1
  HtxPages = 3
  GateioPages = 3
  MaxChanges = 2
  Wallets <- MCWallets
INVARIANTS AccountIsListed
PROPERTIES ListingEnds
