----------------------------- MODULE MCReadRuns -----------------------------
(***************************************************************************)
(* Every read of fifteen adapters at the limits where a step, a default or *)
(* a page ends, and whole smoke runs.                                      *)
(***************************************************************************)
EXTENDS ReadRuns

MCVenues == {"okx", "bybit", "bitget", "binance", "coinbase", "kraken", "gateio", "kucoin",
             "htx", "mexc", "cryptocom", "korbit", "coinone", "bithumb", "upbit"}

ReadsOf(kind, limits, minutes) ==
  {[kind |-> kind, limit |-> n, minutes |-> d] : n \in limits, d \in minutes}

CandleReads == ReadsOf("candles", {0, 1, 2, 3, 5, 6}, {1, 3, 5})
MCReads ==
  ReadsOf("markets", {0}, {1}) \cup ReadsOf("ticker", {0}, {1})
    \cup ReadsOf("book", {0, 1, 5, 6, 10, 11, 15, 16, 17}, {1})
    \cup ReadsOf("trades", {0, 1, 10, 11, 50, 51, 100, 101}, {1}) \cup CandleReads
ThreeMinuteReads == ReadsOf("candles", {2, 5}, {3})

One == Entry("A")
MCListings ==
  {<<>>, <<One>>, <<One, Entry("B"), Entry("C")>>, <<Entry("B"), Entry("C"), Entry("B")>>}
    \cup {<<One, [Entry("B") EXCEPT ![f] = FALSE]>> : f \in {"spot", "named", "reads", "fits", "rules"}}
MCDepths == {[bids |-> b, asks |-> a, rows |-> 0] : b \in {0, 3, 18}, a \in {0, 18}}

\* An hour has passed; all phases of a 3-minute candle.
MCStarts == 120..125
=============================================================================
