---------------------------- MODULE MCSpotOrders ----------------------------
(* Instances of SpotOrders for TLC. *)
EXTENDS SpotOrders, TLC

MCSpotClients ==
  {"binance", "okx", "bybit", "bitget", "coinbase", "kraken", "gateio", "kucoin", "htx", "mexc",
   "cryptocom", "korbit", "coinone", "bithumb", "upbit"}

MCFuturesClients == {"usdm", "kraken_futures", "gateio_futures", "kucoin_futures"}

\* Damaged answers, without the seven that a client takes for a definite failure although
\* the order may stand.
MCDamage ==
  (MCSpotClients \cup MCFuturesClients) \X {"broken", "bare", "empty", "other", "coded5xx"}
    \ {<<"binance", "broken">>, <<"bitget", "bare">>, <<"coinbase", "bare">>,
       <<"cryptocom", "coded5xx">>, <<"gateio", "other">>, <<"mexc", "other">>, <<"kraken", "other">>}

BinanceClient == {"binance"}
NoClient == {}
BrokenBody == {<<"binance", "broken">>}
=============================================================================
