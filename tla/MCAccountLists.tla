--------------------------- MODULE MCAccountLists ---------------------------
EXTENDS AccountLists

MCVenues == {"okx", "bybit", "bithumb", "coinbase", "htx", "gateio", "kucoin", "mexc", "korbit",
             "kraken", "cryptocom", "coinone", "binance", "bitget", "upbit"}

\* Nothing, one order, a full page, a page and a half, two full pages, three.
MCBooks == {<<>>, <<"m1">>, <<"m1", "m1">>, <<"m1", "m2", "m1">>, <<"m1", "m1", "m2", "m1">>,
            <<"m2", "m1", "m1", "m1", "m1">>}

\* Nothing; funds partly held; borrowed funds on a credit line.
MCWallets == {[free |-> 0, held |-> 0, owed |-> 0, credit |-> 0],
              [free |-> 2, held |-> 3, owed |-> 1, credit |-> 4]}
=============================================================================
