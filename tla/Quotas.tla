------------------------------- MODULE Quotas -------------------------------
(***************************************************************************)
(* What a request costs: the limiter rules each client registers and the   *)
(* units it charges on them (limits.go of every client), the quotas a      *)
(* client may be configured with (New), and what the headers of an answer  *)
(* tell the limiter (observeRateLimit and its kin).                        *)
(*                                                                         *)
(* A rule is identified by its scope (egress route or account), its group  *)
(* and its window; route and account are those of the client.  Quotas are  *)
(* functions from their names to numbers.                                  *)
(***************************************************************************)
EXTENDS Integers, FiniteSets

PublicOps == {"time", "markets", "ticker", "book", "trades", "candles", "public_token"}
PrivateOps == {"place", "cancel", "query", "open", "history", "fills", "balance", "positions", "token"}
Mutations == {"place", "cancel"}
Scope(op) == IF op \in PrivateOps THEN "account" ELSE "route"

Charge(scope, group, window, limit, units) ==
  [key |-> <<scope, group, window>>, limit |-> limit, units |-> units]

One(scope, group, window, limit) == {Charge(scope, group, window, limit, 1)}

\* New: a quota of zero stands for the default.
Resolved(defaults, given) ==
  [n \in DOMAIN defaults |-> IF given = 0 THEN defaults[n] ELSE given]
-----------------------------------------------------------------------------
(* Clients without configurable quotas. *)
NoQuotas == [n \in {} |-> 0]

\* Orders are limited per instrument, everything per method and path.
OkxLimits ==
  [time |-> 10, markets |-> 20, ticker |-> 20, book |-> 40, trades |-> 100, candles |-> 40,
   place |-> 60, cancel |-> 60, query |-> 60, open |-> 60, history |-> 40, balance |-> 10, positions |-> 10]
OkxCharges(op, market, q) ==
  One(Scope(op), <<op, IF op \in {"place", "cancel", "query"} THEN market ELSE "">>, 2000, OkxLimits[op])

\* One global rule and one for the path; one order and open orders share a path.
BybitLimits ==
  [time |-> 50, markets |-> 20, ticker |-> 20, book |-> 20, trades |-> 20, candles |-> 20,
   place |-> 10, cancel |-> 10, query |-> 20, open |-> 20, history |-> 20, balance |-> 20, positions |-> 20]
BybitPath(op) == IF op \in {"query", "open"} THEN "realtime" ELSE op
BybitCharges(op, market, q) ==
  One("route", <<"global">>, 5000, 600) \cup One(Scope(op), <<BybitPath(op)>>, 1000, BybitLimits[op])

BitgetLimits ==
  [markets |-> 20, ticker |-> 20, book |-> 20, trades |-> 20, candles |-> 20,
   place |-> 10, cancel |-> 10, query |-> 20, open |-> 20, history |-> 20, balance |-> 20, positions |-> 20]
BitgetCharges(op, market, q) ==
  One("route", <<"global">>, 60000, 6000) \cup One(Scope(op), <<op>>, 1000, BitgetLimits[op])

\* Placing has its own group, every other private call shares one.
UpbitCharges(op, market, q) ==
  IF op \in PublicOps THEN One("route", <<op>>, 1000, 10)
  ELSE IF op = "place" THEN One("account", <<"order">>, 1000, 12)
  ELSE One("account", <<"default">>, 1000, 30)
UpbitOps == {"markets", "ticker", "book", "trades", "candles", "place", "cancel", "query", "open", "history", "balance"}
-----------------------------------------------------------------------------
(* Binance: a catalogue of limits that ExchangeInfo replaces. *)
BinanceDefaults == [weight |-> 6000, raw |-> 300000, orders10s |-> 100, orders1d |-> 200000]
BinanceWeights ==
  [time |-> 1, markets |-> 20, ticker |-> 2, book |-> 250, trades |-> 25, candles |-> 2,
   place |-> 1, cancel |-> 1, query |-> 4, open |-> 80, history |-> 20, balance |-> 20]

\* limitCatalog.charges: specs that cost nothing are left out.
BinanceCharges(op, market, q) ==
  LET orders == IF op = "place" THEN 1 ELSE 0
  IN {c \in {Charge("route", <<"weight">>, 60000, q.weight, BinanceWeights[op]),
             Charge("route", <<"raw">>, 300000, q.raw, 1),
             Charge("account", <<"orders">>, 10000, q.orders10s, orders),
             Charge("account", <<"orders">>, 86400000, q.orders1d, orders)} : c.units > 0}

UsdmDefaults == [weight |-> 2400, orders10s |-> 300, orders1m |-> 1200]
UsdmWeights ==
  [time |-> 1, markets |-> 1, ticker |-> 1, book |-> 20, trades |-> 5, candles |-> 10,
   place |-> 0, cancel |-> 1, query |-> 1, open |-> 40, history |-> 5, balance |-> 5, positions |-> 5, token |-> 1]
UsdmCharges(op, market, q) ==
  LET orders == IF op = "place" THEN 1 ELSE 0
  IN {c \in {Charge("route", <<"weight">>, 60000, q.weight, UsdmWeights[op]),
             Charge("account", <<"orders">>, 10000, q.orders10s, orders),
             Charge("account", <<"orders">>, 60000, q.orders1m, orders)} : c.units > 0}

\* limitCatalog.update: a reported limit replaces the spec it names.
BinanceUpdate(q, name, limit) == IF limit > 0 THEN [q EXCEPT ![name] = limit] ELSE q
UsdmUpdate(q, name, limit) == IF limit > 0 /\ name \in DOMAIN q THEN [q EXCEPT ![name] = limit] ELSE q
-----------------------------------------------------------------------------
(* Clients with configured quotas: defaults, what New accepts, charges. *)
CoinbaseDefaults == [public |-> 10, private |-> 10]
CoinbaseAccepts(q) ==
  /\ q.public >= 1
  /\ q.private >= 1
CoinbaseOps == {"time", "markets", "ticker", "book", "trades", "candles", "place", "cancel", "query", "open", "fills", "balance"}
CoinbaseCharges(op, market, q) ==
  One("route", <<"all">>, 1000, q.public) \cup
  IF op \in PrivateOps THEN One("account", <<"private">>, 1000, q.private) ELSE {}

\* Mutant of KrakenAccepts: forgets that a history request costs four.
KrakenAcceptsOne(q) ==
  /\ q.public >= 1
  /\ q.counter >= 1
  /\ q.trading >= 1

KrakenDefaults == [public |-> 1, counter |-> 20, trading |-> 1]
KrakenAccepts(q) ==
  /\ q.public >= 1
  /\ q.counter >= 4
  /\ q.trading >= 1
KrakenOps == {"time", "markets", "ticker", "book", "trades", "candles", "place", "cancel", "query", "open", "history", "fills", "balance", "token"}

\* Mutant of KrakenCharges: trading is charged on the counter's key.
KrakenChargesOneKey(op, market, q) ==
  CASE op \in PublicOps -> One("route", <<"public">>, 1000, q.public)
    [] op \in Mutations -> One("account", <<"private-counter">>, 40000, q.trading)
    [] OTHER -> {Charge("account", <<"private-counter">>, 40000, q.counter, IF op \in {"history", "fills"} THEN 4 ELSE 1)}

KrakenCharges(op, market, q) ==
  CASE op \in PublicOps -> One("route", <<"public">>, 1000, q.public)
    [] op \in Mutations -> One("account", <<"trading", IF market = "" THEN "unknown" ELSE market>>, 1000, q.trading)
    [] OTHER -> {Charge("account", <<"private-counter">>, 40000, q.counter, IF op \in {"history", "fills"} THEN 4 ELSE 1)}

\* Old fills are the dearest request; a cost above the limit is an error.
KrakenFuturesDefaults == [public |-> 20, points |-> 500]
KrakenFuturesAccepts(q) ==
  /\ q.public >= 1
  /\ q.points >= 25
KrakenFuturesCosts ==
  [place |-> 10, cancel |-> 10, query |-> 1, open |-> 2, fills |-> 25, balance |-> 2, positions |-> 2]
KrakenFuturesOps == {"markets", "ticker", "book", "trades", "candles"} \cup DOMAIN KrakenFuturesCosts
KrakenFuturesCharges(op, market, q) ==
  IF op \in PublicOps THEN One("route", <<"public">>, 1000, q.public)
  ELSE {Charge("account", <<"derivatives">>, 10000, q.points, KrakenFuturesCosts[op])}

GateioDefaults == [public |-> 200, private |-> 200, order |-> 10, cancel |-> 200]
GateioAccepts(q) ==
  /\ q.public >= 1
  /\ q.private >= 1
  /\ q.order >= 1
  /\ q.cancel >= 1
GateioOps == {"markets", "ticker", "book", "trades", "candles", "place", "cancel", "query", "open", "fills", "balance"}
GateioCharges(op, market, q) ==
  CASE op = "place" -> One("account", <<"spot-order", market>>, 1000, q.order)
    [] op = "cancel" -> One("account", <<"spot-cancel">>, 1000, q.cancel)
    [] op \in PublicOps -> One("route", <<"public", op>>, 10000, q.public)
    [] OTHER -> One("account", <<"private", op>>, 10000, q.private)

GateioFuturesDefaults == [public |-> 200, private |-> 200, order |-> 100, cancel |-> 200]
GateioFuturesAccepts(q) ==
  /\ q.public >= 1
  /\ q.private >= 1
  /\ q.order >= 1
  /\ q.cancel >= 1
GateioFuturesCharges(op, market, q) ==
  CASE op = "place" -> One("account", <<"futures-order">>, 1000, q.order)
    [] op = "cancel" -> One("account", <<"futures-cancel">>, 1000, q.cancel)
    [] op \in PublicOps -> One("route", <<"public", op>>, 10000, q.public)
    [] OTHER -> One("account", <<"private", op>>, 10000, q.private)

KucoinDefaults == [public |-> 2000, spot |-> 4000, management |-> 2000]
KucoinAccepts(q) ==
  /\ q.public >= 1
  /\ q.spot >= 1
  /\ q.management >= 1
KucoinWeights ==
  [markets |-> 4, ticker |-> 2, book |-> 2, trades |-> 3, candles |-> 3, public_token |-> 10,
   place |-> 1, cancel |-> 1, query |-> 2, open |-> 2, balance |-> 5, token |-> 10]
KucoinCharges(op, market, q) ==
  LET pool == IF op \in PublicOps THEN "public" ELSE IF op = "balance" THEN "management" ELSE "spot"
  IN {Charge(Scope(op), <<pool>>, 30000, q[pool], KucoinWeights[op])}

KucoinFuturesDefaults == [public |-> 2000, futures |-> 2000]
KucoinFuturesAccepts(q) ==
  /\ q.public >= 1
  /\ q.futures >= 1
KucoinFuturesWeights ==
  [markets |-> 3, ticker |-> 2, book |-> 5, trades |-> 5, candles |-> 3, public_token |-> 10,
   place |-> 2, cancel |-> 1, query |-> 5, open |-> 2, fills |-> 5, balance |-> 5, positions |-> 2, token |-> 10]
KucoinFuturesCharges(op, market, q) ==
  LET pool == IF op \in PublicOps THEN "public" ELSE "futures"
  IN {Charge(Scope(op), <<pool>>, 30000, q[pool], KucoinFuturesWeights[op])}

HtxDefaults == [public |-> 10, account |-> 100, order |-> 100, order_read |-> 50, trade_history |-> 20]
HtxAccepts(q) ==
  /\ q.public >= 1
  /\ q.account >= 1
  /\ q.order >= 1
  /\ q.order_read >= 1
  /\ q.trade_history >= 1
HtxOps == {"time", "markets", "ticker", "book", "trades", "candles", "place", "cancel", "query", "open", "history", "fills", "balance"}
HtxCharges(op, market, q) ==
  LET group == CASE op \in Mutations -> "order" [] op = "balance" -> "account"
                 [] op = "fills" -> "trade_history" [] OTHER -> "order_read"
  IN IF op \in PublicOps THEN One("route", <<"public", op>>, 1000, q.public)
     ELSE One("account", <<group>>, 2000, q[group])

MexcDefaults == [endpoint |-> 500, order |-> 5, cancel |-> 50, private_read |-> 50, account |-> 2]
MexcAccepts(q) ==
  /\ q.endpoint >= 1
  /\ q.order >= 1
  /\ q.cancel >= 1
  /\ q.private_read >= 1
  /\ q.account >= 1
MexcWeights ==
  [time |-> 1, markets |-> 10, ticker |-> 1, book |-> 1, trades |-> 5, candles |-> 1,
   place |-> 1, cancel |-> 1, query |-> 2, open |-> 3, history |-> 10, fills |-> 10, balance |-> 10, token |-> 1]
\* A private request weighs at least ten, on its route and on its account.
MexcCharges(op, market, q) ==
  LET frequency == CASE op = "place" -> "order" [] op = "cancel" -> "cancel"
                     [] op = "balance" -> "account" [] OTHER -> "private_read"
      weight == IF MexcWeights[op] < 10 THEN 10 ELSE MexcWeights[op]
  IN IF op \in PublicOps THEN {Charge("route", <<"public", op>>, 10000, q.endpoint, MexcWeights[op])}
     ELSE {Charge(scope, <<"private", op>>, 10000, q.endpoint, weight) : scope \in {"route", "account"}}
          \cup One("account", <<frequency>>, 1000, q[frequency])

CryptocomDefaults == [public |-> 100, order |-> 15, detail |-> 30, history |-> 1, other |-> 3]
CryptocomAccepts(q) ==
  /\ q.public \in 1 .. CryptocomDefaults.public
  /\ q.order \in 1 .. CryptocomDefaults.order
  /\ q.detail \in 1 .. CryptocomDefaults.detail
  /\ q.history \in 1 .. CryptocomDefaults.history
  /\ q.other \in 1 .. CryptocomDefaults.other
CryptocomOps == {"markets", "ticker", "book", "trades", "candles", "place", "cancel", "query", "open", "history", "fills", "balance"}
CryptocomCharges(op, market, q) ==
  CASE op \in PublicOps -> One("route", <<op>>, 1000, q.public)
    [] op \in Mutations -> One("account", <<op>>, 100, q.order)
    [] op = "query" -> One("account", <<op>>, 100, q.detail)
    [] op \in {"history", "fills"} -> One("account", <<op>>, 1000, q.history)
    [] OTHER -> One("account", <<op>>, 100, q.other)

KorbitDefaults == [public |-> 50, private |-> 50, order |-> 30]
KorbitAccepts(q) ==
  /\ q.public >= 1
  /\ q.private >= 1
  /\ q.order >= 1
KorbitOps == {"time", "markets", "ticker", "book", "trades", "candles", "place", "cancel", "query", "open", "history", "fills", "balance"}
KorbitCharges(op, market, q) ==
  CASE op \in PublicOps -> One("route", <<"public">>, 1000, q.public)
    [] op \in Mutations -> One("account", <<"order", op>>, 1000, q.order)
    [] OTHER -> One("account", <<"private">>, 1000, q.private)

CoinoneDefaults == [public |-> 1200, private |-> 80, order |-> 40]
CoinoneAccepts(q) ==
  /\ q.public >= 1
  /\ q.private >= 1
  /\ q.order >= 1
CoinoneCharges(op, market, q) ==
  CASE op \in PublicOps -> One("route", <<"public">>, 60000, q.public)
    [] op = "balance" -> One("account", <<"private">>, 1000, q.private)
    [] OTHER -> One("account", <<"order">>, 1000, q.order)

BithumbDefaults == [public |-> 150, private |-> 140, order |-> 140]
BithumbAccepts(q) ==
  /\ q.public >= 1
  /\ q.private >= 1
  /\ q.order >= 1
\* Private requests are charged to the route as well.
BithumbCharges(op, market, q) ==
  CASE op \in PublicOps -> One("route", <<"public", op>>, 1000, q.public)
    [] op \in Mutations -> One("route", <<"order", op>>, 1000, q.order)
    [] OTHER -> One("route", <<"private-other">>, 1000, q.private)
-----------------------------------------------------------------------------
(* Headers of an answer.  h.limit says whether the reported limit is the    *)
(* client's, h.remain is the requests left (-1: missing or unreadable),     *)
(* h.used the usage (-1 likewise), h.reset whether a time to wait is given. *)

\* What the limiter learns: usage of a rule, and whether to block it.
Lesson(key, used, block) == [key |-> key, used |-> used, block |-> block]
Left(h, limit) == h.remain >= 0 /\ h.remain <= limit

\* Mutant of BybitObserves: looks at the route whatever was charged.
BybitObservesRoute(op, charges, h) ==
  IF h.limit /\ Left(h, BybitLimits[op])
  THEN {Lesson(<<"route", <<BybitPath(op)>>, 1000>>, BybitLimits[op] - h.remain, FALSE)} ELSE {}

\* The key is put together again, from the scope of the caller.
BybitObserves(op, charges, h) ==
  IF h.limit /\ Left(h, BybitLimits[op])
  THEN {Lesson(<<Scope(op), <<BybitPath(op)>>, 1000>>, BybitLimits[op] - h.remain, FALSE)} ELSE {}
BitgetObserves(op, charges, h) ==
  IF Left(h, BitgetLimits[op])
  THEN {Lesson(<<Scope(op), <<op>>, 1000>>, BitgetLimits[op] - h.remain, FALSE)} ELSE {}

GateioObserves(op, charges, h) ==
  {Lesson(c.key, c.limit - h.remain, h.remain = 0 /\ h.reset) : c \in {c \in charges : h.limit /\ Left(h, c.limit)}}
GateioFuturesObserves(op, charges, h) ==
  {Lesson(c.key, c.limit - h.remain, h.remain = 0 /\ h.reset) : c \in {c \in charges : h.limit /\ Left(h, c.limit)}}
\* An unreadable number reads as zero requests left.
KucoinObserves(op, charges, h) ==
  {Lesson(c.key, IF h.limit /\ Left(h, c.limit) THEN c.limit - h.remain ELSE 0, h.remain \in {-1, 0} /\ h.reset) : c \in charges}
KucoinFuturesObserves(op, charges, h) ==
  {Lesson(c.key, IF h.limit /\ Left(h, c.limit) THEN c.limit - h.remain ELSE 0, h.remain \in {-1, 0} /\ h.reset) : c \in charges}
HtxObserves(op, charges, h) ==
  {Lesson(c.key, c.limit - h.remain, h.remain = 0 /\ h.reset) : c \in {c \in charges : Left(h, c.limit)}}
KorbitObserves(op, charges, h) ==
  {Lesson(c.key, c.limit - h.remain, FALSE) : c \in {c \in charges : Left(h, c.limit)}}
CoinoneObserves(op, charges, h) ==
  {Lesson(c.key, c.limit - h.remain, FALSE) : c \in {c \in charges : Left(h, c.limit)}}
UpbitObserves(op, charges, h) ==
  {Lesson(c.key, c.limit - h.remain, FALSE) : c \in {c \in charges : h.limit /\ Left(h, c.limit)}}

\* Reported usage: of the route always, of the account for signed requests;
\* the exchange reports order counts when an order is placed.
UsageKeys(op, windows) ==
  {<<"route", <<"weight">>, 60000>>} \cup {<<"account", <<"orders">>, w>> : w \in IF op = "place" THEN windows ELSE {}}
BinanceObserves(op, charges, h) ==
  {Lesson(key, h.used, FALSE) : key \in IF h.used >= 0 THEN UsageKeys(op, {10000, 86400000}) ELSE {}}
UsdmObserves(op, charges, h) ==
  {Lesson(key, h.used, FALSE) : key \in IF h.used >= 0 THEN UsageKeys(op, {10000, 60000}) ELSE {}}
=============================================================================
