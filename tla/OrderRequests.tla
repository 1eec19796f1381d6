--------------------------- MODULE OrderRequests ---------------------------
(***************************************************************************)
(* The unified order request, what each adapter makes of it, and what each *)
(* exchange client accepts.  An amount is named by what it measures: a      *)
(* quantity of the base currency ("base"), an amount of the quote currency  *)
(* ("quote") or a price ("price"); "" is an absent field.  A native request *)
(* carries those names in the exchange's own fields:                       *)
(*   kind   - the native order type,                                       *)
(*   tif    - the native time in force, post - the post-only flag,         *)
(*   size   - the quantity field, funds - a separate field for the amount  *)
(*            to spend, unit - the field that says what size measures.     *)
(***************************************************************************)
EXTENDS Naturals, FiniteSets

Sides == {"buy", "sell"}

Request ==
  [side : Sides, type : {"limit", "market"}, tif : {"", "gtc", "ioc", "fok", "post_only"},
   quantity : {"", "base"}, quote : {"", "quote"}, price : {"", "price"},
   currency : {"KRW", "BTC"}]

\* unified.PlaceOrderRequest.Validate: a limit order names quantity and price,
\* a market buy the amount to spend, a market sell the quantity.
Validate(r) ==
  \/ /\ r.type = "limit"
     /\ r.quantity # "" /\ r.price # "" /\ r.quote = ""
  \/ /\ r.type = "market"
     /\ r.price = "" /\ r.tif = ""
     /\ IF r.side = "buy" THEN r.quote # "" /\ r.quantity = ""
                          ELSE r.quantity # "" /\ r.quote = ""

UnifiedRequests == {r \in Request : Validate(r)}

Native(side, kind) ==
  [side |-> side, kind |-> kind, tif |-> "", post |-> FALSE,
   size |-> "", funds |-> "", price |-> "", unit |-> ""]

Limit(r) == r.type = "limit"
Buy(r) == r.side = "buy"
BidAsk(side) == IF side = "buy" THEN "bid" ELSE "ask"
OrDefault(tif) == IF tif = "" THEN "gtc" ELSE tif

\* The common shape: separate fields for what is bought and what is spent.
Split(n, r) ==
  IF Limit(r) THEN [n EXCEPT !.size = r.quantity, !.price = r.price]
  ELSE IF Buy(r) THEN [n EXCEPT !.funds = r.quote]
  ELSE [n EXCEPT !.size = r.quantity]

\* One amount field, whatever it measures.
Single(n, r) ==
  IF Limit(r) THEN [n EXCEPT !.size = r.quantity, !.price = r.price]
  ELSE [n EXCEPT !.size = IF Buy(r) THEN r.quote ELSE r.quantity]

\* The order type carries the time in force of a limit order.
KindByTif(tif) == IF tif \in {"ioc", "fok", "post_only"} THEN tif ELSE "limit"

(***************************************************************************)
(* PlaceOrder of each adapter, up to the native request.                   *)
(***************************************************************************)
BinanceNative(r) ==
  LET maker == r.tif = "post_only"
      kind  == IF ~Limit(r) THEN "market" ELSE IF maker THEN "limit_maker" ELSE "limit"
      tif   == IF Limit(r) /\ ~maker THEN OrDefault(r.tif) ELSE ""
  IN [Split(Native(r.side, kind), r) EXCEPT !.tif = tif]

\* Mutant of OkxNative: without the field that says what the size measures.
OkxNativeNoUnit(r) ==
  Single(Native(r.side, IF Limit(r) THEN KindByTif(r.tif) ELSE "market"), r)

OkxNative(r) ==
  LET kind == IF Limit(r) THEN KindByTif(r.tif) ELSE "market"
      unit == IF Limit(r) THEN "" ELSE IF Buy(r) THEN "quote" ELSE "base"
  IN [Single(Native(r.side, kind), r) EXCEPT !.unit = unit]

BybitNative(r) ==
  LET unit == IF Limit(r) THEN "" ELSE IF Buy(r) THEN "quote" ELSE "base"
      tif  == IF Limit(r) THEN OrDefault(r.tif) ELSE ""
  IN [Single(Native(r.side, r.type), r) EXCEPT !.unit = unit, !.tif = tif]

BitgetNative(r) ==
  [Single(Native(r.side, r.type), r) EXCEPT !.tif = r.tif]

\* Exactly one order configuration is filled in; kind names it.
CoinbaseNative(r) ==
  LET kind == IF ~Limit(r) THEN "market_ioc"
              ELSE IF r.tif = "ioc" THEN "sor_limit_ioc"
              ELSE IF r.tif = "fok" THEN "limit_fok" ELSE "limit_gtc"
  IN [Split(Native(r.side, kind), r) EXCEPT !.post = Limit(r) /\ r.tif = "post_only"]

KrakenNative(r) ==
  LET post == Limit(r) /\ r.tif = "post_only"
      tif  == IF post THEN "gtc" ELSE IF r.tif = "gtc" THEN "" ELSE r.tif
  IN [Single(Native(r.side, r.type), r)
        EXCEPT !.tif = tif, !.post = post, !.unit = IF ~Limit(r) /\ Buy(r) THEN "quote" ELSE ""]

GateioNative(r) ==
  LET tif == IF ~Limit(r) THEN "ioc" ELSE IF r.tif = "post_only" THEN "poc" ELSE OrDefault(r.tif)
  IN [Single(Native(r.side, r.type), r) EXCEPT !.tif = tif]

KucoinNative(r) ==
  LET post == Limit(r) /\ r.tif = "post_only"
  IN [Split(Native(r.side, r.type), r) EXCEPT !.tif = IF post THEN "gtc" ELSE r.tif, !.post = post]

HtxNative(r) ==
  Single(Native(r.side, IF Limit(r) THEN KindByTif(r.tif) ELSE "market"), r)

MexcNative(r) ==
  Split(Native(r.side, IF Limit(r) THEN KindByTif(r.tif) ELSE "market"), r)

CryptocomNative(r) ==
  LET post == Limit(r) /\ r.tif = "post_only"
  IN [Split(Native(r.side, r.type), r) EXCEPT !.tif = IF post THEN "gtc" ELSE r.tif, !.post = post]

KorbitNative(r) ==
  [Split(Native(r.side, r.type), r) EXCEPT !.tif = r.tif]

\* Coinone knows no time in force besides the post-only flag; CoinoneTakes
\* refuses the rest before this request is made.
CoinoneNative(r) ==
  [Split(Native(r.side, r.type), r) EXCEPT !.post = Limit(r) /\ r.tif = "post_only"]

CoinoneTakes(r) == ~(Limit(r) /\ r.tif \in {"ioc", "fok"})

\* A market buy is an order of type "price" whose price field is the amount.
BithumbNative(r) ==
  LET n == Native(BidAsk(r.side), IF Limit(r) THEN "limit" ELSE IF Buy(r) THEN "price" ELSE "market") IN
  IF Limit(r) THEN [n EXCEPT !.size = r.quantity, !.price = r.price,
                             !.tif = IF r.tif = "gtc" THEN "" ELSE r.tif, !.unit = r.currency]
  ELSE IF Buy(r) THEN [n EXCEPT !.price = r.quote, !.unit = r.currency]
  ELSE [n EXCEPT !.size = r.quantity, !.unit = r.currency]

UpbitNative(r) == [BithumbNative(r) EXCEPT !.unit = ""]

(***************************************************************************)
(* PlaceOrderRequest.validate of each client.                              *)
(***************************************************************************)
BinanceValid(n) ==
  \/ n.kind = "limit" /\ n.tif # "" /\ n.size # "" /\ n.price # "" /\ n.funds = ""
  \/ n.kind = "market" /\ (n.size = "") # (n.funds = "") /\ n.price = "" /\ n.tif = ""
  \/ n.kind = "limit_maker" /\ n.size # "" /\ n.price # "" /\ n.tif = "" /\ n.funds = ""

OkxValid(n) ==
  /\ n.size # ""
  /\ (n.price # "") <=> (n.kind # "market")
  /\ n.unit # "" => n.kind = "market"

BybitValid(n) ==
  /\ n.size # ""
  /\ (n.price # "") <=> (n.kind = "limit")
  /\ n.unit # "" => n.kind = "market"

BitgetValid(n) ==
  /\ n.size # ""
  /\ (n.price # "") <=> (n.kind = "limit")
  /\ n.kind = "market" => n.tif = ""

CoinbaseValid(n) ==
  IF n.kind = "market_ioc" THEN (n.size = "") # (n.funds = "")
  ELSE n.size # "" /\ n.price # ""

KrakenValid(n) ==
  /\ n.size # ""
  /\ (n.price # "") <=> (n.kind = "limit")
  /\ n.post => n.kind = "limit" /\ n.tif \in {"", "gtc"}
  /\ n.unit # "" => n.kind = "market" /\ n.side = "buy"

GateioValid(n) ==
  /\ n.size # ""
  /\ \/ n.kind = "limit" /\ n.price # "" /\ n.tif \in {"gtc", "ioc", "poc", "fok"}
     \/ n.kind = "market" /\ n.price = "" /\ n.tif \in {"ioc", "fok"}

\* Limit orders of KuCoin and Crypto.com take the post-only flag only with a
\* resting time in force; a market buy names one amount, a sell its size.
KucoinValid(n) ==
  \/ /\ n.kind = "limit" /\ n.price # "" /\ n.size # "" /\ n.funds = ""
     /\ n.post => n.tif \in {"", "gtc"}
  \/ /\ n.kind = "market" /\ n.price = "" /\ n.tif = "" /\ ~n.post
     /\ IF n.side = "buy" THEN (n.size = "") # (n.funds = "") ELSE n.size # "" /\ n.funds = ""

HtxValid(n) ==
  /\ n.size # ""
  /\ (n.price # "") <=> (n.kind # "market")

MexcValid(n) ==
  \/ n.kind # "market" /\ n.size # "" /\ n.price # "" /\ n.funds = ""
  \/ /\ n.kind = "market" /\ n.price = ""
     /\ IF n.side = "buy" THEN n.funds # "" /\ n.size = "" ELSE n.size # "" /\ n.funds = ""

CryptocomValid(n) ==
  \/ /\ n.kind = "limit" /\ n.price # "" /\ n.size # "" /\ n.funds = ""
     /\ n.post => n.tif \in {"", "gtc"}
  \/ /\ n.kind = "market" /\ n.price = "" /\ n.tif = "" /\ ~n.post
     /\ IF n.side = "buy" THEN n.funds # "" /\ n.size = "" ELSE n.size # "" /\ n.funds = ""

KorbitValid(n) ==
  \/ n.kind = "limit" /\ n.price # "" /\ n.size # "" /\ n.funds = ""
  \/ /\ n.kind = "market" /\ n.price = "" /\ n.tif \in {"", "ioc"}
     /\ IF n.side = "buy" THEN n.funds # "" /\ n.size = "" ELSE n.size # "" /\ n.funds = ""

CoinoneValid(n) ==
  \/ n.kind = "limit" /\ n.price # "" /\ n.size # "" /\ n.funds = ""
  \/ /\ n.kind = "market" /\ n.price = "" /\ ~n.post
     /\ IF n.side = "buy" THEN n.funds # "" /\ n.size = "" ELSE n.size # "" /\ n.funds = ""

\* A time in force exists only for limit orders, on Bithumb only in KRW markets.
UpbitValid(n) ==
  \/ n.kind = "limit" /\ n.size # "" /\ n.price # ""
  \/ n.kind = "price" /\ n.side = "bid" /\ n.size = "" /\ n.price # "" /\ n.tif = ""
  \/ n.kind = "market" /\ n.side = "ask" /\ n.size # "" /\ n.price = "" /\ n.tif = ""

BithumbValid(n) ==
  /\ n.tif # "" => n.unit = "KRW"
  /\ \/ n.kind = "limit" /\ n.size # "" /\ n.price # ""
     \/ n.kind = "price" /\ n.side = "bid" /\ n.size = "" /\ n.price # "" /\ n.tif = ""
     \/ n.kind = "market" /\ n.side = "ask" /\ n.size # "" /\ n.price = "" /\ n.tif = ""
=============================================================================
