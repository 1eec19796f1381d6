----------------------------- MODULE OrderCalls -----------------------------
(***************************************************************************)
(* The order calls of the REST clients: what placing, cancelling or        *)
(* querying an order makes of the answer, once RestErrors has read the     *)
(* envelope.  An answer has, besides the fields of RestErrors,             *)
(*   full  - the acknowledgement or order it must carry is there,          *)
(*   item  - the code of that item where it has one of its own,            *)
(*   match - the answer names the order that was asked about.              *)
(* Placing and cancelling are order mutations that need trade permission,  *)
(* querying is a read.                                                     *)
(***************************************************************************)
EXTENDS RestErrors, Sequences

Kind(op) == IF op = "query" THEN "read" ELSE op

Mutation(op) == op \in {"place", "cancel"}

\* The first rule that applies to a well-formed answer, Ok if none does.
Then(answer, rules) ==
  IF answer # Ok THEN answer ELSE FirstOf(Append(rules, <<TRUE, Ok>>))

OkxOrders(op, a) ==
  Then(OkxAnswer(a, Kind(op)),
       << <<op = "query" /\ ~a.full, OkxClassify(a.status, "51603", "read")>>,
          <<Mutation(op) /\ (~a.full \/ a.item = ""), OkxBody(a.status, op)>>,
          <<Mutation(op) /\ a.item # Success, OkxClassify(a.status, a.item, op)>> >>)

BybitOrders(op, a) ==
  Then(BybitAnswer(a, Kind(op)),
       << <<op = "query" /\ ~a.full, BybitClassify(a.status, "110001", "read")>>,
          <<~a.full, BybitBody(a, op)>> >>)

BitgetOrders(op, a) ==
  Then(BitgetAnswer(a, Kind(op)), << <<~a.full, BitgetBody(a.status, Kind(op))>> >>)

\* The body is the order: nothing further is looked for in it.
BinanceOrders(op, a) == BinanceAnswer(a, Kind(op))

UsdmOrders(op, a) == UsdmAnswer(a, Kind(op))

CoinbaseOrders(op, a) ==
  Then(CoinbaseAnswer(a, Kind(op)),
       << <<op = "place" /\ a.item # Success, CoinbaseClassify(a.status, a.item, op)>>,
          <<op # "cancel" /\ ~a.full, Open(Kind(op))>> >>)

KrakenOrders(op, a) ==
  Then(KrakenAnswer(a, Kind(op)), << <<Mutation(op) /\ ~a.full, Open(op)>> >>)

\* The status word of the item decides; there is no single-order query.
KrakenFuturesOrders(op, a) ==
  Then(KrakenFuturesAnswer(a, Kind(op)),
       << <<Mutation(op) /\ ~a.full, Open(op)>>,
          <<Mutation(op) /\ a.item # Success, KrakenFuturesClassify(a.status, a.item, op)>> >>)

GateioOrders(op, a) ==
  Then(GateioAnswer(a, Kind(op)), << <<Mutation(op) /\ ~a.full, GateioBody(a.status, op)>> >>)

GateioFuturesOrders(op, a) ==
  Then(GateioFuturesAnswer(a, Kind(op)), << <<Mutation(op) /\ ~a.full, GateioBody(a.status, op)>> >>)

KucoinOrders(op, a) ==
  Then(KucoinAnswer(a, Kind(op)), << <<Mutation(op) /\ ~a.full, KucoinBody(a.status, op)>> >>)

KucoinFuturesOrders(op, a) ==
  Then(KucoinFuturesAnswer(a, Kind(op)),
       << <<Mutation(op) /\ ~a.full, Unreadable(KucoinFuturesClassify(a.status, "", op), op)>> >>)

HtxOrders(op, a) ==
  Then(HtxAnswer(a, Kind(op)), << <<~a.full, HtxBody(a.status, Kind(op))>> >>)

MexcOrders(op, a) ==
  Then(MexcAnswer(a, Kind(op)), << <<~a.full, MexcBody(a.status, Kind(op))>> >>)

\* A receipt for another order is no receipt; a cancel needs no receipt.
CryptocomOrders(op, a) ==
  Then(CryptocomAnswer(a, Kind(op)),
       << <<op # "cancel" /\ ~a.full, Open(Kind(op))>>,
          <<~a.match, Open(Kind(op))>> >>)

KorbitOrders(op, a) ==
  Then(KorbitAnswer(a, Kind(op)), << <<op # "cancel" /\ ~a.full, KorbitBody(a.status, Kind(op))>> >>)

CoinoneOrders(op, a) ==
  Then(CoinoneAnswer(a, Kind(op)), << <<~a.full, CoinoneBody(a.status, Kind(op))>> >>)

BithumbOrders(op, a) == BithumbAnswer(a, Kind(op))

UpbitOrders(op, a) == UpbitAnswer(a, Kind(op))

(***************************************************************************)
(* What the unified adapters add to a call that went well: errors that     *)
(* carry no category.                                                      *)
(***************************************************************************)
GateioPlaced(a) == IF a.match THEN Ok ELSE Plain

MexcPlaced(a) == IF a.match THEN Ok ELSE Plain

KrakenPlaced(a) == IF a.match THEN Ok ELSE Plain

\* One result, for this order, that says it succeeded.
CoinbaseCancelled(a) == IF a.full /\ a.match /\ a.item = Success THEN Ok ELSE Plain

Adapted(v, op, a) ==
  CASE v = "gateio" /\ op = "place"    -> GateioPlaced(a)
    [] v = "mexc" /\ op = "place"      -> MexcPlaced(a)
    [] v = "kraken" /\ op = "place"    -> KrakenPlaced(a)
    [] v = "coinbase" /\ op = "cancel" -> CoinbaseCancelled(a)
    [] OTHER -> Ok

ClientOrders(v, op, a) ==
  CASE v = "okx" -> OkxOrders(op, a)
    [] v = "bybit" -> BybitOrders(op, a)
    [] v = "bitget" -> BitgetOrders(op, a)
    [] v = "binance" -> BinanceOrders(op, a)
    [] v = "usdm" -> UsdmOrders(op, a)
    [] v = "coinbase" -> CoinbaseOrders(op, a)
    [] v = "kraken" -> KrakenOrders(op, a)
    [] v = "kraken_futures" -> KrakenFuturesOrders(op, a)
    [] v = "gateio" -> GateioOrders(op, a)
    [] v = "gateio_futures" -> GateioFuturesOrders(op, a)
    [] v = "kucoin" -> KucoinOrders(op, a)
    [] v = "kucoin_futures" -> KucoinFuturesOrders(op, a)
    [] v = "htx" -> HtxOrders(op, a)
    [] v = "mexc" -> MexcOrders(op, a)
    [] v = "cryptocom" -> CryptocomOrders(op, a)
    [] v = "korbit" -> KorbitOrders(op, a)
    [] v = "coinone" -> CoinoneOrders(op, a)
    [] v = "bithumb" -> BithumbOrders(op, a)
    [] v = "upbit" -> UpbitOrders(op, a)

\* The outcome of an order call as its caller sees it.
OrderOutcome(v, op, a) ==
  LET outcome == ClientOrders(v, op, a) IN IF outcome = Ok THEN Adapted(v, op, a) ELSE outcome

(***************************************************************************)
(* What the exchanges send (modelled from the codes the clients know).     *)
(***************************************************************************)
CodesOf(v) ==
  CASE v = "okx" -> OkxCodes [] v = "bybit" -> BybitCodes [] v = "bitget" -> BitgetCodes
    [] v = "binance" -> BinanceCodes [] v = "usdm" -> UsdmCodes [] v = "coinbase" -> CoinbaseCodes
    [] v = "kraken" -> KrakenCodes [] v = "kraken_futures" -> KrakenFuturesCodes
    [] v \in {"gateio", "gateio_futures"} -> GateioCodes
    [] v = "kucoin" -> KucoinCodes [] v = "kucoin_futures" -> KucoinFuturesCodes
    [] v = "htx" -> HtxCodes [] v = "mexc" -> MexcCodes [] v = "cryptocom" -> CryptocomCodes
    [] v = "korbit" -> KorbitCodes [] v = "coinone" -> CoinoneCodes
    [] v = "bithumb" -> BithumbCodes [] v = "upbit" -> UpbitCodes

\* Exchanges whose body reports errors under any status, and those where the
\* item inside a successful envelope does.
Enveloped ==
  {"okx", "bybit", "bitget", "kraken", "kraken_futures", "kucoin", "kucoin_futures", "htx",
   "mexc", "cryptocom", "korbit", "coinone"}
Itemised == {"okx", "coinbase", "kraken_futures"}

Answer(status, code, json) ==
  [status |-> status, code |-> code, json |-> json, full |-> FALSE, item |-> "", match |-> TRUE]

Done == [Answer(200, Success, TRUE) EXCEPT !.full = TRUE, !.item = Success]

\* "other" is a code the client does not know.
RefusalCodes(v) ==
  UNION {CodesOf(v)[class] : class \in {"throttled", "auth", "denied", "funds"}} \cup {"other"}
    \cup (IF v = "usdm" THEN UsdmDeclined ELSE IF v = "korbit" THEN KorbitDeclined ELSE {})

\* Answers by which an exchange refuses a request it has not carried out.
Refusals(v) ==
  {Answer(s, c, TRUE) : s \in {400, 401, 403, 429} \cup (IF v \in Enveloped THEN {200} ELSE {}),
                        c \in RefusalCodes(v)}
    \cup {Answer(s, "", FALSE) : s \in {401, 403, 429}}
    \cup (IF v \notin Itemised THEN {}
          ELSE {[Done EXCEPT !.item = c] : c \in RefusalCodes(v)})

NotFoundAnswers(v) ==
  {Answer(s, c, TRUE) : s \in {400} \cup (IF v \in Enveloped THEN {200} ELSE {}), c \in CodesOf(v).notFound}
    \cup (IF v \in {"okx", "bybit"} THEN {[Done EXCEPT !.full = FALSE]} ELSE {})

\* Answers that say nothing about what was done: gateway errors, timeouts
\* and the codes for an overloaded or failing service.
Vague(v) ==
  {Answer(s, c, c # "") : s \in {500, 502, 503, 504}, c \in {""} \cup CodesOf(v).busy}
    \cup {Answer(s, c, TRUE) : s \in {400} \cup (IF v \in Enveloped THEN {200} ELSE {}),
                               c \in CodesOf(v).busy}
    \cup (IF v \in {"usdm", "cryptocom"} THEN {Answer(408, "", FALSE)} ELSE {})

\* Answers to a request that was carried out, damaged on the way.
DamageKinds == {"broken", "bare", "empty", "other", "coded5xx"}

Damaged(kind) ==
  CASE kind = "broken"   -> Answer(200, "", FALSE)
    [] kind = "bare"     -> Answer(200, "", TRUE)
    [] kind = "empty"    -> [Done EXCEPT !.full = FALSE]
    [] kind = "other"    -> [Done EXCEPT !.match = FALSE]
    [] kind = "coded5xx" -> Answer(500, "other", TRUE)
=============================================================================
