----------------------------- MODULE SpotProofs -----------------------------
(***************************************************************************)
(* Proofs about SpotOrders, for any number of placements and any exchanges *)
(* of the unified interface, that an order keeps its meaning, that a run    *)
(* leaves nothing behind, that a query finds what is there, and that        *)
(* placing an order implements ExecutionContract.                          *)
(***************************************************************************)
EXTENDS SpotOrders, FiniteSetTheorems, SequenceTheorems, TLAPS

(* The inductive invariant. *)

\* What is left of the requests of a call.
Todos(op) ==
  CASE op = "place"  -> {<<"place">>, <<"accounts", "place">>}
    [] op = "query"  -> {<<"query">>, <<"list_open", "list_closed">>, <<"list_closed">>, <<"find">>}
    [] op = "cancel" -> {<<"cancel">>, <<"find", "cancel">>}

\* Types, and which caller does what.
TypedInv ==
  /\ SpotTypeOK
  /\ \/ call = Idle
     \/ /\ call = [op |-> call.op, todo |-> call.todo, stage |-> call.stage, known |-> call.known,
                   seen |-> call.seen]
        /\ call.op \in {"place", "query", "cancel"} /\ call.todo \in Todos(call.op)
        /\ call.stage \in {"start", "sent", "served"} /\ call.known \in BOOLEAN
        /\ call.seen \in {"none"} \cup Standing
        /\ step \in Checks /\ call.op = OpOf(step)
  /\ caller = "smoke" => client \in SpotClients /\ attempt = 1
  /\ caller = "trader" => step \in {"place", "done"}

\* Nobody is told of an order before it is placed, and what is told is so.
ToldInv ==
  /\ step \in {"egress", "book", "place"} => told.status = "none"
  /\ FinalStatusIsTrue

\* What a read has seen and can no longer change; a query for an order that existed
\* finds it, be it in the second list.
QueryInv ==
  call # Idle =>
    /\ call.op = "place" => call.seen = "none"
    /\ call.seen \in Final => orders[1] = call.seen
    /\ call.op = "query" /\ call.known =>
         /\ orders[1] \in Standing
         /\ Head(call.todo) = "list_closed" => orders[1] \in Final
         /\ call.stage = "served" /\ call.seen = "none" => Head(call.todo) = "list_open" /\ orders[1] \in Final

\* Only a request that the adapter takes is sent.
AskedInv ==
  client \in SpotClients =>
    /\ asked \in UnifiedRequests
    /\ (\E i \in Attempts : orders[i] # "none") \/ (step = "place" /\ call # Idle) => Takes(client, asked)

\* Whatever the clients' tables make of the answers.
MeaningInv == TypedInv /\ ToldInv /\ QueryInv /\ AskedInv

\* The placement of this attempt has left.
Sent == step = "place" /\ call.stage \in {"sent", "served"} /\ Head(call.todo) = "place"

\* There is no such order and there will be none.
Unborn == {"none", "refused"}

\* Of all placements only the last one sent may have become an order; a caller that
\* was told of a failure has none.
PlacementInv ==
  /\ outcomes = [i \in Attempts |-> outcomes[i]]
  /\ \A i \in Attempts : i < attempt => orders[i] \in Unborn
  /\ \A i \in Attempts : i > attempt => orders[i] = "none" /\ outcomes[i] = Pending
  /\ step \in {"egress", "book", "place"} => outcomes[attempt] = Pending /\ (~Sent => orders[attempt] = "none")
  /\ Sent /\ call.stage = "sent" => orders[attempt] = "flight"
  /\ Sent /\ call.stage = "served" => orders[attempt] \notin {"none", "flight"}
  /\ \A i \in Attempts : Verdict(outcomes[i]) = "failed" => orders[i] \in Unborn

Gone == {"canceled", "expired", "rejected"}

\* What the runner has reported is so.
ReportInv ==
  /\ step = "done" /\ caller = "smoke" /\ report["cancel"] = "none" => orders[1] \in Unborn
  /\ step = "verify" => report["cancel"] # "none"
  /\ CleanupOutlivesCaller
  /\ report["verify"] # "none" => caller = "smoke" /\ step = "done"
  /\ report["verify"] = "passed" => orders[1] \in Gone

\* Where the tables are safe.
RunInv == PlacementInv /\ ReportInv
-----------------------------------------------------------------------------
(* Requests of a call. *)

\* The request in progress and the ones behind it.
LEMMA Heads ==
  ASSUME NEW op, NEW todo \in Todos(op), op \in {"place", "query", "cancel"}
  PROVE  /\ op = "place" => \/ todo = <<"place">> /\ Head(todo) = "place" /\ Len(todo) = 1
                            \/ Head(todo) = "accounts" /\ Len(todo) = 2 /\ Tail(todo) = <<"place">>
         /\ op = "query" => \/ Head(todo) \in {"query", "list_closed", "find"} /\ Len(todo) = 1
                            \/ Head(todo) = "list_open" /\ Len(todo) = 2 /\ Tail(todo) = <<"list_closed">>
         /\ op = "cancel" => \/ Head(todo) = "cancel" /\ Len(todo) = 1
                             \/ Head(todo) = "find" /\ Len(todo) = 2 /\ Tail(todo) = <<"cancel">>
         /\ todo # <<>>
<1>1. \A w : Head(<<w>>) = w /\ Len(<<w>>) = 1 /\ <<w>> # <<>>
  OBVIOUS
<1>2. \A w, u : Head(<<w, u>>) = w /\ Len(<<w, u>>) = 2 /\ <<w, u>> # <<>>
  OBVIOUS
<1>3. \A w, u : Tail(<<w, u>>) = <<u>>
  OBVIOUS
<1>4. CASE op = "place"
  <2>1. todo = <<"place">> \/ todo = <<"accounts", "place">>
    BY <1>4 DEF Todos
  <2>2. CASE todo = <<"place">>
    BY <1>4, <2>2, <1>1
  <2>3. CASE todo = <<"accounts", "place">>
    BY <1>4, <2>3, <1>2, <1>3
  <2>4. QED
    BY <2>1, <2>2, <2>3
<1>5. CASE op = "query"
  <2>1. \/ todo = <<"query">> \/ todo = <<"list_open", "list_closed">>
        \/ todo = <<"list_closed">> \/ todo = <<"find">>
    BY <1>5 DEF Todos
  <2>2. CASE todo \in {<<"query">>, <<"list_closed">>, <<"find">>}
    BY <1>5, <2>2, <1>1
  <2>3. CASE todo = <<"list_open", "list_closed">>
    BY <1>5, <2>3, <1>2, <1>3
  <2>4. QED
    BY <2>1, <2>2, <2>3
<1>6. CASE op = "cancel"
  <2>1. todo = <<"cancel">> \/ todo = <<"find", "cancel">>
    BY <1>6 DEF Todos
  <2>2. CASE todo = <<"cancel">>
    BY <1>6, <2>2, <1>1
  <2>3. CASE todo = <<"find", "cancel">>
    BY <1>6, <2>3, <1>2, <1>3
  <2>4. QED
    BY <2>1, <2>2, <2>3
<1>7. QED
  BY <1>4, <1>5, <1>6

\* A request put behind another one.
LEMMA TwoRequests ==
  ASSUME NEW S, NEW first \in S, NEW second \in S
  PROVE  <<first>> \o <<second>> = <<first, second>>
<1> DEFINE joined == <<first>> \o <<second>>
           both == <<first, second>>
<1>1. <<first>> \in Seq(S) /\ <<second>> \in Seq(S)
  OBVIOUS
<1>2. /\ Len(<<first>>) = 1 /\ <<first>>[1] = first
      /\ Len(<<second>>) = 1 /\ <<second>>[1] = second
  OBVIOUS
<1>3. joined \in Seq(S) /\ Len(joined) = 2 /\ joined[1] = first /\ joined[2] = second
  BY <1>1, <1>2, ConcatProperties
<1>4. both \in Seq(S) /\ Len(both) = 2 /\ both[1] = first /\ both[2] = second
  OBVIOUS
<1>5. \A i \in 1 .. 2 : joined[i] = both[i]
  BY <1>3, <1>4
<1> HIDE DEF joined, both
<1>6. joined = both
  BY <1>3, <1>4, <1>5, SeqEqual
<1>7. QED
  BY <1>6 DEF joined, both

\* A call begins with one of those lists of requests.
LEMMA FirstRequests ==
  ASSUME NEW op \in {"place", "query", "cancel"}
  PROVE  RequestsOf(op) \in Todos(op) /\ (op = "query" => Head(RequestsOf(op)) # "list_closed")
<1>1. CoinbaseResolve \o <<"cancel">> = <<"find", "cancel">>
  BY TwoRequests, "find" \in {"find", "cancel"}, "cancel" \in {"find", "cancel"} DEF CoinbaseResolve
<1>2. CASE op = "place"
  <2>1. RequestsOf(op) \in {<<"place">>, <<"accounts", "place">>}
    BY <1>2 DEF RequestsOf, HtxPlace
  <2>2. QED
    BY <1>2, <2>1 DEF Todos
<1>3. CASE op = "query"
  <2>1. RequestsOf(op) \in {<<"query">>, <<"list_open", "list_closed">>, <<"find">>}
    BY <1>3 DEF RequestsOf, KrakenResolve, CoinbaseResolve
  <2>2. \A w : Head(<<w>>) = w
    OBVIOUS
  <2>3. \A w, u : Head(<<w, u>>) = w
    OBVIOUS
  <2>4. Head(RequestsOf(op)) # "list_closed"
    <3>1. Head(<<"query">>) = "query" /\ Head(<<"find">>) = "find"
      BY <2>2
    <3>2. Head(<<"list_open", "list_closed">>) = "list_open"
      BY <2>3
    <3>3. QED
      BY <2>1, <3>1, <3>2
  <2>5. QED
    BY <1>3, <2>1, <2>4 DEF Todos
<1>4. CASE op = "cancel"
  <2>1. RequestsOf(op) \in {<<"cancel">>, <<"find", "cancel">>}
    BY <1>1, <1>4 DEF RequestsOf
  <2>2. QED
    BY <1>4, <2>1 DEF Todos
<1>5. QED
  BY <1>2, <1>3, <1>4

LEMMA PostOnlyIsUnified ==
  ASSUME NEW side \in Sides
  PROVE  PostOnly(side) \in UnifiedRequests
  BY DEF PostOnly, UnifiedRequests, Request, Validate, Sides

LEMMA SpotStart == SpotInit => MeaningInv /\ RunInv
<1> SUFFICES ASSUME SpotInit PROVE MeaningInv /\ RunInv
  OBVIOUS
<1>1. 1 \in Attempts /\ Attempts \subseteq Nat
  BY SpotAssumption DEF Attempts
<1>2. asked \in UnifiedRequests /\ asked \in Request
  BY PostOnlyIsUnified DEF SpotInit, Sides, UnifiedRequests
<1>3. SpotTypeOK
  BY <1>1, <1>2 DEF SpotInit, SpotTypeOK, Clients, Idle, Checks
<1>4. TypedInv
  <2>1. call = Idle
    BY DEF SpotInit
  <2>2. caller = "smoke" => client \in SpotClients /\ attempt = 1
    BY DEF SpotInit
  <2>3. caller = "trader" => step \in {"place", "done"}
    BY DEF SpotInit
  <2>4. QED
    BY <1>3, <2>1, <2>2, <2>3 DEF TypedInv
<1>5. PlacementInv
  <2>1. outcomes = [i \in Attempts |-> Pending] /\ orders = [i \in Attempts |-> "none"] /\ attempt = 1
    BY DEF SpotInit
  <2>2. Verdict(Pending) = "pending"
    BY DEF Verdict
  <2>3. ~Sent
    BY DEF SpotInit, Sent, Idle
  <2>4. QED
    BY <1>1, <2>1, <2>2, <2>3 DEF PlacementInv, Unborn
<1>6. ToldInv /\ ReportInv
  BY <1>1 DEF SpotInit, ToldInv, ReportInv, CleanupOutlivesCaller, FinalStatusIsTrue, IsTrue, Checks
<1>7. QueryInv /\ AskedInv
  BY <1>1, <1>2 DEF SpotInit, QueryInv, AskedInv
<1>8. QED
  BY <1>4, <1>5, <1>6, <1>7 DEF MeaningInv, RunInv
-----------------------------------------------------------------------------
(* Native requests say what was asked for. *)

\* The shapes of a request that passes validation.
LimitOrder(r) ==
  /\ r.type = "limit" /\ r.quantity = "base" /\ r.price = "price" /\ r.quote = ""
  /\ r.tif \in {"", "gtc", "ioc", "fok", "post_only"}
MarketBuy(r) ==
  /\ r.type = "market" /\ r.side = "buy" /\ r.quantity = "" /\ r.price = "" /\ r.quote = "quote" /\ r.tif = ""
MarketSell(r) ==
  /\ r.type = "market" /\ r.side = "sell" /\ r.quantity = "base" /\ r.price = "" /\ r.quote = "" /\ r.tif = ""

LEMMA Shapes ==
  ASSUME NEW r \in UnifiedRequests
  PROVE  r.side \in {"buy", "sell"} /\ (LimitOrder(r) \/ MarketBuy(r) \/ MarketSell(r))
  BY DEF UnifiedRequests, Request, Validate, LimitOrder, MarketBuy, MarketSell, Sides

\* What each shape must become.
SaysLimit(n, r) ==
  /\ ~OnMarket(n) /\ n.size = "base" /\ n.price = "price" /\ n.funds = ""
  /\ LifeTime(n) = OrDefault(r.tif)
SaysSpend(v, n) ==
  /\ OnMarket(n)
  /\ \/ Quoted(v, n) /\ n.size = "quote"
     \/ ~Quoted(v, n) /\ n.size = "" /\ n.kind # "price" /\ n.funds = "quote"
     \/ ~Quoted(v, n) /\ n.size = "" /\ n.kind = "price" /\ n.price = "quote"
SaysSell(v, n) == OnMarket(n) /\ ~Quoted(v, n) /\ n.size = "base" /\ n.kind # "price" /\ n.funds = ""

Expresses(v, n, r) ==
  /\ n.side = r.side \/ n.side = BidAsk(r.side)
  /\ LimitOrder(r) => SaysLimit(n, r)
  /\ MarketBuy(r) => SaysSpend(v, n)
  /\ MarketSell(r) => SaysSell(v, n)

LEMMA ExpressedMeaning ==
  ASSUME NEW v, NEW n, NEW r \in UnifiedRequests, Expresses(v, n, r)
  PROVE  Meaning(v, n) = Intent(r)
<1>1. r.side \in {"buy", "sell"}
  BY Shapes
<1>2. r.side = IF n.side \in {"buy", "bid"} THEN "buy" ELSE "sell"
  BY <1>1 DEF Expresses, BidAsk
<1>3. CASE LimitOrder(r)
  <2>1. Intent(r) = [side |-> r.side, type |-> "limit", tif |-> OrDefault(r.tif), base |-> "base", quote |-> "",
                     price |-> "price"]
    BY <1>3 DEF Intent, LimitOrder, Limit
  <2>2. Meaning(v, n) = [side |-> r.side, type |-> "limit", tif |-> LifeTime(n), base |-> "base", quote |-> "",
                         price |-> "price"]
    BY <1>2, <1>3 DEF Expresses, SaysLimit, Meaning, Quoted, OnMarket
  <2>3. QED
    BY <1>3, <2>1, <2>2 DEF Expresses, SaysLimit
<1>4. CASE MarketBuy(r)
  <2>1. Intent(r) = [side |-> "buy", type |-> "market", tif |-> "", base |-> "", quote |-> "quote", price |-> ""]
    BY <1>4 DEF Intent, MarketBuy, Limit
  <2>2. Meaning(v, n) = [side |-> "buy", type |-> "market", tif |-> "", base |-> "", quote |-> "quote", price |-> ""]
    <3>1. SaysSpend(v, n) /\ r.side = "buy"
      BY <1>4 DEF Expresses, MarketBuy
    <3>2. QED
      BY <1>2, <3>1 DEF SaysSpend, Meaning
  <2>3. QED
    BY <2>1, <2>2
<1>5. CASE MarketSell(r)
  <2>1. Intent(r) = [side |-> "sell", type |-> "market", tif |-> "", base |-> "base", quote |-> "", price |-> ""]
    BY <1>5 DEF Intent, MarketSell, Limit
  <2>2. Meaning(v, n) = [side |-> "sell", type |-> "market", tif |-> "", base |-> "base", quote |-> "", price |-> ""]
    <3>1. SaysSell(v, n) /\ r.side = "sell"
      BY <1>5 DEF Expresses, MarketSell
    <3>2. QED
      BY <1>2, <3>1 DEF SaysSell, Meaning
  <2>3. QED
    BY <2>1, <2>2
<1>6. QED
  BY <1>3, <1>4, <1>5, Shapes

LEMMA BinanceExpresses ==
  ASSUME NEW r \in UnifiedRequests
  PROVE  Expresses("binance", BinanceNative(r), r)
<1> DEFINE n == BinanceNative(r)
<1>1. (n.side = r.side \/ n.side = BidAsk(r.side)) /\ (LimitOrder(r) => SaysLimit(n, r))
  BY DEF BinanceNative, Split, Native, Limit, Buy, LimitOrder, SaysLimit, OnMarket, LifeTime, OrDefault
<1>2. MarketBuy(r) => SaysSpend("binance", n)
  BY DEF BinanceNative, Split, Native, Limit, Buy, MarketBuy, SaysSpend, OnMarket, Quoted
<1>3. MarketSell(r) => SaysSell("binance", n)
  BY DEF BinanceNative, Split, Native, Limit, Buy, MarketSell, SaysSell, OnMarket, Quoted
<1>4. QED
  BY <1>1, <1>2, <1>3 DEF Expresses

LEMMA OkxExpresses ==
  ASSUME NEW r \in UnifiedRequests
  PROVE  Expresses("okx", OkxNative(r), r)
<1> DEFINE n == OkxNative(r)
<1>1. (n.side = r.side \/ n.side = BidAsk(r.side)) /\ (LimitOrder(r) => SaysLimit(n, r))
  BY DEF OkxNative, Single, Native, Limit, Buy, KindByTif, LimitOrder, SaysLimit, OnMarket, LifeTime,
         OrDefault
<1>2. MarketBuy(r) => SaysSpend("okx", n)
  BY DEF OkxNative, Single, Native, Limit, Buy, MarketBuy, SaysSpend, OnMarket, Quoted
<1>3. MarketSell(r) => SaysSell("okx", n)
  BY DEF OkxNative, Single, Native, Limit, Buy, MarketSell, SaysSell, OnMarket, Quoted
<1>4. QED
  BY <1>1, <1>2, <1>3 DEF Expresses

LEMMA BybitExpresses ==
  ASSUME NEW r \in UnifiedRequests
  PROVE  Expresses("bybit", BybitNative(r), r)
<1> DEFINE n == BybitNative(r)
<1>1. (n.side = r.side \/ n.side = BidAsk(r.side)) /\ (LimitOrder(r) => SaysLimit(n, r))
  BY DEF BybitNative, Single, Native, Limit, Buy, LimitOrder, SaysLimit, OnMarket, LifeTime, OrDefault
<1>2. MarketBuy(r) => SaysSpend("bybit", n)
  BY DEF BybitNative, Single, Native, Limit, Buy, MarketBuy, SaysSpend, OnMarket, Quoted
<1>3. MarketSell(r) => SaysSell("bybit", n)
  BY DEF BybitNative, Single, Native, Limit, Buy, MarketSell, SaysSell, OnMarket, Quoted
<1>4. QED
  BY <1>1, <1>2, <1>3 DEF Expresses

LEMMA BitgetExpresses ==
  ASSUME NEW r \in UnifiedRequests
  PROVE  Expresses("bitget", BitgetNative(r), r)
<1> DEFINE n == BitgetNative(r)
<1>1. (n.side = r.side \/ n.side = BidAsk(r.side)) /\ (LimitOrder(r) => SaysLimit(n, r))
  BY DEF BitgetNative, Single, Native, Limit, Buy, LimitOrder, SaysLimit, OnMarket, LifeTime, OrDefault
<1>2. MarketBuy(r) => SaysSpend("bitget", n)
  BY DEF BitgetNative, Single, Native, Limit, Buy, MarketBuy, SaysSpend, OnMarket, Quoted
<1>3. MarketSell(r) => SaysSell("bitget", n)
  BY DEF BitgetNative, Single, Native, Limit, Buy, MarketSell, SaysSell, OnMarket, Quoted
<1>4. QED
  BY <1>1, <1>2, <1>3 DEF Expresses

LEMMA CoinbaseExpresses ==
  ASSUME NEW r \in UnifiedRequests
  PROVE  Expresses("coinbase", CoinbaseNative(r), r)
<1> DEFINE n == CoinbaseNative(r)
<1>1. (n.side = r.side \/ n.side = BidAsk(r.side)) /\ (LimitOrder(r) => SaysLimit(n, r))
  BY DEF CoinbaseNative, Split, Native, Limit, Buy, LimitOrder, SaysLimit, OnMarket, LifeTime, OrDefault
<1>2. MarketBuy(r) => SaysSpend("coinbase", n)
  BY DEF CoinbaseNative, Split, Native, Limit, Buy, MarketBuy, SaysSpend, OnMarket, Quoted
<1>3. MarketSell(r) => SaysSell("coinbase", n)
  BY DEF CoinbaseNative, Split, Native, Limit, Buy, MarketSell, SaysSell, OnMarket, Quoted
<1>4. QED
  BY <1>1, <1>2, <1>3 DEF Expresses

LEMMA KrakenExpresses ==
  ASSUME NEW r \in UnifiedRequests
  PROVE  Expresses("kraken", KrakenNative(r), r)
<1> DEFINE n == KrakenNative(r)
<1>1. (n.side = r.side \/ n.side = BidAsk(r.side)) /\ (LimitOrder(r) => SaysLimit(n, r))
  BY DEF KrakenNative, Single, Native, Limit, Buy, LimitOrder, SaysLimit, OnMarket, LifeTime, OrDefault
<1>2. MarketBuy(r) => SaysSpend("kraken", n)
  BY DEF KrakenNative, Single, Native, Limit, Buy, MarketBuy, SaysSpend, OnMarket, Quoted
<1>3. MarketSell(r) => SaysSell("kraken", n)
  BY DEF KrakenNative, Single, Native, Limit, Buy, MarketSell, SaysSell, OnMarket, Quoted
<1>4. QED
  BY <1>1, <1>2, <1>3 DEF Expresses

LEMMA GateioExpresses ==
  ASSUME NEW r \in UnifiedRequests
  PROVE  Expresses("gateio", GateioNative(r), r)
<1> DEFINE n == GateioNative(r)
<1>1. (n.side = r.side \/ n.side = BidAsk(r.side)) /\ (LimitOrder(r) => SaysLimit(n, r))
  BY DEF GateioNative, Single, Native, Limit, Buy, LimitOrder, SaysLimit, OnMarket, LifeTime, OrDefault
<1>2. MarketBuy(r) => SaysSpend("gateio", n)
  BY DEF GateioNative, Single, Native, Limit, Buy, MarketBuy, SaysSpend, OnMarket, Quoted
<1>3. MarketSell(r) => SaysSell("gateio", n)
  BY DEF GateioNative, Single, Native, Limit, Buy, MarketSell, SaysSell, OnMarket, Quoted
<1>4. QED
  BY <1>1, <1>2, <1>3 DEF Expresses

LEMMA KucoinExpresses ==
  ASSUME NEW r \in UnifiedRequests
  PROVE  Expresses("kucoin", KucoinNative(r), r)
<1> DEFINE n == KucoinNative(r)
<1>1. (n.side = r.side \/ n.side = BidAsk(r.side)) /\ (LimitOrder(r) => SaysLimit(n, r))
  BY DEF KucoinNative, Split, Native, Limit, Buy, LimitOrder, SaysLimit, OnMarket, LifeTime, OrDefault
<1>2. MarketBuy(r) => SaysSpend("kucoin", n)
  BY DEF KucoinNative, Split, Native, Limit, Buy, MarketBuy, SaysSpend, OnMarket, Quoted
<1>3. MarketSell(r) => SaysSell("kucoin", n)
  BY DEF KucoinNative, Split, Native, Limit, Buy, MarketSell, SaysSell, OnMarket, Quoted
<1>4. QED
  BY <1>1, <1>2, <1>3 DEF Expresses

LEMMA HtxExpresses ==
  ASSUME NEW r \in UnifiedRequests
  PROVE  Expresses("htx", HtxNative(r), r)
<1> DEFINE n == HtxNative(r)
<1>1. (n.side = r.side \/ n.side = BidAsk(r.side)) /\ (LimitOrder(r) => SaysLimit(n, r))
  BY DEF HtxNative, Single, Native, Limit, Buy, KindByTif, LimitOrder, SaysLimit, OnMarket, LifeTime,
         OrDefault
<1>2. MarketBuy(r) => SaysSpend("htx", n)
  BY DEF HtxNative, Single, Native, Limit, Buy, MarketBuy, SaysSpend, OnMarket, Quoted
<1>3. MarketSell(r) => SaysSell("htx", n)
  BY DEF HtxNative, Single, Native, Limit, Buy, MarketSell, SaysSell, OnMarket, Quoted
<1>4. QED
  BY <1>1, <1>2, <1>3 DEF Expresses

LEMMA MexcExpresses ==
  ASSUME NEW r \in UnifiedRequests
  PROVE  Expresses("mexc", MexcNative(r), r)
<1> DEFINE n == MexcNative(r)
<1>1. (n.side = r.side \/ n.side = BidAsk(r.side)) /\ (LimitOrder(r) => SaysLimit(n, r))
  BY DEF MexcNative, Split, Native, Limit, Buy, KindByTif, LimitOrder, SaysLimit, OnMarket, LifeTime,
         OrDefault
<1>2. MarketBuy(r) => SaysSpend("mexc", n)
  BY DEF MexcNative, Split, Native, Limit, Buy, MarketBuy, SaysSpend, OnMarket, Quoted
<1>3. MarketSell(r) => SaysSell("mexc", n)
  BY DEF MexcNative, Split, Native, Limit, Buy, MarketSell, SaysSell, OnMarket, Quoted
<1>4. QED
  BY <1>1, <1>2, <1>3 DEF Expresses

LEMMA CryptocomExpresses ==
  ASSUME NEW r \in UnifiedRequests
  PROVE  Expresses("cryptocom", CryptocomNative(r), r)
<1> DEFINE n == CryptocomNative(r)
<1>1. (n.side = r.side \/ n.side = BidAsk(r.side)) /\ (LimitOrder(r) => SaysLimit(n, r))
  BY DEF CryptocomNative, Split, Native, Limit, Buy, LimitOrder, SaysLimit, OnMarket, LifeTime,
         OrDefault
<1>2. MarketBuy(r) => SaysSpend("cryptocom", n)
  BY DEF CryptocomNative, Split, Native, Limit, Buy, MarketBuy, SaysSpend, OnMarket, Quoted
<1>3. MarketSell(r) => SaysSell("cryptocom", n)
  BY DEF CryptocomNative, Split, Native, Limit, Buy, MarketSell, SaysSell, OnMarket, Quoted
<1>4. QED
  BY <1>1, <1>2, <1>3 DEF Expresses

LEMMA KorbitExpresses ==
  ASSUME NEW r \in UnifiedRequests
  PROVE  Expresses("korbit", KorbitNative(r), r)
<1> DEFINE n == KorbitNative(r)
<1>1. (n.side = r.side \/ n.side = BidAsk(r.side)) /\ (LimitOrder(r) => SaysLimit(n, r))
  BY DEF KorbitNative, Split, Native, Limit, Buy, LimitOrder, SaysLimit, OnMarket, LifeTime, OrDefault
<1>2. MarketBuy(r) => SaysSpend("korbit", n)
  BY DEF KorbitNative, Split, Native, Limit, Buy, MarketBuy, SaysSpend, OnMarket, Quoted
<1>3. MarketSell(r) => SaysSell("korbit", n)
  BY DEF KorbitNative, Split, Native, Limit, Buy, MarketSell, SaysSell, OnMarket, Quoted
<1>4. QED
  BY <1>1, <1>2, <1>3 DEF Expresses

LEMMA CoinoneExpresses ==
  ASSUME NEW r \in UnifiedRequests, CoinoneTakes(r)
  PROVE  Expresses("coinone", CoinoneNative(r), r)
<1> DEFINE n == CoinoneNative(r)
<1>1. (n.side = r.side \/ n.side = BidAsk(r.side)) /\ (LimitOrder(r) => SaysLimit(n, r))
  BY DEF CoinoneNative, Split, Native, Limit, Buy, CoinoneTakes, LimitOrder, SaysLimit, OnMarket,
         LifeTime, OrDefault
<1>2. MarketBuy(r) => SaysSpend("coinone", n)
  BY DEF CoinoneNative, Split, Native, Limit, Buy, MarketBuy, SaysSpend, OnMarket, Quoted
<1>3. MarketSell(r) => SaysSell("coinone", n)
  BY DEF CoinoneNative, Split, Native, Limit, Buy, MarketSell, SaysSell, OnMarket, Quoted
<1>4. QED
  BY <1>1, <1>2, <1>3 DEF Expresses

LEMMA BithumbExpresses ==
  ASSUME NEW r \in UnifiedRequests
  PROVE  Expresses("bithumb", BithumbNative(r), r)
<1> DEFINE n == BithumbNative(r)
<1>1. (n.side = r.side \/ n.side = BidAsk(r.side)) /\ (LimitOrder(r) => SaysLimit(n, r))
  BY DEF BithumbNative, Native, Limit, Buy, BidAsk, LimitOrder, SaysLimit, OnMarket, LifeTime, OrDefault
<1>2. MarketBuy(r) => SaysSpend("bithumb", n)
  BY DEF BithumbNative, Native, Limit, Buy, BidAsk, MarketBuy, SaysSpend, OnMarket, Quoted
<1>3. MarketSell(r) => SaysSell("bithumb", n)
  BY DEF BithumbNative, Native, Limit, Buy, BidAsk, MarketSell, SaysSell, OnMarket, Quoted
<1>4. QED
  BY <1>1, <1>2, <1>3 DEF Expresses

LEMMA UpbitExpresses ==
  ASSUME NEW r \in UnifiedRequests
  PROVE  Expresses("upbit", UpbitNative(r), r)
<1> DEFINE n == UpbitNative(r)
<1>1. (n.side = r.side \/ n.side = BidAsk(r.side)) /\ (LimitOrder(r) => SaysLimit(n, r))
  BY DEF UpbitNative, BithumbNative, Native, Limit, Buy, BidAsk, LimitOrder, SaysLimit, OnMarket,
         LifeTime, OrDefault
<1>2. MarketBuy(r) => SaysSpend("upbit", n)
  BY DEF UpbitNative, BithumbNative, Native, Limit, Buy, BidAsk, MarketBuy, SaysSpend, OnMarket, Quoted
<1>3. MarketSell(r) => SaysSell("upbit", n)
  BY DEF UpbitNative, BithumbNative, Native, Limit, Buy, BidAsk, MarketSell, SaysSell, OnMarket, Quoted
<1>4. QED
  BY <1>1, <1>2, <1>3 DEF Expresses

\* No adapter puts an amount into the wrong field, swaps the sides or changes the life
\* time of an order it takes.
LEMMA NativeMeaning ==
  ASSUME NEW v \in Unified, NEW r \in UnifiedRequests, v = "coinone" => CoinoneTakes(r)
  PROVE  Meaning(v, NativeOf(v, r)) = Intent(r)
<1>1. SUFFICES Expresses(v, NativeOf(v, r), r)
  BY ExpressedMeaning
<1>2. CASE v = "binance"
  BY <1>2, BinanceExpresses DEF NativeOf
<1>3. CASE v = "okx"
  BY <1>3, OkxExpresses DEF NativeOf
<1>4. CASE v = "bybit"
  BY <1>4, BybitExpresses DEF NativeOf
<1>5. CASE v = "bitget"
  BY <1>5, BitgetExpresses DEF NativeOf
<1>6. CASE v = "coinbase"
  BY <1>6, CoinbaseExpresses DEF NativeOf
<1>7. CASE v = "kraken"
  BY <1>7, KrakenExpresses DEF NativeOf
<1>8. CASE v = "gateio"
  BY <1>8, GateioExpresses DEF NativeOf
<1>9. CASE v = "kucoin"
  BY <1>9, KucoinExpresses DEF NativeOf
<1>10. CASE v = "htx"
  BY <1>10, HtxExpresses DEF NativeOf
<1>11. CASE v = "mexc"
  BY <1>11, MexcExpresses DEF NativeOf
<1>12. CASE v = "cryptocom"
  BY <1>12, CryptocomExpresses DEF NativeOf
<1>13. CASE v = "korbit"
  BY <1>13, KorbitExpresses DEF NativeOf
<1>14. CASE v = "coinone"
  BY <1>14, CoinoneExpresses DEF NativeOf
<1>15. CASE v = "bithumb"
  BY <1>15, BithumbExpresses DEF NativeOf
<1>16. CASE v = "upbit"
  BY <1>16, UpbitExpresses DEF NativeOf
<1>17. QED
  BY <1>2, <1>3, <1>4, <1>5, <1>6, <1>7, <1>8, <1>9, <1>10, <1>11, <1>12, <1>13, <1>14, <1>15, <1>16 DEF Unified
-----------------------------------------------------------------------------
(* A final status that an adapter reads is the state the exchange meant. *)

LEMMA BinanceStatuses ==
  ASSUME NEW s \in Standing, NEW w \in NativeWords["binance"][s]
  PROVE  IsTrue(BinanceStatus(w, Executed(s)), s) /\ BinanceStatus(w, Executed(s)) # "missing"
  BY DEF Standing, Live, Final, NativeWords, BinanceStatus, Lookup, LiveStatus, Executed, IsTrue

LEMMA OkxStatuses ==
  ASSUME NEW s \in Standing, NEW w \in NativeWords["okx"][s]
  PROVE  IsTrue(OkxStatus(w, Executed(s)), s) /\ OkxStatus(w, Executed(s)) # "missing"
  BY DEF Standing, Live, Final, NativeWords, OkxStatus, Lookup, LiveStatus, Executed, IsTrue

LEMMA BybitStatuses ==
  ASSUME NEW s \in Standing, NEW w \in NativeWords["bybit"][s]
  PROVE  IsTrue(BybitStatus(w, Executed(s)), s) /\ BybitStatus(w, Executed(s)) # "missing"
  BY DEF Standing, Live, Final, NativeWords, BybitStatus, Lookup, LiveStatus, Executed, IsTrue

LEMMA BitgetStatuses ==
  ASSUME NEW s \in Standing, NEW w \in NativeWords["bitget"][s]
  PROVE  IsTrue(BitgetStatus(w, Executed(s)), s) /\ BitgetStatus(w, Executed(s)) # "missing"
  BY DEF Standing, Live, Final, NativeWords, BitgetStatus, Lookup, LiveStatus, Executed, IsTrue

LEMMA CoinbaseStatuses ==
  ASSUME NEW s \in Standing, NEW w \in NativeWords["coinbase"][s]
  PROVE  IsTrue(CoinbaseStatus(w, Executed(s)), s) /\ CoinbaseStatus(w, Executed(s)) # "missing"
  BY DEF Standing, Live, Final, NativeWords, CoinbaseStatus, Lookup, LiveStatus, Executed, IsTrue

LEMMA KrakenStatuses ==
  ASSUME NEW s \in Standing, NEW w \in NativeWords["kraken"][s]
  PROVE  IsTrue(KrakenStatus(w, Executed(s)), s) /\ KrakenStatus(w, Executed(s)) # "missing"
  BY DEF Standing, Live, Final, NativeWords, KrakenStatus, Lookup, LiveStatus, Executed, IsTrue

LEMMA GateioStatuses ==
  ASSUME NEW s \in Standing, NEW w \in NativeWords["gateio"][s]
  PROVE  IsTrue(GateioStatus(w, Executed(s)), s) /\ GateioStatus(w, Executed(s)) # "missing"
  BY DEF Standing, Live, Final, NativeWords, GateioStatus, Lookup, LiveStatus, Executed, IsTrue

LEMMA KucoinStatuses ==
  ASSUME NEW s \in Standing, NEW w \in NativeWords["kucoin"][s]
  PROVE  IsTrue(KucoinStatus(w, Executed(s)), s) /\ KucoinStatus(w, Executed(s)) # "missing"
  BY DEF Standing, Live, Final, NativeWords, KucoinStatus, Lookup, LiveStatus, Executed, IsTrue

LEMMA HtxStatuses ==
  ASSUME NEW s \in Standing, NEW w \in NativeWords["htx"][s]
  PROVE  IsTrue(HtxStatus(w, Executed(s)), s) /\ HtxStatus(w, Executed(s)) # "missing"
  BY DEF Standing, Live, Final, NativeWords, HtxStatus, Lookup, LiveStatus, Executed, IsTrue

LEMMA MexcStatuses ==
  ASSUME NEW s \in Standing, NEW w \in NativeWords["mexc"][s]
  PROVE  IsTrue(MexcStatus(w, Executed(s)), s) /\ MexcStatus(w, Executed(s)) # "missing"
  BY DEF Standing, Live, Final, NativeWords, MexcStatus, Lookup, LiveStatus, Executed, IsTrue

LEMMA CryptocomStatuses ==
  ASSUME NEW s \in Standing, NEW w \in NativeWords["cryptocom"][s]
  PROVE  IsTrue(CryptocomStatus(w, Executed(s)), s) /\ CryptocomStatus(w, Executed(s)) # "missing"
  BY DEF Standing, Live, Final, NativeWords, CryptocomStatus, Lookup, LiveStatus, Executed, IsTrue

LEMMA KorbitStatuses ==
  ASSUME NEW s \in Standing, NEW w \in NativeWords["korbit"][s]
  PROVE  IsTrue(KorbitStatus(w, Executed(s)), s) /\ KorbitStatus(w, Executed(s)) # "missing"
  BY DEF Standing, Live, Final, NativeWords, KorbitStatus, Lookup, LiveStatus, Executed, IsTrue

LEMMA CoinoneStatuses ==
  ASSUME NEW s \in Standing, NEW w \in NativeWords["coinone"][s]
  PROVE  IsTrue(CoinoneStatus(w, Executed(s)), s) /\ CoinoneStatus(w, Executed(s)) # "missing"
  BY DEF Standing, Live, Final, NativeWords, CoinoneStatus, Lookup, LiveStatus, Executed, IsTrue

LEMMA BithumbStatuses ==
  ASSUME NEW s \in Standing, NEW w \in NativeWords["bithumb"][s]
  PROVE  IsTrue(BithumbStatus(w, Executed(s)), s) /\ BithumbStatus(w, Executed(s)) # "missing"
  BY DEF Standing, Live, Final, NativeWords, BithumbStatus, Lookup, LiveStatus, Executed, IsTrue

LEMMA UpbitStatuses ==
  ASSUME NEW s \in Standing, NEW w \in NativeWords["upbit"][s]
  PROVE  IsTrue(UpbitStatus(w, Executed(s)), s) /\ UpbitStatus(w, Executed(s)) # "missing"
  BY DEF Standing, Live, Final, NativeWords, UpbitStatus, Lookup, LiveStatus, Executed, IsTrue

LEMMA StatusesAreTrue ==
  ASSUME NEW v \in Unified, NEW s \in Standing, NEW w \in NativeWords[v][s]
  PROVE  IsTrue(StatusOf(v, w, Executed(s)), s) /\ StatusOf(v, w, Executed(s)) # "missing"
<1>1. CASE v = "binance"
  BY <1>1, BinanceStatuses DEF StatusOf
<1>2. CASE v = "okx"
  BY <1>2, OkxStatuses DEF StatusOf
<1>3. CASE v = "bybit"
  BY <1>3, BybitStatuses DEF StatusOf
<1>4. CASE v = "bitget"
  BY <1>4, BitgetStatuses DEF StatusOf
<1>5. CASE v = "coinbase"
  BY <1>5, CoinbaseStatuses DEF StatusOf
<1>6. CASE v = "kraken"
  BY <1>6, KrakenStatuses DEF StatusOf
<1>7. CASE v = "gateio"
  BY <1>7, GateioStatuses DEF StatusOf
<1>8. CASE v = "kucoin"
  BY <1>8, KucoinStatuses DEF StatusOf
<1>9. CASE v = "htx"
  BY <1>9, HtxStatuses DEF StatusOf
<1>10. CASE v = "mexc"
  BY <1>10, MexcStatuses DEF StatusOf
<1>11. CASE v = "cryptocom"
  BY <1>11, CryptocomStatuses DEF StatusOf
<1>12. CASE v = "korbit"
  BY <1>12, KorbitStatuses DEF StatusOf
<1>13. CASE v = "coinone"
  BY <1>13, CoinoneStatuses DEF StatusOf
<1>14. CASE v = "bithumb"
  BY <1>14, BithumbStatuses DEF StatusOf
<1>15. CASE v = "upbit"
  BY <1>15, UpbitStatuses DEF StatusOf
<1>16. QED
  BY <1>1, <1>2, <1>3, <1>4, <1>5, <1>6, <1>7, <1>8, <1>9, <1>10, <1>11, <1>12, <1>13, <1>14, <1>15 DEF Unified
-----------------------------------------------------------------------------
(* Steps keep the meaning of what is asked and told, whatever the tables say. *)

\* Orders only move on: a final state is final, and there is no way back.
OnwardsOrders ==
  /\ orders' \in [Attempts -> {"none", "flight", "refused"} \cup Standing]
  /\ orders[1] \in Final => orders'[1] = orders[1]
  /\ orders[1] \in Standing => orders'[1] \in Standing
  /\ \A i \in Attempts : orders'[i] # "none" => orders[i] # "none"

LEMMA SameOrders ==
  ASSUME MeaningInv, orders' = orders
  PROVE  OnwardsOrders
  BY DEF MeaningInv, TypedInv, SpotTypeOK, OnwardsOrders

LEMMA FirstAttempt == 1 \in Attempts /\ Attempts \subseteq Nat /\ \A i \in Attempts : i <= MaxAttempts
  BY SpotAssumption DEF Attempts

\* What was told stays so.
LEMMA StillTold ==
  ASSUME ToldInv, OnwardsOrders, told' = told
  PROVE  FinalStatusIsTrue'
<1>1. IsTrue(told.status, orders[1])
  BY DEF ToldInv, FinalStatusIsTrue
<1>2. CASE told.status \in {"filled", "canceled", "expired", "rejected"}
  <2>1. orders[1] \in Final
    BY <1>1, <1>2 DEF IsTrue, Final
  <2>2. QED
    BY <1>1, <2>1 DEF OnwardsOrders, FinalStatusIsTrue
<1>3. CASE told.status \notin {"filled", "canceled", "expired", "rejected"}
  BY <1>3 DEF FinalStatusIsTrue, IsTrue
<1>4. QED
  BY <1>2, <1>3

\* The end of a call.
LEMMA ConcludeKeepsMeaning ==
  ASSUME MeaningInv, step \in Checks, NEW o, NEW named, NEW status, NEW filled,
         Conclude(o, named, status, filled), UNCHANGED <<fixed, stopped, orders, cancelling>>,
         step \in {"query", "verify"} /\ o = Ok => IsTrue(status, orders[1])
  PROVE  MeaningInv'
<1>1. caller \in {"smoke", "trader"} /\ attempt \in Attempts
  BY DEF MeaningInv, TypedInv, SpotTypeOK
<1>2. /\ step' \in {"done"} \cup Checks
      /\ attempt' \in Attempts
      /\ caller = "smoke" => attempt' = attempt
      /\ caller = "trader" => step' \in {"place", "done"}
      /\ step' = "place" => told' = told /\ step = "place"
      /\ told' = told \/ (step \in {"query", "verify"} /\ told' = Says(o, status, filled))
  <2>1. CASE caller = "trader"
    <3>1. Retried(o) /\ step = "place"
      BY <2>1 DEF Conclude, MeaningInv, TypedInv, Checks
    <3>2. attempt < MaxAttempts => attempt + 1 \in Attempts
      BY <1>1, SpotAssumption DEF Attempts
    <3>3. QED
      BY <1>1, <2>1, <3>1, <3>2 DEF Retried, Checks
  <2>2. CASE caller = "smoke"
    <3>1. CASE step = "place"
      <4>1. Placed(o, named)
        BY <2>2, <3>1 DEF Conclude
      <4>2. QED
        BY <1>1, <2>2, <3>1, <4>1 DEF Placed, Checks
    <3>2. CASE step = "query"
      <4>1. Queried(o, status, filled)
        BY <2>2, <3>2 DEF Conclude
      <4>2. QED
        BY <1>1, <2>2, <3>2, <4>1 DEF Queried, Checks
    <3>3. CASE step = "cancel"
      <4>1. Cancelled(o)
        BY <2>2, <3>3 DEF Conclude
      <4>2. QED
        BY <1>1, <2>2, <3>3, <4>1 DEF Cancelled, Checks
    <3>4. CASE step = "verify"
      <4>1. Verified(o, status, filled)
        BY <2>2, <3>4 DEF Conclude
      <4>2. QED
        BY <1>1, <2>2, <3>4, <4>1 DEF Verified, Checks
    <3>5. QED
      BY <3>1, <3>2, <3>3, <3>4 DEF Checks
  <2>3. QED
    BY <1>1, <2>1, <2>2
<1>3. report' \in [Checks -> {"none", "passed", "failed", "canceled"}]
  <2>1. report \in [Checks -> {"none", "passed", "failed", "canceled"}]
    BY DEF MeaningInv, TypedInv, SpotTypeOK
  <2>2. \A proven : Result(o, proven) \in {"passed", "failed", "canceled"}
    BY DEF Result
  <2>3. CASE caller = "trader"
    BY <2>1, <2>3 DEF Conclude, Retried, MeaningInv, TypedInv
  <2>4. CASE caller = "smoke"
    <3>1. \E proven : report' = [report EXCEPT ![step] = Result(o, proven)]
      <4>1. CASE step = "place"
        BY <2>4, <4>1 DEF Conclude, Placed
      <4>2. CASE step = "query"
        BY <2>4, <4>2 DEF Conclude, Queried, Mark
      <4>3. CASE step = "cancel"
        BY <2>4, <4>3 DEF Conclude, Cancelled, Mark
      <4>4. CASE step = "verify"
        BY <2>4, <4>4 DEF Conclude, Verified, Mark
      <4>5. QED
        BY <4>1, <4>2, <4>3, <4>4 DEF Checks
    <3>2. QED
      BY <2>1, <2>2, <3>1
  <2>5. QED
    BY <1>1, <2>3, <2>4
<1>4. call' = Idle
  BY DEF Conclude
<1>5. TypedInv'
  <2>1. SpotTypeOK'
    BY <1>2, <1>3, <1>4 DEF MeaningInv, TypedInv, SpotTypeOK, fixed, Idle
  <2>2. caller' = caller /\ client' = client
    BY DEF fixed
  <2>3. QED
    BY <1>2, <1>4, <2>1, <2>2 DEF MeaningInv, TypedInv
<1>6. ToldInv'
  <2>1. CASE told' = told
    <3>1. FinalStatusIsTrue'
      BY <2>1, SameOrders, StillTold DEF MeaningInv
    <3>2. step' \in {"egress", "book", "place"} => step = "place"
      BY <1>2 DEF Checks
    <3>3. QED
      BY <2>1, <3>1, <3>2 DEF MeaningInv, ToldInv
  <2>2. CASE told' = Says(o, status, filled) /\ step \in {"query", "verify"}
    <3>1. IsTrue(told'.status, orders'[1])
      BY <2>2 DEF Says, IsTrue
    <3>2. step' \notin {"egress", "book", "place"}
      BY <1>2, <2>2 DEF Checks
    <3>3. QED
      BY <3>1, <3>2 DEF ToldInv, FinalStatusIsTrue
  <2>3. QED
    BY <1>2, <2>1, <2>2
<1>7. QueryInv'
  BY <1>4 DEF QueryInv
<1>8. AskedInv'
  BY <1>4 DEF MeaningInv, AskedInv, fixed
<1>9. QED
  BY <1>5, <1>6, <1>7, <1>8 DEF MeaningInv

\* A step of the exchange, or a new stage of the call in progress.
LEMMA OnwardsKeepsMeaning ==
  ASSUME MeaningInv, UNCHANGED <<fixed, step, attempt, report, told>>, OnwardsOrders,
         cancelling' \in {"none", "flight", "accepted", "refused"},
         \/ call' = call
         \/ \E stage \in {"start", "sent", "served"} : call # Idle /\ call.op # "query" /\ call' = [call EXCEPT !.stage = stage]
  PROVE  MeaningInv'
<1>1. /\ call' = call
      \/ /\ call # Idle /\ call' # Idle
         /\ call' = [op |-> call.op, todo |-> call.todo, stage |-> call'.stage, known |-> call.known,
                     seen |-> call.seen]
         /\ call.op # "query" /\ call'.stage \in {"start", "sent", "served"}
  <2>1. SUFFICES ASSUME call # Idle, call.op # "query", NEW stage \in {"start", "sent", "served"},
                        call' = [call EXCEPT !.stage = stage]
                 PROVE  /\ call' = [op |-> call.op, todo |-> call.todo, stage |-> call'.stage, known |-> call.known,
                                    seen |-> call.seen]
                        /\ call' # Idle /\ call'.stage \in {"start", "sent", "served"}
    OBVIOUS
  <2>2. call = [op |-> call.op, todo |-> call.todo, stage |-> call.stage, known |-> call.known,
                seen |-> call.seen]
    BY <2>1 DEF MeaningInv, TypedInv
  <2>3. QED
    BY <2>1, <2>2 DEF Idle
<1>2. TypedInv'
  <2>1. SpotTypeOK'
    <3>1. call'.stage \in {"idle", "start", "sent", "served"} /\ (call'.stage # "idle" => call'.todo # <<>>)
      <4>1. call.stage \in {"idle", "start", "sent", "served"} /\ (call.stage # "idle" => call.todo # <<>>)
        BY DEF MeaningInv, TypedInv, SpotTypeOK
      <4>2. CASE call' = call
        BY <4>1, <4>2
      <4>3. CASE call' # call
        <5>1. call.stage # "idle" /\ call'.todo = call.todo /\ call'.stage \in {"start", "sent", "served"}
          BY <1>1, <4>3 DEF MeaningInv, TypedInv
        <5>2. QED
          BY <4>1, <5>1
      <4>4. QED
        BY <4>2, <4>3
    <3>2. QED
      BY <3>1 DEF MeaningInv, TypedInv, SpotTypeOK, OnwardsOrders, fixed
  <2>2. caller' = caller /\ client' = client
    BY DEF fixed
  <2>3. CASE call' = call
    BY <2>1, <2>2, <2>3 DEF MeaningInv, TypedInv
  <2>4. CASE call' # call
    <3>1. /\ call'.op = call.op /\ call'.todo = call.todo /\ call'.known = call.known /\ call'.seen = call.seen
          /\ call # Idle /\ call'.stage \in {"start", "sent", "served"}
          /\ call' = [op |-> call'.op, todo |-> call'.todo, stage |-> call'.stage, known |-> call'.known,
                      seen |-> call'.seen]
      BY <1>1, <2>4
    <3>2. QED
      BY <2>1, <2>2, <3>1 DEF MeaningInv, TypedInv
  <2>5. QED
    BY <2>3, <2>4
<1>3. ToldInv'
  BY StillTold DEF MeaningInv, ToldInv
<1>4. QueryInv'
  <2>1. CASE call' = call
    <3>1. SUFFICES ASSUME call # Idle PROVE QueryInv'
      BY <2>1 DEF QueryInv
    <3>2. call.seen \in Final => orders'[1] = call.seen
      BY <3>1 DEF MeaningInv, QueryInv, OnwardsOrders
    <3>3. orders[1] \in Final => orders'[1] \in Final
      BY DEF OnwardsOrders
    <3>4. orders[1] \in Standing => orders'[1] \in Standing
      BY DEF OnwardsOrders
    <3>5. QED
      BY <2>1, <3>1, <3>2, <3>3, <3>4 DEF MeaningInv, QueryInv
  <2>2. CASE call' # call
    BY <1>1, <2>2 DEF MeaningInv, QueryInv, OnwardsOrders
  <2>3. QED
    BY <2>1, <2>2
<1>5. AskedInv'
  <2>1. call' = Idle => call = Idle
    BY <1>1
  <2>2. QED
    BY <1>1, <2>1 DEF MeaningInv, AskedInv, OnwardsOrders, fixed
<1>6. QED
  BY <1>2, <1>3, <1>4, <1>5 DEF MeaningInv
(* Every step keeps the meaning. *)

\* What a call in progress looks like.
LEMMA Active ==
  ASSUME TypedInv, call.stage # "idle" \/ call # Idle
  PROVE  /\ call # Idle /\ call.op \in {"place", "query", "cancel"} /\ call.todo \in Todos(call.op)
         /\ call.stage \in {"start", "sent", "served"} /\ step \in Checks /\ call.op = OpOf(step)
         /\ step = "place" <=> call.op = "place"
         /\ call.op \in {"place", "cancel"} => step = call.op
         /\ step \in {"query", "verify"} <=> call.op = "query"
         /\ Head(call.todo) \in {"place", "accounts", "query", "list_open", "list_closed", "find", "cancel"}
         /\ Head(call.todo) = "place" => call.op = "place"
         /\ Head(call.todo) = "cancel" => call.op = "cancel"
         /\ Mutation(Head(call.todo)) => Head(call.todo) = call.op
<1>1. call # Idle
  BY DEF Idle
<1>2. /\ call.op \in {"place", "query", "cancel"} /\ call.todo \in Todos(call.op)
      /\ call.stage \in {"start", "sent", "served"} /\ step \in Checks /\ call.op = OpOf(step)
  BY <1>1 DEF TypedInv
<1>3. QED
  BY <1>1, <1>2, Heads DEF OpOf, Checks, Mutation

LEMMA NotOk ==
  /\ Validation # Ok /\ Unknown # Ok /\ Unavailable # Ok /\ Plain # Ok /\ Outcome("canceled", FALSE) # Ok
  /\ \A retryable : LocalError(retryable) # Ok
  BY DEF Validation, Unknown, Unavailable, Plain, LocalError, Outcome, Ok

LEMMA FailsKeepsMeaning ==
  ASSUME MeaningInv, step \in Checks, NEW o, o # Ok, Fails(o), UNCHANGED <<fixed, stopped, orders, cancelling>>
  PROVE  MeaningInv'
  BY ConcludeKeepsMeaning DEF Fails

LEMMA ChecksKeepMeaning ==
  ASSUME MeaningInv, CheckEgress \/ CheckBook
  PROVE  MeaningInv'
<1>1. step \in {"egress", "book"} /\ step' \in {"book", "place", "done"} /\ UNCHANGED <<fixed, attempt, call, report, told, orders, cancelling>>
  BY DEF CheckEgress, CheckBook
<1>2. call = Idle
  BY <1>1 DEF MeaningInv, TypedInv, Checks
<1>3. caller \in {"smoke", "trader"} /\ caller # "trader"
  BY <1>1 DEF MeaningInv, TypedInv, SpotTypeOK
<1>4. TypedInv'
  BY <1>1, <1>2, <1>3 DEF MeaningInv, TypedInv, SpotTypeOK, fixed, Checks
<1>5. ToldInv'
  BY <1>1 DEF MeaningInv, ToldInv, FinalStatusIsTrue
<1>6. QueryInv' /\ AskedInv'
  BY <1>1, <1>2 DEF MeaningInv, QueryInv, AskedInv, fixed
<1>7. QED
  BY <1>4, <1>5, <1>6 DEF MeaningInv

LEMMA BeginKeepsMeaning ==
  ASSUME MeaningInv, Begin
  PROVE  MeaningInv'
<1> DEFINE op == OpOf(step)
<1>1. op \in {"place", "query", "cancel"} /\ step \in Checks
  BY DEF Begin, OpOf, Checks
<1>2. RequestsOf(op) \in Todos(op) /\ RequestsOf(op) # <<>> /\ (op = "query" => Head(RequestsOf(op)) # "list_closed")
  BY <1>1, FirstRequests, Heads
<1>3. /\ call' = [op |-> op, todo |-> RequestsOf(op), stage |-> "start", known |-> orders[1] \in Standing,
                  seen |-> "none"]
      /\ UNCHANGED <<fixed, step, attempt, report, told, orders, cancelling>>
  BY DEF Begin
<1> HIDE DEF op
<1>4. /\ call'.op = op /\ call'.todo = RequestsOf(op) /\ call'.stage = "start" /\ call'.seen = "none"
      /\ call'.known = (orders[1] \in Standing)
  BY <1>3
<1>5. TypedInv'
  <2>1. SpotTypeOK'
    BY <1>2, <1>3, <1>4 DEF MeaningInv, TypedInv, SpotTypeOK, fixed
  <2>2. call' = [op |-> call'.op, todo |-> call'.todo, stage |-> call'.stage, known |-> call'.known,
                 seen |-> call'.seen]
    BY <1>3, <1>4
  <2>3. OpOf(step)' = op
    BY <1>3 DEF op, OpOf
  <2>4. QED
    BY <1>1, <1>2, <1>3, <1>4, <2>1, <2>2, <2>3 DEF MeaningInv, TypedInv, fixed
<1>6. ToldInv'
  BY <1>3 DEF MeaningInv, ToldInv, FinalStatusIsTrue
<1>7. QueryInv'
  BY <1>2, <1>3, <1>4 DEF QueryInv, Final
<1>8. AskedInv'
  BY <1>3 DEF MeaningInv, AskedInv, Begin, fixed
<1>9. QED
  BY <1>5, <1>6, <1>7, <1>8 DEF MeaningInv

LEMMA SendKeepsMeaning ==
  ASSUME MeaningInv, Send
  PROVE  MeaningInv'
<1>1. /\ call.stage = "start" /\ call' = [call EXCEPT !.stage = "sent"]
      /\ UNCHANGED <<fixed, step, attempt, report, told>>
  BY DEF Send
<1>2. call # Idle /\ step \in Checks
  BY <1>1, Active DEF MeaningInv
<1>3. /\ call' = [op |-> call.op, todo |-> call.todo, stage |-> "sent", known |-> call.known, seen |-> call.seen]
      /\ call' # Idle
  BY <1>1, <1>2 DEF MeaningInv, TypedInv, Idle
<1>4. CASE Head(call.todo) = "place"
  <2>1. step = "place" /\ call.op = "place"
    BY <1>1, <1>4, Active DEF MeaningInv
  <2>2. orders' = [orders EXCEPT ![attempt] = "flight"] /\ cancelling' = cancelling
    BY <1>4 DEF Send
  <2>3. SpotTypeOK'
    BY <1>1, <1>2, <1>3, <2>2 DEF MeaningInv, TypedInv, SpotTypeOK, fixed
  <2>4. TypedInv'
    <3>1. OpOf(step)' = OpOf(step)
      BY <1>1 DEF OpOf
    <3>2. QED
      BY <1>1, <1>2, <1>3, <2>3, <3>1 DEF MeaningInv, TypedInv, fixed
  <2>5. ToldInv'
    BY <1>1, <2>1 DEF MeaningInv, ToldInv, FinalStatusIsTrue, IsTrue
  <2>6. QueryInv'
    BY <1>2, <1>3, <2>1 DEF MeaningInv, QueryInv, Final
  <2>7. AskedInv'
    BY <1>1, <1>2, <2>1 DEF MeaningInv, AskedInv, fixed
  <2>8. QED
    BY <2>4, <2>5, <2>6, <2>7 DEF MeaningInv
<1>5. CASE Head(call.todo) # "place"
  <2>1. orders' = orders /\ cancelling' \in {"none", "flight", "accepted", "refused"}
    BY <1>5 DEF Send, MeaningInv, TypedInv, SpotTypeOK
  <2>2. SpotTypeOK'
    BY <1>1, <1>2, <1>3, <2>1 DEF MeaningInv, TypedInv, SpotTypeOK, fixed
  <2>3. TypedInv'
    <3>1. OpOf(step)' = OpOf(step)
      BY <1>1 DEF OpOf
    <3>2. QED
      BY <1>1, <1>2, <1>3, <2>2, <3>1 DEF MeaningInv, TypedInv, fixed
  <2>4. ToldInv'
    BY <1>1, <2>1 DEF MeaningInv, ToldInv, FinalStatusIsTrue
  <2>5. QueryInv'
    BY <1>2, <1>3, <2>1 DEF MeaningInv, QueryInv
  <2>6. AskedInv'
    BY <1>1, <1>2, <2>1 DEF MeaningInv, AskedInv, fixed
  <2>7. QED
    BY <2>3, <2>4, <2>5, <2>6 DEF MeaningInv
<1>6. QED
  BY <1>4, <1>5

\* A query looks in the second list only when the order was in none of the first: by
\* then an order that was known has left the book.
LEMMA ReceiveReadKeepsMeaning ==
  ASSUME MeaningInv, ReceiveRead
  PROVE  MeaningInv'
<1> DEFINE request == Head(call.todo)
           found == call.seen \in Standing
           last == Len(call.todo) = 1
<1>1. /\ call.stage = "served" /\ ~Mutation(request) /\ UNCHANGED <<fixed, stopped, orders, cancelling>>
  BY DEF ReceiveRead
<1>2. /\ call # Idle /\ step \in Checks /\ call.op \in {"place", "query", "cancel"} /\ call.todo \in Todos(call.op)
      /\ call.op = "query" => step \in {"query", "verify"}
      /\ call.op = OpOf(step)
  BY <1>1, Active DEF MeaningInv
<1>3. CASE found /\ call.op = "query" /\ \E w \in NativeWords[client][call.seen] :
             Conclude(Ok, TRUE, StatusOf(client, w, Executed(call.seen)), Executed(call.seen))
  <2>1. PICK w \in NativeWords[client][call.seen] :
          Conclude(Ok, TRUE, StatusOf(client, w, Executed(call.seen)), Executed(call.seen))
    BY <1>3
  <2>2. client \in Unified
    <3>1. caller # "trader" /\ caller \in {"smoke", "trader"}
      BY <1>2, <1>3 DEF MeaningInv, TypedInv, SpotTypeOK
    <3>2. QED
      BY <3>1, SpotAssumption DEF MeaningInv, TypedInv
  <2>3. IsTrue(StatusOf(client, w, Executed(call.seen)), call.seen)
    BY <1>3, <2>1, <2>2, StatusesAreTrue
  <2>4. IsTrue(StatusOf(client, w, Executed(call.seen)), orders[1])
    <3>1. CASE call.seen \in Final
      BY <1>2, <2>3, <3>1 DEF MeaningInv, QueryInv
    <3>2. CASE call.seen \in Live
      BY <2>3, <3>2 DEF IsTrue, Live
    <3>3. QED
      BY <1>3, <3>1, <3>2 DEF Standing
  <2>5. QED
    BY <1>1, <1>2, <2>1, <2>4, ConcludeKeepsMeaning
<1>4. CASE /\ ~last /\ (request = "accounts" \/ (request = "find" /\ found) \/ (request \in Lists /\ ~found))
           /\ call' = [call EXCEPT !.todo = Tail(@), !.stage = "start", !.seen = "none"]
           /\ UNCHANGED <<step, attempt, report, told>>
  <2>1. /\ call' = [op |-> call.op, todo |-> Tail(call.todo), stage |-> "start", known |-> call.known, seen |-> "none"]
        /\ call' # Idle
    BY <1>2, <1>4 DEF MeaningInv, TypedInv, Idle
  <2>2. \/ call.op = "place" /\ Tail(call.todo) = <<"place">>
        \/ call.op = "query" /\ request = "list_open" /\ Tail(call.todo) = <<"list_closed">> /\ ~found
        \/ call.op = "cancel" /\ Tail(call.todo) = <<"cancel">>
    BY <1>2, <1>4, Heads DEF Lists
  <2>3. Tail(call.todo) \in Todos(call.op) /\ Tail(call.todo) # <<>>
    <3>1. Tail(call.todo) \in Todos(call.op)
      BY <2>2 DEF Todos
    <3>2. QED
      BY <1>2, <3>1, Heads
  <2>4. SpotTypeOK'
    BY <1>1, <1>4, <2>1, <2>3 DEF MeaningInv, TypedInv, SpotTypeOK, fixed
  <2>5. TypedInv'
    <3>1. OpOf(step)' = OpOf(step)
      BY <1>4 DEF OpOf
    <3>2. QED
      BY <1>1, <1>2, <1>4, <2>1, <2>3, <2>4, <3>1 DEF MeaningInv, TypedInv, fixed
  <2>6. ToldInv'
    BY <1>1, <1>4 DEF MeaningInv, ToldInv, FinalStatusIsTrue
  <2>7. QueryInv'
    <3>1. call.op = "query" /\ call.known => orders[1] \in Final
      <4>1. call.op = "query" => call.seen = "none" /\ request = "list_open"
        BY <1>2, <2>2 DEF MeaningInv, TypedInv
      <4>2. QED
        BY <1>1, <1>2, <4>1 DEF MeaningInv, QueryInv
    <3>2. QED
      BY <1>1, <2>1, <3>1 DEF QueryInv, Final, Standing
  <2>8. AskedInv'
    BY <1>1, <1>2, <1>4 DEF MeaningInv, AskedInv, fixed
  <2>9. QED
    BY <2>5, <2>6, <2>7, <2>8 DEF MeaningInv
<1>5. CASE Fails(Plain)
  BY <1>1, <1>2, <1>5, NotOk, FailsKeepsMeaning
<1>6. QED
  BY <1>3, <1>4, <1>5 DEF ReceiveRead

LEMMA ReceiveKeepsMeaning ==
  ASSUME MeaningInv, Receive
  PROVE  MeaningInv'
<1>1. call.stage # "idle" /\ UNCHANGED <<fixed, stopped, orders, cancelling>>
  BY DEF Receive
<1>2. PICK read : /\ Mutation(Head(call.todo)) \/ read[1] # Ok
                  /\ Conclude(read[1], read[2], "acknowledged", FALSE)
  BY DEF Receive
<1>3. step \in Checks
  BY <1>1, Active DEF MeaningInv
<1>4. IsTrue("acknowledged", orders[1])
  BY DEF IsTrue
<1>5. QED
  BY <1>1, <1>2, <1>3, <1>4, ConcludeKeepsMeaning

LEMMA ServeReadKeepsMeaning ==
  ASSUME MeaningInv, ServeRead
  PROVE  MeaningInv'
<1> DEFINE request == Head(call.todo)
           visible == CASE request = "list_open" -> Live [] request = "list_closed" -> Final
                        [] request = "accounts" -> {} [] OTHER -> Standing
           seen == IF orders[1] \in visible THEN orders[1] ELSE "none"
<1>1. /\ call.stage = "sent" /\ ~Mutation(request)
      /\ call' = [call EXCEPT !.stage = "served", !.seen = seen]
      /\ UNCHANGED <<fixed, step, attempt, report, told, orders, cancelling>>
  BY DEF ServeRead
<1>2. call # Idle /\ call.op \in {"place", "query", "cancel"} /\ call.todo \in Todos(call.op) /\ step \in Checks
  BY <1>1, Active DEF MeaningInv
<1>3. visible \subseteq Standing
  BY DEF Standing
<1>4. call.op = "place" => seen = "none"
  BY <1>1, <1>2, Heads DEF Mutation
<1>5. call.op = "query" /\ call.known /\ seen = "none" => request = "list_open" /\ orders[1] \in Final
  <2>1. SUFFICES ASSUME call.op = "query", call.known, seen = "none"
                 PROVE  request = "list_open" /\ orders[1] \in Final
    OBVIOUS
  <2>2. orders[1] \in Standing /\ (request = "list_closed" => orders[1] \in Final)
    BY <1>2, <2>1 DEF MeaningInv, QueryInv
  <2>3. orders[1] \notin visible
    BY <2>1, <2>2 DEF Standing, Live, Final
  <2>4. request \in {"query", "list_open", "list_closed", "find"}
    BY <1>2, <2>1, Heads
  <2>5. QED
    BY <2>2, <2>3, <2>4 DEF Standing
<1>6. seen \in {"none"} \cup Standing /\ (seen \in Final => orders[1] = seen)
  BY <1>3 DEF Final
<1> HIDE DEF seen, visible
<1>7. /\ call' = [op |-> call.op, todo |-> call.todo, stage |-> "served", known |-> call.known, seen |-> seen]
      /\ call' # Idle
  BY <1>1, <1>2 DEF MeaningInv, TypedInv, Idle
<1>8. SpotTypeOK'
  BY <1>1, <1>7 DEF MeaningInv, TypedInv, SpotTypeOK, fixed
<1>9. TypedInv'
  <2>1. OpOf(step)' = OpOf(step)
    BY <1>1 DEF OpOf
  <2>2. QED
    BY <1>1, <1>2, <1>6, <1>7, <1>8, <2>1 DEF MeaningInv, TypedInv, fixed
<1>10. ToldInv'
  BY <1>1 DEF MeaningInv, ToldInv, FinalStatusIsTrue
<1>11. QueryInv'
  BY <1>1, <1>2, <1>4, <1>5, <1>6, <1>7 DEF MeaningInv, QueryInv
<1>12. AskedInv'
  BY <1>1, <1>2 DEF MeaningInv, AskedInv, fixed
<1>13. QED
  BY <1>9, <1>10, <1>11, <1>12 DEF MeaningInv

\* The exchange's own steps only move orders on.
LEMMA ExchangeKeepsMeaning ==
  ASSUME MeaningInv, TakeOrder \/ TakeCancel \/ Trade \/ CarryOutCancel
  PROVE  MeaningInv'
<1>1. orders \in [Attempts -> {"none", "flight", "refused"} \cup Standing] /\ cancelling \in {"none", "flight", "accepted", "refused"}
  BY DEF MeaningInv, TypedInv, SpotTypeOK
<1>2. CASE TakeOrder
  <2>1. PICK i \in Attempts : /\ orders[i] = "flight" /\ Serves(i)
                              /\ \E state \in {"open", "refused"} : orders' = [orders EXCEPT ![i] = state]
    BY <1>2 DEF TakeOrder
  <2>2. OnwardsOrders
    BY <1>1, <2>1 DEF OnwardsOrders, Standing, Live, Final
  <2>3. \/ call' = call
        \/ call # Idle /\ call.op # "query" /\ call' = [call EXCEPT !.stage = "served"]
    <3>1. call.stage = "sent" /\ Head(call.todo) = "place" => call # Idle /\ call.op = "place"
      BY Active DEF MeaningInv
    <3>2. QED
      BY <2>1, <3>1 DEF Serves
  <2>4. QED
    BY <1>1, <1>2, <2>2, <2>3, OnwardsKeepsMeaning DEF TakeOrder
<1>3. CASE TakeCancel
  <2>1. OnwardsOrders
    BY <1>3, SameOrders DEF TakeCancel
  <2>2. \/ call' = call
        \/ call # Idle /\ call.op # "query" /\ call' = [call EXCEPT !.stage = "served"]
    <3>1. call.stage = "sent" /\ Head(call.todo) = "cancel" => call # Idle /\ call.op = "cancel"
      BY Active DEF MeaningInv
    <3>2. QED
      BY <1>3, <3>1 DEF TakeCancel
  <2>3. cancelling' \in {"none", "flight", "accepted", "refused"}
    BY <1>3 DEF TakeCancel
  <2>4. QED
    BY <1>3, <2>1, <2>2, <2>3, OnwardsKeepsMeaning DEF TakeCancel
<1>4. CASE Trade \/ CarryOutCancel
  <2>1. PICK from \in {"open", "partial"}, to \in Standing : Moves(from, to)
    BY <1>4 DEF Trade, CarryOutCancel, Standing, Live, Final
  <2>2. OnwardsOrders
    BY <1>1, <2>1 DEF Moves, OnwardsOrders, Standing, Live, Final
  <2>3. QED
    BY <1>1, <2>1, <2>2, OnwardsKeepsMeaning DEF Moves, progress
<1>5. QED
  BY <1>2, <1>3, <1>4

LEMMA MeaningStep ==
  ASSUME MeaningInv, [SpotNext]_vars
  PROVE  MeaningInv'
<1>1. CASE CheckEgress \/ CheckBook
  BY <1>1, ChecksKeepMeaning
<1>2. CASE Begin
  BY <1>2, BeginKeepsMeaning
<1>3. CASE Refuse
  <2>1. step \in Checks
    BY <1>3 DEF Refuse, Checks
  <2>2. QED
    BY <1>3, <2>1, NotOk, FailsKeepsMeaning DEF Refuse
<1>4. CASE FailLocally \/ FailStopped \/ LoseAnswer
  <2>1. call.stage # "idle" /\ UNCHANGED <<fixed, stopped, orders, cancelling>>
    BY <1>4 DEF FailLocally, FailStopped, LoseAnswer
  <2>2. step \in Checks
    BY <2>1, Active DEF MeaningInv
  <2>3. PICK o : o # Ok /\ Fails(o)
    BY <1>4, NotOk DEF FailLocally, FailStopped, LoseAnswer
  <2>4. QED
    BY <2>1, <2>2, <2>3, FailsKeepsMeaning
<1>5. CASE Send
  BY <1>5, SendKeepsMeaning
<1>6. CASE ReceiveRead
  BY <1>6, ReceiveReadKeepsMeaning
<1>7. CASE Receive
  BY <1>7, ReceiveKeepsMeaning
<1>8. CASE ServeRead
  BY <1>8, ServeReadKeepsMeaning
<1>9. CASE TakeOrder \/ TakeCancel \/ Trade \/ CarryOutCancel
  BY <1>9, ExchangeKeepsMeaning
<1>10. CASE Stop \/ UNCHANGED vars
  <2>1. UNCHANGED <<fixed, step, attempt, call, report, told, orders, cancelling>>
    BY <1>10 DEF Stop, progress, vars
  <2>2. cancelling' \in {"none", "flight", "accepted", "refused"}
    BY <2>1 DEF MeaningInv, TypedInv, SpotTypeOK
  <2>3. QED
    BY <2>1, <2>2, SameOrders, OnwardsKeepsMeaning
<1>11. QED
  BY <1>1, <1>2, <1>3, <1>4, <1>5, <1>6, <1>7, <1>8, <1>9, <1>10 DEF SpotNext, CallerStep, ExchangeStep
-----------------------------------------------------------------------------
(* What the end of a call may say, where the tables are safe. *)

\* A result that the caller may rely on: a placement that may be repeated, that failed,
\* or that the runner does not follow up was never accepted and never will be; cleaning
\* up is not cancelled; a verified order is gone; a query misses no order that it knew.
Settled(o, status, filled) ==
  /\ o # Pending
  /\ step = "place" /\ (o.retryable \/ Verdict(o) = "failed" \/ (caller = "smoke" /\ o \notin {Ok, Unknown}))
       => orders[attempt] \in Unborn
  /\ step \in {"cancel", "verify"} => o.category # "canceled"
  /\ step = "verify" /\ o = Ok /\ status = "canceled" /\ ~filled => orders[1] \in Gone
  /\ call.op = "query" /\ call.known => o \notin {NotFound, Plain} /\ (o = Ok => status # "missing")

EndsCall ==
  /\ \E o, named, status, filled : Settled(o, status, filled) /\ Conclude(o, named, status, filled)
  /\ UNCHANGED <<fixed, stopped, orders, cancelling>>

\* The next request of a call after a successful read.
Continues ==
  /\ call' = [call EXCEPT !.todo = Tail(@), !.stage = "start", !.seen = "none"]
  /\ call.stage = "served" /\ ~Mutation(Head(call.todo))
  /\ UNCHANGED <<fixed, step, attempt, outcomes, report, byID, told, stopped, orders, cancelling>>

\* Before its placement leaves there is no order.
LEMMA NotSent ==
  ASSUME RunInv, step = "place", ~Sent
  PROVE  orders[attempt] \in Unborn
  BY DEF RunInv, PlacementInv, Unborn

LEMMA OwnErrors ==
  /\ Validation \notin {Pending, Ok, NotFound, Plain} /\ Validation.category # "canceled"
  /\ \A retryable : /\ LocalError(retryable) \notin {Pending, Ok, NotFound, Plain}
                    /\ LocalError(retryable).category # "canceled"
  /\ Outcome("canceled", FALSE) \notin {Pending, Ok, NotFound, Plain}
  /\ Unknown \notin {Pending, Ok, NotFound, Plain} /\ Unknown.category # "canceled"
  /\ ~Unknown.retryable /\ Verdict(Unknown) = "unknown"
  /\ Unavailable \notin {Pending, Ok, NotFound, Plain} /\ Unavailable.category # "canceled"
  /\ Plain # Pending /\ Plain # Ok /\ Plain.category # "canceled"
  /\ Ok # Pending /\ Ok # NotFound /\ Ok # Plain /\ ~Ok.retryable /\ Ok.category # "canceled" /\ Verdict(Ok) = "answered"
  BY DEF Validation, Unknown, Unavailable, Plain, LocalError, Outcome, Ok, NotFound, Pending, Verdict

\* Nothing was sent.
LEMMA LocalEnds ==
  ASSUME MeaningInv, RunInv, Refuse \/ FailLocally \/ FailStopped
  PROVE  EndsCall
<1>1. ~Sent
  <2>1. CASE Refuse
    BY <2>1 DEF Refuse, Idle, Sent
  <2>2. CASE FailLocally
    BY <2>2 DEF FailLocally, Sent
  <2>3. CASE FailStopped
    BY <2>3 DEF FailStopped, Sent
  <2>4. QED
    BY <2>1, <2>2, <2>3
<1>2. step = "place" => orders[attempt] \in Unborn
  BY <1>1, NotSent
<1>3. UNCHANGED <<fixed, stopped, orders, cancelling>>
  BY DEF Refuse, FailLocally, FailStopped
<1>4. PICK o : /\ Fails(o)
               /\ \/ o = Validation \/ (\E retryable : o = LocalError(retryable))
                  \/ o = Outcome("canceled", FALSE) /\ UnderCaller(step)
  BY DEF Refuse, FailLocally, FailStopped
<1>5. Settled(o, "unknown", FALSE)
  BY <1>2, <1>4, OwnErrors DEF Settled, UnderCaller
<1>6. QED
  BY <1>3, <1>4, <1>5 DEF EndsCall, Fails

LEMMA LostEnds ==
  ASSUME MeaningInv, RunInv, LoseAnswer
  PROVE  EndsCall
<1> DEFINE o == IF Mutation(Head(call.todo)) THEN Unknown ELSE Unavailable
<1>1. call.stage \in {"sent", "served"} /\ Fails(o) /\ UNCHANGED <<fixed, stopped, orders, cancelling>>
  BY DEF LoseAnswer
<1>2. step = "place" /\ ~Mutation(Head(call.todo)) => orders[attempt] \in Unborn
  BY NotSent DEF Sent, Mutation
<1>3. Settled(o, "unknown", FALSE)
  <2>1. CASE Mutation(Head(call.todo))
    BY <2>1, OwnErrors DEF Settled
  <2>2. CASE ~Mutation(Head(call.todo))
    BY <1>2, <2>2, OwnErrors DEF Settled
  <2>3. QED
    BY <2>1, <2>2
<1> HIDE DEF o
<1>4. QED
  BY <1>1, <1>3 DEF EndsCall, Fails

LEMMA ReadEnds ==
  ASSUME MeaningInv, RunInv, ReceiveRead
  PROVE  EndsCall \/ Continues
<1> DEFINE request == Head(call.todo)
           found == call.seen \in Standing
           last == Len(call.todo) = 1
<1>1. /\ call.stage = "served" /\ ~Mutation(request) /\ UNCHANGED <<fixed, stopped, orders, cancelling>>
  BY DEF ReceiveRead
<1>2. /\ call # Idle /\ call.op \in {"place", "query", "cancel"} /\ call.todo \in Todos(call.op)
      /\ call.seen \in {"none"} \cup Standing
      /\ step = "place" <=> call.op = "place"
      /\ step \in {"query", "verify"} <=> call.op = "query"
  BY <1>1, Active DEF MeaningInv, TypedInv
<1>3. CASE found /\ call.op = "query" /\ \E w \in NativeWords[client][call.seen] :
             Conclude(Ok, TRUE, StatusOf(client, w, Executed(call.seen)), Executed(call.seen))
  <2>1. PICK w \in NativeWords[client][call.seen] :
          Conclude(Ok, TRUE, StatusOf(client, w, Executed(call.seen)), Executed(call.seen))
    BY <1>3
  <2> DEFINE status == StatusOf(client, w, Executed(call.seen))
  <2>2. client \in Unified
    <3>1. caller # "trader" /\ caller \in {"smoke", "trader"}
      BY <1>2, <1>3 DEF MeaningInv, TypedInv, SpotTypeOK
    <3>2. QED
      BY <3>1, SpotAssumption DEF MeaningInv, TypedInv
  <2>3. IsTrue(status, call.seen) /\ status # "missing"
    BY <1>3, <2>1, <2>2, StatusesAreTrue
  <2> HIDE DEF status
  <2>4. status = "canceled" /\ ~Executed(call.seen) => orders[1] \in Gone
    BY <1>2, <2>3 DEF IsTrue, Executed, Gone, Final, MeaningInv, QueryInv
  <2>5. Settled(Ok, status, Executed(call.seen))
    BY <1>2, <1>3, <2>3, <2>4, OwnErrors DEF Settled
  <2>6. QED
    BY <1>1, <2>1, <2>5 DEF EndsCall, status
<1>4. CASE /\ ~last /\ (request = "accounts" \/ (request = "find" /\ found) \/ (request \in Lists /\ ~found))
           /\ call' = [call EXCEPT !.todo = Tail(@), !.stage = "start", !.seen = "none"]
           /\ UNCHANGED <<step, attempt, outcomes, report, byID, told>>
  BY <1>1, <1>4 DEF Continues
<1>5. CASE ~found /\ (request = "find" \/ (request \in Lists /\ last)) /\ Fails(Plain)
  <2>1. call.op # "place"
    BY <1>2, <1>5, Heads DEF Lists
  <2>2. ~(call.op = "query" /\ call.known)
    <3>1. call.seen = "none"
      BY <1>2, <1>5
    <3>2. call.op = "query" => ~(request = "list_open" /\ last)
      <4>1. call.op = "query" => \/ request \in {"query", "list_closed", "find"}
                                 \/ request = "list_open" /\ Len(call.todo) = 2
        BY <1>2, Heads
      <4>2. QED
        BY <4>1
    <3>3. QED
      BY <1>1, <1>2, <1>5, <3>1, <3>2 DEF MeaningInv, QueryInv, Lists
  <2>3. Settled(Plain, "unknown", FALSE)
    BY <1>2, <2>1, <2>2, OwnErrors DEF Settled
  <2>4. QED
    BY <1>1, <1>5, <2>3 DEF EndsCall, Fails
<1>6. QED
  BY <1>3, <1>4, <1>5 DEF ReceiveRead

\* Only here the tables matter.
LEMMA AnswerEnds ==
  ASSUME ClientReadsSafely, MeaningInv, RunInv, Receive
  PROVE  EndsCall
<1> DEFINE request == Head(call.todo)
           op == IF Mutation(request) THEN request ELSE "query"
<1>1. /\ call.stage \in {"sent", "served"} /\ UNCHANGED <<fixed, stopped, orders, cancelling>>
  BY DEF Receive
<1>2a. PICK sort \in MayAnswer : \E read \in Reads[client, op, sort] :
         /\ Mutation(request) \/ read[1] # Ok
         /\ Conclude(read[1], read[2], "acknowledged", FALSE)
  BY DEF Receive
<1>2b. PICK read \in Reads[client, op, sort] :
         /\ Mutation(request) \/ read[1] # Ok
         /\ Conclude(read[1], read[2], "acknowledged", FALSE)
  BY <1>2a
<1>2. sort \in MayAnswer /\ read \in Reads[client, op, sort] /\ (Mutation(request) \/ read[1] # Ok)
  BY <1>2a, <1>2b
<1>3. /\ call # Idle /\ call.op \in {"place", "query", "cancel"} /\ call.todo \in Todos(call.op)
      /\ call.seen \in {"none"} \cup Standing
      /\ step = "place" <=> call.op = "place"
      /\ step \in {"query", "verify"} <=> call.op = "query"
      /\ Mutation(request) => request = call.op
      /\ client \in Clients
  BY <1>1, Active DEF MeaningInv, TypedInv, SpotTypeOK
<1>4. caller = "smoke" => client \in SpotClients
  BY DEF MeaningInv, TypedInv
<1>5. call.op = "query" => caller = "smoke"
  BY <1>3 DEF MeaningInv, TypedInv, SpotTypeOK
<1>6. sort \in Sorts /\ op \in {"place", "cancel", "query"}
  BY <1>2 DEF MayAnswer, Sorts, Mutation
<1>7. read[1].category \notin {"canceled", "pending"} /\ read[1] # Pending
  <2>1. read[1].category \notin {"canceled", "pending"}
    BY <1>2, <1>3, <1>6 DEF ClientReadsSafely, ReadsSafely
  <2>2. Pending.category = "pending"
    BY DEF Pending, Outcome
  <2>3. QED
    BY <2>1, <2>2
<1>8. step = "place" => \/ orders[attempt] \in Unborn
                        \/ /\ ~read[1].retryable /\ Verdict(read[1]) # "failed"
                           /\ caller = "smoke" => read[1] \in {Ok, Unknown}
  <2>1. SUFFICES ASSUME step = "place", orders[attempt] \notin Unborn
                 PROVE  /\ ~read[1].retryable /\ Verdict(read[1]) # "failed"
                        /\ caller = "smoke" => read[1] \in {Ok, Unknown}
    OBVIOUS
  <2>2. Sent /\ request = "place"
    BY <2>1, NotSent DEF Sent
  <2>3. sort \in {"vague", "success"}
    BY <1>2, <2>1, <2>2 DEF MayAnswer, Unborn
  <2>4. read \in Reads[client, "place", sort]
    BY <1>2, <2>2 DEF Mutation
  <2>5. QED
    BY <1>3, <1>4, <2>3, <2>4 DEF ClientReadsSafely, ReadsSafely
<1>9. call.op = "query" => ~Mutation(request) /\ read[1] # Ok
  BY <1>2, <1>3 DEF Mutation
<1>10. call.op = "query" /\ call.known => read[1] \notin {NotFound, Plain}
  <2>1. SUFFICES ASSUME call.op = "query", call.known PROVE read[1] \notin {NotFound, Plain}
    OBVIOUS
  <2>2. sort # "missing"
    <3>1. request # "cancel"
      BY <1>9, <2>1 DEF Mutation
    <3>2. ~(request = "query" /\ call.stage = "served" /\ call.seen = "none")
      BY <1>3, <2>1 DEF MeaningInv, QueryInv
    <3>3. QED
      BY <1>2, <3>1, <3>2 DEF MayAnswer
  <2>3. sort \in {"refusal", "vague", "broken"}
    <3>1. request # "place" /\ request # "cancel"
      BY <1>9, <2>1 DEF Mutation
    <3>2. QED
      BY <1>2, <2>2, <3>1 DEF MayAnswer
  <2>4. read \in Reads[client, "query", sort] /\ client \in SpotClients
    BY <1>2, <1>4, <1>5, <1>9, <2>1
  <2>5. QED
    BY <1>3, <2>3, <2>4 DEF ClientReadsSafely, ReadsSafely
<1>11. Settled(read[1], "acknowledged", FALSE)
  BY <1>3, <1>7, <1>8, <1>9, <1>10 DEF Settled
<1>12. QED
  BY <1>1, <1>2b, <1>11 DEF EndsCall
-----------------------------------------------------------------------------
(* Steps keep what a run may rely on. *)

\* Mutations of the order states and of the call that leave the caller where it is.
LEMMA OrdersKeepRun ==
  ASSUME MeaningInv, RunInv, UNCHANGED <<fixed, step, attempt, outcomes, report>>,
         \A i \in Attempts : orders[i] \in Unborn => orders'[i] = orders[i],
         \A i \in Attempts : orders'[i] \in Unborn \/ orders[i] \notin Unborn,
         \A i \in Attempts : orders[i] \in Gone => orders'[i] = orders[i],
         Sent' <=> Sent,
         Sent /\ call'.stage = "sent" => orders'[attempt] = "flight",
         Sent /\ call'.stage = "served" => orders'[attempt] \notin {"none", "flight"}
  PROVE  RunInv'
<1>1. 1 \in Attempts
  BY FirstAttempt
<1>2. attempt \in Attempts
  BY DEF MeaningInv, TypedInv, SpotTypeOK
<1>3. PlacementInv'
  <2>1. outcomes' = outcomes /\ step' = step /\ attempt' = attempt
    OBVIOUS
  <2>2. (outcomes = [i \in Attempts |-> outcomes[i]])'
    BY <2>1 DEF RunInv, PlacementInv
  <2>3. (\A i \in Attempts : i < attempt => orders[i] \in Unborn)'
    BY <2>1 DEF RunInv, PlacementInv
  <2>4. (\A i \in Attempts : i > attempt => orders[i] = "none" /\ outcomes[i] = Pending)'
    BY <2>1 DEF RunInv, PlacementInv, Unborn
  <2>5. (step \in {"egress", "book", "place"} => outcomes[attempt] = Pending /\ (~Sent => orders[attempt] = "none"))'
    BY <1>2, <2>1 DEF RunInv, PlacementInv, Unborn
  <2>6. (Sent /\ call.stage = "sent" => orders[attempt] = "flight")'
    BY <2>1
  <2>7. (Sent /\ call.stage = "served" => orders[attempt] \notin {"none", "flight"})'
    BY <2>1
  <2>8. (\A i \in Attempts : Verdict(outcomes[i]) = "failed" => orders[i] \in Unborn)'
    BY <2>1 DEF RunInv, PlacementInv
  <2>9. QED
    BY <2>2, <2>3, <2>4, <2>5, <2>6, <2>7, <2>8 DEF PlacementInv
<1>4. ReportInv'
  BY <1>1 DEF RunInv, ReportInv, CleanupOutlivesCaller, fixed
<1>5. QED
  BY <1>3, <1>4 DEF RunInv

LEMMA ChecksKeepRun ==
  ASSUME MeaningInv, RunInv, CheckEgress \/ CheckBook
  PROVE  RunInv'
<1>1. /\ step \in {"egress", "book"} /\ step' \in {"book", "place", "done"}
      /\ UNCHANGED <<fixed, attempt, call, outcomes, report, orders>>
  BY DEF CheckEgress, CheckBook
<1>2. call = Idle /\ caller = "smoke" /\ attempt = 1
  BY <1>1 DEF MeaningInv, TypedInv, SpotTypeOK, Checks
<1>3. ~Sent /\ ~Sent'
  BY <1>1, <1>2 DEF Sent, Idle
<1>4. outcomes[attempt] = Pending /\ orders[attempt] = "none"
  BY <1>1, <1>3 DEF RunInv, PlacementInv
<1>5. PlacementInv'
  BY <1>1, <1>3, <1>4 DEF RunInv, PlacementInv
<1>6. ReportInv'
  BY <1>1, <1>2, <1>4 DEF RunInv, ReportInv, CleanupOutlivesCaller, Unborn, fixed
<1>7. QED
  BY <1>5, <1>6 DEF RunInv

LEMMA SendKeepsRun ==
  ASSUME MeaningInv, RunInv, Send
  PROVE  RunInv'
<1>1. /\ call.stage = "start" /\ call' = [call EXCEPT !.stage = "sent"]
      /\ UNCHANGED <<fixed, step, attempt, outcomes, report>>
  BY DEF Send
<1>2. /\ step \in Checks /\ attempt \in Attempts /\ 1 \in Attempts /\ ~Sent
      /\ Head(call.todo) = "place" => step = "place"
  BY <1>1, Active, FirstAttempt DEF MeaningInv, TypedInv, SpotTypeOK, Sent
<1>3. call'.todo = call.todo /\ call'.stage = "sent"
  <2>1. call = [op |-> call.op, todo |-> call.todo, stage |-> call.stage, known |-> call.known, seen |-> call.seen]
    BY <1>1 DEF MeaningInv, TypedInv, Idle
  <2>2. QED
    BY <1>1, <2>1
<1>4. CASE Head(call.todo) = "place"
  <2>1. orders' = [orders EXCEPT ![attempt] = "flight"]
    BY <1>4 DEF Send
  <2>2. \A i \in Attempts : orders'[i] = IF i = attempt THEN "flight" ELSE orders[i]
    BY <2>1 DEF MeaningInv, TypedInv, SpotTypeOK
  <2>3. step = "place" /\ outcomes[attempt] = Pending /\ Sent'
    BY <1>1, <1>2, <1>3, <1>4 DEF RunInv, PlacementInv, Sent
  <2>4. \A i \in Attempts : (i < attempt \/ i > attempt) => i # attempt
    BY <1>2, FirstAttempt
  <2>5. PlacementInv'
    <3>1. (outcomes = [i \in Attempts |-> outcomes[i]])'
      BY <1>1 DEF RunInv, PlacementInv
    <3>2. (\A i \in Attempts : i < attempt => orders[i] \in Unborn)'
      BY <1>1, <2>2, <2>4 DEF RunInv, PlacementInv
    <3>3. (\A i \in Attempts : i > attempt => orders[i] = "none" /\ outcomes[i] = Pending)'
      BY <1>1, <2>2, <2>4 DEF RunInv, PlacementInv
    <3>4. (\A i \in Attempts : Verdict(outcomes[i]) = "failed" => orders[i] \in Unborn)'
      <4>1. Verdict(Pending) = "pending"
        BY DEF Verdict
      <4>2. QED
        BY <1>1, <2>2, <2>3, <4>1 DEF RunInv, PlacementInv
    <3>5. orders'[attempt'] = "flight" /\ outcomes'[attempt'] = Pending
      BY <1>1, <1>2, <2>2, <2>3
    <3>6. QED
      BY <1>3, <2>3, <3>1, <3>2, <3>3, <3>4, <3>5 DEF PlacementInv
  <2>6. ReportInv'
    BY <1>1, <2>3 DEF RunInv, ReportInv, CleanupOutlivesCaller, fixed
  <2>7. QED
    BY <2>5, <2>6 DEF RunInv
<1>5. CASE Head(call.todo) # "place"
  <2>1. orders' = orders /\ ~Sent'
    BY <1>3, <1>5 DEF Send, Sent
  <2>2. QED
    BY <1>1, <1>2, <2>1, OrdersKeepRun
<1>6. QED
  BY <1>4, <1>5

\* The only placement under way is the last one.
LEMMA LastAttempt ==
  ASSUME MeaningInv, RunInv, NEW i \in Attempts, orders[i] \notin Unborn
  PROVE  i = attempt
  BY FirstAttempt DEF MeaningInv, TypedInv, SpotTypeOK, RunInv, PlacementInv, Unborn

LEMMA ExchangeKeepsRun ==
  ASSUME MeaningInv, RunInv, ExchangeStep
  PROVE  RunInv'
<1>1. orders \in [Attempts -> {"none", "flight", "refused"} \cup Standing] /\ attempt \in Attempts
  BY DEF MeaningInv, TypedInv, SpotTypeOK
<1>2. UNCHANGED <<fixed, step, attempt, outcomes, report>>
  BY DEF ExchangeStep, TakeOrder, TakeCancel, ServeRead, Trade, CarryOutCancel, Moves, progress
<1>3. CASE TakeOrder
  <2>1. PICK i \in Attempts : /\ orders[i] = "flight" /\ Serves(i)
                              /\ \E state \in {"open", "refused"} : orders' = [orders EXCEPT ![i] = state]
    BY <1>3 DEF TakeOrder
  <2>2. i = attempt
    BY <2>1, LastAttempt DEF Unborn
  <2>3. orders'[attempt] \in {"open", "refused"} /\ \A j \in Attempts : j # attempt => orders'[j] = orders[j]
    BY <1>1, <2>1, <2>2
  <2>4. (Sent' <=> Sent) /\ (Sent => call'.stage = "served")
    <3>1. CASE Sent
      <4>1. call.stage = "sent"
        BY <2>1, <2>2, <3>1 DEF RunInv, PlacementInv, Sent
      <4>2. call' = [call EXCEPT !.stage = "served"]
        BY <2>1, <2>2, <3>1, <4>1 DEF Serves, Sent
      <4>3. call = [op |-> call.op, todo |-> call.todo, stage |-> call.stage, known |-> call.known, seen |-> call.seen]
        BY <4>1 DEF MeaningInv, TypedInv, Idle
      <4>4. QED
        BY <1>2, <3>1, <4>2, <4>3 DEF Sent
    <3>2. CASE ~Sent
      <4>1. ~(call.stage = "sent" /\ Head(call.todo) = "place")
        BY <3>2, Active DEF MeaningInv, Sent
      <4>2. call' = call
        BY <2>1, <4>1 DEF Serves
      <4>3. QED
        BY <1>2, <3>2, <4>2 DEF Sent
    <3>3. QED
      BY <3>1, <3>2
  <2>5. orders[attempt] \notin Unborn /\ orders[attempt] \notin Gone
    BY <2>1, <2>2 DEF Unborn, Gone
  <2>6. QED
    BY <1>2, <2>3, <2>4, <2>5, OrdersKeepRun
<1>4. CASE TakeCancel \/ ServeRead
  <2>1. orders' = orders
    BY <1>4 DEF TakeCancel, ServeRead
  <2>2. \/ call' = call
        \/ call.stage = "sent" /\ Head(call.todo) # "place" /\ Head(call'.todo) # "place"
    <3>1. call.stage = "sent" =>
            call = [op |-> call.op, todo |-> call.todo, stage |-> call.stage, known |-> call.known, seen |-> call.seen]
      BY DEF MeaningInv, TypedInv, Idle
    <3>2. CASE TakeCancel
      BY <3>1, <3>2 DEF TakeCancel
    <3>3. CASE ServeRead
      <4>1. PICK seen : call' = [call EXCEPT !.stage = "served", !.seen = seen]
        BY <3>3 DEF ServeRead
      <4>2. call'.todo = call.todo /\ call.stage = "sent" /\ Head(call.todo) # "place"
        BY <3>1, <3>3, <4>1 DEF ServeRead, Mutation
      <4>3. QED
        BY <4>2
    <3>4. QED
      BY <1>4, <3>2, <3>3
  <2>3. (Sent' <=> Sent) /\ (Sent => call' = call)
    BY <1>2, <2>2 DEF Sent
  <2>4. Sent /\ call'.stage = "sent" => orders'[attempt] = "flight"
    BY <2>1, <2>3 DEF RunInv, PlacementInv
  <2>5. Sent /\ call'.stage = "served" => orders'[attempt] \notin {"none", "flight"}
    BY <2>1, <2>3 DEF RunInv, PlacementInv
  <2>6. QED
    BY <1>2, <2>1, <2>3, <2>4, <2>5, OrdersKeepRun
<1>5. CASE Trade \/ CarryOutCancel
  <2>1. PICK from \in {"open", "partial"}, to \in Standing : Moves(from, to)
    BY <1>5 DEF Trade, CarryOutCancel, Standing, Live, Final
  <2>2. PICK i \in Attempts : orders[i] = from /\ orders' = [orders EXCEPT ![i] = to]
    BY <2>1 DEF Moves
  <2>3. i = attempt
    BY <2>2, LastAttempt DEF Unborn
  <2>4. orders'[attempt] = to /\ \A j \in Attempts : j # attempt => orders'[j] = orders[j]
    BY <1>1, <2>2, <2>3
  <2>5. (Sent' <=> Sent) /\ call' = call
    BY <2>1 DEF Moves, progress, Sent
  <2>6. /\ orders[attempt] \notin Unborn /\ orders[attempt] \notin Gone /\ orders[attempt] # "flight"
        /\ orders'[attempt] \notin {"none", "flight", "refused"}
    BY <2>2, <2>3, <2>4 DEF Unborn, Gone, Standing, Live, Final
  <2>7. ~(Sent /\ call.stage = "sent")
    BY <2>6 DEF RunInv, PlacementInv
  <2>8. QED
    BY <1>2, <2>4, <2>5, <2>6, <2>7, OrdersKeepRun DEF Unborn
<1>6. QED
  BY <1>3, <1>4, <1>5 DEF ExchangeStep

\* What a settled result makes of the placements.
LEMMA EndKeepsPlacement ==
  ASSUME MeaningInv, RunInv, step \in Checks, NEW o, NEW named, NEW status, NEW filled,
         Settled(o, status, filled), Conclude(o, named, status, filled),
         UNCHANGED <<fixed, stopped, orders, cancelling>>
  PROVE  PlacementInv'
<1>1. attempt \in Attempts /\ caller \in {"smoke", "trader"} /\ Attempts \subseteq Nat
  BY FirstAttempt DEF MeaningInv, TypedInv, SpotTypeOK
<1>2. ~Sent'
  BY DEF Conclude, Sent, Idle
<1>3. CASE step = "place"
  <2>1. \A i \in Attempts : outcomes'[i] = IF i = attempt THEN o ELSE outcomes[i]
    BY <1>3 DEF Conclude, RunInv, PlacementInv
  <2>2. outcomes' = [i \in Attempts |-> outcomes'[i]]
    BY <1>3 DEF Conclude, RunInv, PlacementInv
  <2>3. \A i \in Attempts : Verdict(outcomes'[i]) = "failed" => orders'[i] \in Unborn
    BY <1>3, <2>1 DEF Settled, RunInv, PlacementInv
  <2>4. CASE step' = "place"
    <3>1. o.retryable /\ attempt' = attempt + 1
      <4>1. caller = "trader"
        BY <1>1, <1>3, <2>4 DEF Conclude, Placed
      <4>2. QED
        BY <4>1, <2>4 DEF Conclude, Retried
    <3>2. orders[attempt] \in Unborn
      BY <1>3, <3>1 DEF Settled
    <3>3. \A i \in Attempts : i < attempt' => orders'[i] \in Unborn
      BY <1>1, <3>1, <3>2 DEF RunInv, PlacementInv
    <3>4. \A i \in Attempts : i > attempt' => orders'[i] = "none" /\ outcomes'[i] = Pending
      BY <1>1, <2>1, <3>1 DEF RunInv, PlacementInv
    <3>5. outcomes'[attempt'] = Pending /\ orders'[attempt'] = "none"
      <4>1. attempt' \in Attempts
        BY <1>3, ConcludeKeepsMeaning DEF MeaningInv, TypedInv, SpotTypeOK
      <4>2. QED
        BY <1>1, <2>1, <3>1, <4>1 DEF RunInv, PlacementInv
    <3>6. QED
      BY <1>2, <2>2, <2>3, <3>3, <3>4, <3>5 DEF PlacementInv
  <2>5. CASE step' # "place"
    <3>1. attempt' = attempt /\ step' \notin {"egress", "book", "place"}
      BY <1>1, <1>3, <2>5 DEF Conclude, Placed, Retried
    <3>2. QED
      BY <1>1, <1>2, <2>1, <2>2, <2>3, <3>1 DEF RunInv, PlacementInv
  <2>6. QED
    BY <2>4, <2>5
<1>4. CASE step # "place"
  <2>1. outcomes' = outcomes /\ caller = "smoke"
    BY <1>1, <1>4 DEF Conclude, MeaningInv, TypedInv, Checks
  <2>2. attempt' = attempt /\ step' \notin {"egress", "book", "place"}
    BY <1>4, <2>1 DEF Conclude, Queried, Cancelled, Verified, Checks
  <2>3. QED
    BY <1>2, <2>1, <2>2 DEF RunInv, PlacementInv
<1>5. QED
  BY <1>3, <1>4

LEMMA Results ==
  ASSUME NEW o, NEW proven
  PROVE  /\ Result(o, proven) # "none"
         /\ Result(o, proven) = "passed" => o = Ok /\ proven
         /\ o.category # "canceled" => Result(o, proven) # "canceled"
  BY DEF Result

LEMMA EndKeepsReport ==
  ASSUME MeaningInv, RunInv, step \in Checks, NEW o, NEW named, NEW status, NEW filled,
         Settled(o, status, filled), Conclude(o, named, status, filled),
         UNCHANGED <<fixed, stopped, orders, cancelling>>
  PROVE  ReportInv'
<1>1. caller \in {"smoke", "trader"} /\ report = [c \in Checks |-> report[c]] /\ caller' = caller /\ orders' = orders
  BY DEF MeaningInv, TypedInv, SpotTypeOK, fixed
<1>2. report["verify"] = "none"
  BY DEF RunInv, ReportInv, Checks
<1>3. CASE caller = "trader"
  <2>1. report' = report /\ step' \in {"place", "done"}
    BY <1>3 DEF Conclude, Retried, MeaningInv, TypedInv
  <2>2. QED
    BY <1>1, <1>2, <1>3, <2>1 DEF RunInv, ReportInv, CleanupOutlivesCaller
<1>4. CASE caller = "smoke" /\ step = "place"
  <2>1. Placed(o, named) /\ attempt = 1
    BY <1>4 DEF Conclude, MeaningInv, TypedInv
  <2>2. report'["cancel"] = report["cancel"] /\ report'["verify"] = report["verify"]
    BY <1>1, <2>1 DEF Placed, Checks
  <2>3. step' \in {"query", "done"} /\ (step' = "done" => o \notin {Ok, Unknown})
    BY <2>1 DEF Placed, MayExist
  <2>4. step' = "done" => orders'[1] \in Unborn
    BY <1>1, <1>4, <2>1, <2>3 DEF Settled
  <2>5. QED
    BY <1>1, <1>2, <2>2, <2>3, <2>4 DEF RunInv, ReportInv, CleanupOutlivesCaller
<1>5. CASE caller = "smoke" /\ step = "query"
  <2>1. Queried(o, status, filled)
    BY <1>5 DEF Conclude
  <2>2. report'["cancel"] = report["cancel"] /\ report'["verify"] = report["verify"] /\ step' = "cancel"
    BY <1>1, <2>1 DEF Queried, Mark, Checks
  <2>3. QED
    BY <1>1, <1>2, <2>2 DEF RunInv, ReportInv, CleanupOutlivesCaller
<1>6. CASE caller = "smoke" /\ step = "cancel"
  <2>1. Cancelled(o)
    BY <1>6 DEF Conclude
  <2>2. report'["cancel"] = Result(o, TRUE) /\ report'["verify"] = report["verify"] /\ step' = "verify"
    BY <1>1, <2>1 DEF Cancelled, Mark, Checks
  <2>3. report'["cancel"] \notin {"none", "canceled"}
    BY <1>6, <2>2, Results DEF Settled
  <2>4. QED
    BY <1>1, <1>2, <2>2, <2>3 DEF RunInv, ReportInv, CleanupOutlivesCaller
<1>7. CASE caller = "smoke" /\ step = "verify"
  <2>1. Verified(o, status, filled)
    BY <1>7 DEF Conclude
  <2>2. /\ report'["cancel"] = report["cancel"] /\ step' = "done"
        /\ report'["verify"] = Result(o, status = "canceled" /\ ~filled)
    BY <1>1, <2>1 DEF Verified, Mark, Checks
  <2>3. report["cancel"] # "none"
    BY <1>7 DEF RunInv, ReportInv
  <2>4. report'["verify"] # "canceled"
    BY <1>7, <2>2, Results DEF Settled
  <2>5. report'["verify"] = "passed" => orders'[1] \in Gone
    BY <1>1, <1>7, <2>2, Results DEF Settled
  <2>6. QED
    BY <1>1, <1>7, <2>2, <2>3, <2>4, <2>5 DEF RunInv, ReportInv, CleanupOutlivesCaller
<1>8. QED
  BY <1>1, <1>3, <1>4, <1>5, <1>6, <1>7 DEF Checks

\* A step of the caller ends its call, or leaves orders and results as they are.
LEMMA CallerSteps ==
  ASSUME ClientReadsSafely, MeaningInv, RunInv, SpotNext
  PROVE  \/ CheckEgress \/ CheckBook \/ Begin \/ Send \/ Stop \/ Continues \/ ExchangeStep
         \/ step \in Checks /\ EndsCall
<1>1. CASE Refuse \/ FailLocally \/ FailStopped
  <2>1. step \in Checks
    <3>1. Refuse => step \in Checks
      BY DEF Refuse, Checks
    <3>2. FailLocally \/ FailStopped => step \in Checks
      BY Active DEF FailLocally, FailStopped, MeaningInv
    <3>3. QED
      BY <1>1, <3>1, <3>2
  <2>2. QED
    BY <1>1, <2>1, LocalEnds
<1>2. CASE LoseAnswer \/ ReceiveRead \/ Receive
  <2>1. call.stage # "idle"
    BY <1>2 DEF LoseAnswer, ReceiveRead, Receive
  <2>2. step \in Checks
    BY <2>1, Active DEF MeaningInv
  <2>3. QED
    BY <1>2, <2>2, LostEnds, ReadEnds, AnswerEnds
<1>3. QED
  BY <1>1, <1>2 DEF SpotNext, CallerStep

LEMMA RunStep ==
  ASSUME ClientReadsSafely, MeaningInv, RunInv, [SpotNext]_vars
  PROVE  RunInv'
<1>1. CASE CheckEgress \/ CheckBook
  BY <1>1, ChecksKeepRun
<1>2. CASE Send
  BY <1>2, SendKeepsRun
<1>3. CASE ExchangeStep
  BY <1>3, ExchangeKeepsRun
<1>4. CASE step \in Checks /\ EndsCall
  BY <1>4, EndKeepsPlacement, EndKeepsReport DEF EndsCall, RunInv
<1>5. CASE Begin \/ Continues
  <2>1. UNCHANGED <<fixed, step, attempt, outcomes, report>> /\ orders' = orders
    BY <1>5 DEF Begin, Continues
  <2>2. ~Sent
    BY <1>5 DEF Begin, Continues, Sent, Idle, Mutation
  <2>3. call'.stage = "start"
    <3>1. CASE Begin
      BY <3>1 DEF Begin
    <3>2. CASE Continues
      <4>1. call = [op |-> call.op, todo |-> call.todo, stage |-> call.stage, known |-> call.known, seen |-> call.seen]
        BY <3>2 DEF Continues, MeaningInv, TypedInv, Idle
      <4>2. call' = [op |-> call.op, todo |-> Tail(call.todo), stage |-> "start", known |-> call.known, seen |-> "none"]
        BY <3>2, <4>1 DEF Continues
      <4>3. QED
        BY <4>2
    <3>3. QED
      BY <1>5, <3>1, <3>2
  <2>4. ~Sent'
    BY <2>3 DEF Sent
  <2>5. QED
    BY <2>1, <2>2, <2>4, OrdersKeepRun
<1>6. CASE Stop \/ UNCHANGED vars
  <2>1. UNCHANGED <<fixed, step, attempt, call, outcomes, report, orders>>
    BY <1>6 DEF Stop, progress, vars
  <2>2. Sent' <=> Sent
    BY <2>1 DEF Sent
  <2>3. QED
    BY <2>1, <2>2, OrdersKeepRun DEF RunInv, PlacementInv
<1>7. QED
  BY <1>1, <1>2, <1>3, <1>4, <1>5, <1>6, CallerSteps
-----------------------------------------------------------------------------
(* The theorems. *)

\* The types hold in every execution of the adapters' order calls.
THEOREM MeaningHolds == SpotSpec => []MeaningInv
<1>1. SpotInit => MeaningInv
  BY SpotStart
<1>2. MeaningInv /\ [SpotNext]_vars => MeaningInv'
  BY MeaningStep
<1>3. QED
  BY <1>1, <1>2, PTL DEF SpotSpec

\* Whichever of the fifteen unified exchanges an order goes to, however often it is
\* placed and whatever the clients make of the answers: the native request asks for what
\* the caller asked for, and a final status the caller is told is the state of the order
\* for good (requests.go and toUnified...Status of every exchange).
THEOREM OrdersKeepMeaning == SpotSpec => []OrdersKeepTheirMeaning
<1>1. MeaningInv => OrdersKeepTheirMeaning
  <2>1. SUFFICES ASSUME MeaningInv PROVE SpotTypeOK /\ KeepsMeaning /\ FinalStatusIsTrue
    BY DEF OrdersKeepTheirMeaning
  <2>2. SpotTypeOK /\ FinalStatusIsTrue
    BY <2>1 DEF MeaningInv, TypedInv, ToldInv
  <2>3. ASSUME client \in SpotClients, \E i \in Attempts : orders[i] # "none"
        PROVE  Meaning(client, NativeOf(client, asked)) = Intent(asked)
    <3>1. asked \in UnifiedRequests /\ Takes(client, asked)
      BY <2>1, <2>3 DEF MeaningInv, AskedInv
    <3>2. client \in Unified /\ (client = "coinone" => CoinoneTakes(asked))
      BY <2>3, <3>1, SpotAssumption DEF Takes
    <3>3. QED
      BY <3>1, <3>2, NativeMeaning
  <2>4. QED
    BY <2>2, <2>3 DEF KeepsMeaning
<1>2. QED
  BY <1>1, MeaningHolds, PTL

\* The client stays the same, and so does what it makes of an answer.
LEMMA SafeStays == ClientReadsSafely /\ [SpotNext]_vars => ClientReadsSafely'
<1>1. ASSUME SpotNext \/ UNCHANGED vars PROVE client' = client
  <2>1. CASE CallerStep
    <3>1. CASE CheckEgress \/ CheckBook \/ Begin \/ Send
      BY <3>1, Zenon DEF CheckEgress, CheckBook, Begin, Send, fixed
    <3>2. CASE Refuse \/ FailLocally \/ FailStopped \/ LoseAnswer
      BY <3>2, Zenon DEF Refuse, FailLocally, FailStopped, LoseAnswer, fixed
    <3>3. CASE ReceiveRead \/ Receive
      BY <3>3, Zenon DEF ReceiveRead, Receive, fixed
    <3>4. QED
      BY <2>1, <3>1, <3>2, <3>3 DEF CallerStep
  <2>2. CASE ExchangeStep
    BY <2>2, Zenon DEF ExchangeStep, TakeOrder, TakeCancel, ServeRead, Trade, CarryOutCancel, Moves, fixed
  <2>3. CASE Stop \/ UNCHANGED vars
    BY <2>3, Zenon DEF Stop, vars, fixed
  <2>4. QED
    BY <1>1, <2>1, <2>2, <2>3 DEF SpotNext
<1>2. QED
  BY <1>1, Zenon DEF ClientReadsSafely

\* Whatever the client at work, if its error table reads the answers that occur safely.
THEOREM RunHolds == SpotSpec /\ ClientReadsSafely => [](ClientReadsSafely /\ RunInv)
<1>1. SpotInit => RunInv
  BY SpotStart
<1>2. MeaningInv /\ ClientReadsSafely /\ RunInv /\ [SpotNext]_vars => ClientReadsSafely' /\ RunInv'
  BY RunStep, SafeStays
<1>3. QED
  BY <1>1, <1>2, MeaningHolds, PTL DEF SpotSpec

\* A trader that repeats what may be repeated never has two orders; the trade smoke run
\* ends with its order cancelled or never accepted or at least with a cancellation tried,
\* reports success only if nothing is left, and cleans up when its caller gives up
\* (SpotTradeRunner.Run).  For every client whose error table reads the answers that
\* occur safely; Binance's, for one, does not read a broken answer so (finding 2).
THEOREM NothingIsLeft == SpotSpec /\ ClientReadsSafely => []RunLeavesNothing
<1>1. MeaningInv /\ RunInv => RunLeavesNothing
  <2>1. SUFFICES ASSUME MeaningInv, RunInv
                 PROVE  NoDoubleOrder /\ PassedMeansGone /\ LeftOverIsCleaned /\ CleanupOutlivesCaller
    BY DEF RunLeavesNothing
  <2>2. NoDoubleOrder
    <3> DEFINE standing == {i \in Attempts : orders[i] \notin {"none", "refused"}}
    <3>1. standing \subseteq {attempt}
      BY <2>1, LastAttempt DEF Unborn
    <3>2. IsFiniteSet({attempt}) /\ Cardinality({attempt}) = 1
      BY FS_Singleton
    <3>3. Cardinality(standing) <= 1
      BY <3>1, <3>2, FS_Subset
    <3>4. QED
      BY <3>3 DEF NoDoubleOrder
  <2>3. PassedMeansGone
    BY <2>1 DEF PassedMeansGone, RunInv, ReportInv, Gone, Checks
  <2>4. LeftOverIsCleaned
    BY <2>1 DEF LeftOverIsCleaned, RunInv, ReportInv, Unborn, Live
  <2>5. CleanupOutlivesCaller
    BY <2>1 DEF RunInv, ReportInv
  <2>6. QED
    BY <2>2, <2>3, <2>4, <2>5
<1>2. QED
  BY <1>1, MeaningHolds, RunHolds, PTL

\* No query reports an order missing that existed when the query began, though it looks
\* in one list after the other while the order moves between them
\* (resolveKrakenOrderByClientID, resolveCoinbaseOrder).  For every client whose error
\* table reads the answers that occur safely.
THEOREM QueriesFind == SpotSpec /\ ClientReadsSafely => FoundIfThere
<1>1. ASSUME ClientReadsSafely, MeaningInv, RunInv, [SpotNext]_vars
      PROVE  [(call.op = "query" /\ call' = Idle /\ told'.status = "missing") => ~call.known]_vars
  <2>1. SUFFICES ASSUME SpotNext, call.op = "query", call' = Idle, told'.status = "missing", call.known
                 PROVE  FALSE
    BY <1>1
  <2>2. call # Idle
    BY <2>1 DEF Idle
  <2>3. call = [op |-> call.op, todo |-> call.todo, stage |-> call.stage, known |-> call.known, seen |-> call.seen]
    BY <1>1, <2>2 DEF MeaningInv, TypedInv
  <2>4. CASE step \in Checks /\ EndsCall
    <3>1. PICK o, named, status, filled : Settled(o, status, filled) /\ Conclude(o, named, status, filled)
      BY <2>4 DEF EndsCall
    <3>2. step \in {"query", "verify"} /\ caller = "smoke"
      BY <1>1, <2>1, <2>2, Active DEF MeaningInv, TypedInv, SpotTypeOK
    <3>3. told' = Says(o, status, filled)
      BY <3>1, <3>2 DEF Conclude, Queried, Verified
    <3>4. o \notin {NotFound, Plain} /\ (o = Ok => status # "missing")
      BY <2>1, <3>1 DEF Settled
    <3>5. QED
      BY <2>1, <3>3, <3>4 DEF Says
  <2>5. CASE CheckEgress \/ CheckBook \/ Stop
    BY <2>1, <2>2, <2>5 DEF CheckEgress, CheckBook, Stop, progress
  <2>6. CASE Begin
    BY <2>2, <2>6 DEF Begin
  <2>7. CASE Send \/ Continues
    <3>1. call'.op = call.op
      BY <2>3, <2>7 DEF Send, Continues
    <3>2. QED
      BY <2>1, <3>1 DEF Idle
  <2>8. CASE ExchangeStep
    <3>1. CASE TakeOrder
      BY <2>1, <2>2, <2>3, <3>1 DEF TakeOrder, Serves, Idle
    <3>2. CASE TakeCancel
      BY <2>1, <2>2, <2>3, <3>2 DEF TakeCancel, Idle
    <3>3. CASE ServeRead
      <4>1. PICK seen : call' = [call EXCEPT !.stage = "served", !.seen = seen]
        BY <3>3 DEF ServeRead
      <4>2. call'.op = call.op
        BY <2>3, <4>1
      <4>3. QED
        BY <2>1, <4>2 DEF Idle
    <3>4. CASE Trade \/ CarryOutCancel
      BY <2>1, <2>2, <3>4 DEF Trade, CarryOutCancel, Moves, progress
    <3>5. QED
      BY <2>8, <3>1, <3>2, <3>3, <3>4 DEF ExchangeStep
  <2>9. QED
    BY <1>1, <2>1, <2>4, <2>5, <2>6, <2>7, <2>8, CallerSteps
<1>2. QED
  BY <1>1, MeaningHolds, RunHolds, PTL DEF SpotSpec, FoundIfThere

\* Steps that neither tell the caller anything nor make an order stand.
LEMMA QuietPlacement ==
  ASSUME MeaningInv, outcomes' = outcomes,
         \A i \in Attempts : (orders'[i] \in Standing) <=> (orders[i] \in Standing)
  PROVE  UNCHANGED Placement!contractVars
<1>1. Accepted' = Accepted
  BY DEF Accepted
<1>2. Verdicts' = Verdicts
  BY DEF Verdicts
<1>3. QED
  BY <1>1, <1>2 DEF Placement!contractVars

\* The result of a placement.
LEMMA EndTellsPlacement ==
  ASSUME MeaningInv, RunInv, step \in Checks, EndsCall
  PROVE  [Placement!ContractNext]_(Placement!contractVars)
<1>1. PICK o, named, status, filled : Settled(o, status, filled) /\ Conclude(o, named, status, filled)
  BY DEF EndsCall
<1>2. orders' = orders /\ attempt \in Attempts
  BY DEF EndsCall, MeaningInv, TypedInv, SpotTypeOK
<1>3. CASE step = "place"
  <2>1. outcomes[attempt] = Pending /\ outcomes' = [outcomes EXCEPT ![attempt] = o]
    BY <1>1, <1>3 DEF Conclude, RunInv, PlacementInv
  <2>2. \A i \in Attempts : outcomes'[i] = IF i = attempt THEN o ELSE outcomes[i]
    BY <2>1 DEF RunInv, PlacementInv
  <2>3. Verdicts' = [Verdicts EXCEPT ![attempt] = Verdict(o)]
    BY <1>2, <2>2 DEF Verdicts
  <2>4. Verdicts[attempt] = "pending"
    BY <1>2, <2>1 DEF Verdicts, Verdict
  <2>5. Verdict(o) \in {"failed", "unknown", "answered"}
    BY <1>1 DEF Settled, Verdict
  <2>6. Verdict(o) = "failed" => Placement!NeverExecuted(attempt)
    <3>1. Verdict(o) = "failed" => orders[attempt] \in Unborn
      BY <1>1, <1>3 DEF Settled
    <3>2. QED
      BY <3>1 DEF Placement!NeverExecuted, Accepted, Unborn, Standing, Live, Final
  <2>7. Accepted' = Accepted
    BY <1>2 DEF Accepted
  <2>8. Placement!Tell(attempt, Verdict(o))
    BY <2>3, <2>4, <2>6, <2>7 DEF Placement!Tell
  <2>9. QED
    BY <1>2, <2>5, <2>8 DEF Placement!ContractNext
<1>4. CASE step # "place"
  <2>1. outcomes' = outcomes
    BY <1>1, <1>4 DEF Conclude
  <2>2. QED
    BY <1>2, <2>1, QuietPlacement
<1>5. QED
  BY <1>3, <1>4

\* The exchange accepts an order: its placement has not been told of as failed.
LEMMA AcceptanceAllowed ==
  ASSUME MeaningInv, RunInv, TakeOrder
  PROVE  [Placement!ContractNext]_(Placement!contractVars)
<1>1. PICK i \in Attempts, state \in {"open", "refused"} : orders[i] = "flight" /\ orders' = [orders EXCEPT ![i] = state]
  BY DEF TakeOrder
<1>2. outcomes' = outcomes
  BY DEF TakeOrder
<1>3. \A j \in Attempts : orders'[j] = IF j = i THEN state ELSE orders[j]
  BY <1>1 DEF MeaningInv, TypedInv, SpotTypeOK
<1>4. CASE state = "refused"
  <2>1. \A j \in Attempts : (orders'[j] \in Standing) <=> (orders[j] \in Standing)
    BY <1>1, <1>3, <1>4 DEF Standing, Live, Final
  <2>2. QED
    BY <1>2, <2>1, QuietPlacement
<1>5. CASE state = "open"
  <2>1. Accepted' = Accepted \cup {<<i, 1>>}
    BY <1>1, <1>3, <1>5 DEF Accepted, Standing, Live
  <2>2. Placement!NeverExecuted(i)
    BY <1>1 DEF Placement!NeverExecuted, Accepted, Standing, Live, Final
  <2>3. Verdicts[i] # "failed"
    BY <1>1 DEF Verdicts, RunInv, PlacementInv, Unborn
  <2>4. Verdicts' = Verdicts
    BY <1>2 DEF Verdicts
  <2>5. Placement!ExchangeExecutes(i, 1)
    BY <2>1, <2>2, <2>3, <2>4 DEF Placement!ExchangeExecutes
  <2>6. QED
    BY <1>1, <2>5 DEF Placement!ContractNext
<1>6. QED
  BY <1>1, <1>4, <1>5

\* Through an error table that reads the answers that occur safely, placing an order
\* implements ExecutionContract: every placement is accepted at most once, and an error
\* other than "unknown" means that it was not accepted and never will be.  Of seven
\* clients the premise is false for damaged answers (the seven pairs MCDamage leaves out).
THEOREM PlacementContract == SpotSpec /\ ClientReadsSafely => ImplementsPlacement
<1>1. SpotInit => Placement!ContractInit
  <2>1. SUFFICES ASSUME SpotInit PROVE Placement!ContractInit
    OBVIOUS
  <2>2. Accepted = {}
    BY <2>1 DEF SpotInit, Accepted, Standing, Live, Final
  <2>3. Verdicts = [i \in Attempts |-> "pending"]
    BY <2>1 DEF SpotInit, Verdicts, Verdict
  <2>4. QED
    BY <2>2, <2>3 DEF Placement!ContractInit
<1>2. ASSUME ClientReadsSafely, MeaningInv, RunInv, [SpotNext]_vars
      PROVE  [Placement!ContractNext]_(Placement!contractVars)
  <2>1. CASE step \in Checks /\ EndsCall
    BY <1>2, <2>1, EndTellsPlacement
  <2>2. CASE TakeOrder
    BY <1>2, <2>2, AcceptanceAllowed
  <2>3. CASE Send
    <3>1. outcomes' = outcomes /\ attempt \in Attempts
      BY <1>2, <2>3 DEF Send, MeaningInv, TypedInv, SpotTypeOK
    <3>2. \A i \in Attempts : (orders'[i] \in Standing) <=> (orders[i] \in Standing)
      <4>1. CASE Head(call.todo) = "place"
        <5>1. step = "place" /\ ~Sent
          BY <1>2, <2>3, <4>1, Active DEF Send, MeaningInv, Sent
        <5>2. orders[attempt] = "none"
          BY <1>2, <5>1 DEF RunInv, PlacementInv
        <5>3. orders' = [orders EXCEPT ![attempt] = "flight"]
          BY <2>3, <4>1 DEF Send
        <5>4. \A i \in Attempts : orders'[i] = IF i = attempt THEN "flight" ELSE orders[i]
          BY <1>2, <5>3 DEF MeaningInv, TypedInv, SpotTypeOK
        <5>5. QED
          BY <5>2, <5>4 DEF Standing, Live, Final
      <4>2. CASE Head(call.todo) # "place"
        BY <2>3, <4>2 DEF Send
      <4>3. QED
        BY <4>1, <4>2
    <3>3. QED
      BY <1>2, <3>1, <3>2, QuietPlacement
  <2>4. CASE CheckEgress \/ CheckBook \/ Begin \/ Stop \/ Continues \/ TakeCancel \/ ServeRead \/ UNCHANGED vars
    <3>1. outcomes' = outcomes /\ orders' = orders
      BY <2>4 DEF CheckEgress, CheckBook, Begin, Stop, Continues, TakeCancel, ServeRead, progress, vars
    <3>2. QED
      BY <1>2, <3>1, QuietPlacement
  <2>5. CASE Trade \/ CarryOutCancel
    <3>1. PICK from \in {"open", "partial"}, to \in Standing : Moves(from, to)
      BY <2>5 DEF Trade, CarryOutCancel, Standing, Live, Final
    <3>2. PICK i \in Attempts : orders[i] = from /\ orders' = [orders EXCEPT ![i] = to]
      BY <3>1 DEF Moves
    <3>3. outcomes' = outcomes
      BY <3>1 DEF Moves, progress
    <3>4. \A j \in Attempts : orders'[j] = IF j = i THEN to ELSE orders[j]
      BY <1>2, <3>2 DEF MeaningInv, TypedInv, SpotTypeOK
    <3>5. \A j \in Attempts : (orders'[j] \in Standing) <=> (orders[j] \in Standing)
      BY <3>2, <3>4 DEF Standing, Live
    <3>6. QED
      BY <1>2, <3>3, <3>5, QuietPlacement
  <2>6. QED
    BY <1>2, <2>1, <2>2, <2>3, <2>4, <2>5, CallerSteps DEF ExchangeStep
<1>3. QED
  BY <1>1, <1>2, MeaningHolds, RunHolds, PTL DEF SpotSpec, ImplementsPlacement, Placement!ContractSpec
=============================================================================
