------------------------------ MODULE ReadRuns ------------------------------
(***************************************************************************)
(* Public reads through the unified adapters, made by a reader (one read   *)
(* of any kind) or by the smoke runner (SpotReadRunner.Run: the egress     *)
(* check and then every read in turn).  Time goes on between the pages of  *)
(* one read, trades may be missing from a minute, and an answer may be     *)
(* empty, double, about another market or unreadable.                      *)
(*                                                                         *)
(* Time is in half minutes since the market was listed; a candle is named  *)
(* by its number, start divided by length.                                 *)
(***************************************************************************)
EXTENDS MarketReads, FiniteSets, Functions

CONSTANTS
  Venues,          \* exchanges with a unified adapter
  Reads,           \* reads a reader may make: [kind, limit, minutes]
  Other,           \* a market nobody asked about
  Listings,        \* sequences of entries: what an exchange may list
  Depths,          \* [bids, asks]: levels an order book may have
  Tapes,           \* trades there may have been
  Histories,       \* which minutes had trades: "busy", "sparse", "gap", "silent"
  Starts,          \* times at which a read may begin
  MaxTicks,        \* half minutes that may pass during a read
  Unasked          \* levels, trades or candles sent when no number is asked

AllVenues == {"okx", "bybit", "bitget", "binance", "coinbase", "kraken", "gateio", "kucoin", "htx",
              "mexc", "cryptocom", "korbit", "coinone", "bithumb", "upbit"}
AllReads == [kind : {"markets", "ticker", "book", "trades", "candles", "balances"},
             limit : Nat, minutes : Nat \ {0}]

\* No page of a read reaches back to when the market was listed; an exchange that is asked
\* for no number sends at least as much as may be asked for.
ASSUME RunsAssumption ==
  /\ Venues \subseteq AllVenues /\ Reads \subseteq AllReads
  /\ Other \in STRING \ {Asked, NoName}
  /\ Listings \subseteq Seq(Entries)
  /\ Depths \subseteq [bids : Nat, asks : Nat, rows : {0}] /\ Tapes \subseteq Nat
  /\ {"busy", "gap", "silent"} \subseteq Histories
  /\ Starts # {} /\ Starts \subseteq Nat /\ \A t \in Starts : t > 6 * CandleDefault
  /\ MaxTicks \in Nat /\ Unasked \in Nat /\ Unasked >= 100 /\ Unasked >= 3 * CandleDefault

VARIABLES
  venue, caller,   \* the adapter and who uses it
  history, listing, stuck,  \* the exchange; a stuck one repeats its first page
  route,           \* what can be found out about the egress route; all these are fixed
  now, ticks,      \* the time, and how much of it passed during this read
  todo,            \* reads still to be made
  call,            \* the read in progress
  report,          \* the smoke runner's results, or the reader's one
  sent,            \* something was sent to the exchange
  held,            \* history: the answer to this read held data
  cancelled        \* the caller gave up

vars == <<venue, caller, history, listing, stuck, route,
          now, ticks, todo, call, report, sent, held, cancelled>>
fixedVars == <<venue, caller, history, listing, stuck, route>>

Idle == [status |-> "idle", result |-> Refused, list |-> NoListing, begun |-> 0, cursor |-> 0,
         plan |-> Newest(0, 0, Every), units |-> {}, starts |-> {}, ended |-> 0, error |-> "none",
         there |-> [bids |-> 0, asks |-> 0, rows |-> 0],
         odd |-> FALSE]  \* flips with every answer: one more answer is a step

(***************************************************************************)
(* The adapter of this venue.                                              *)
(***************************************************************************)
Accepts ==
  CASE venue = "okx" -> OkxAccepts [] venue = "bybit" -> BybitAccepts
    [] venue = "bitget" -> BitgetAccepts [] venue = "binance" -> BinanceAccepts
    [] venue = "coinbase" -> CoinbaseAccepts [] venue = "kraken" -> KrakenAccepts
    [] venue = "gateio" -> GateioAccepts [] venue = "kucoin" -> KucoinAccepts
    [] venue = "htx" -> HtxAccepts [] venue = "mexc" -> MexcAccepts
    [] venue = "cryptocom" -> CryptocomAccepts [] venue = "korbit" -> KorbitAccepts
    [] venue = "coinone" -> CoinoneAccepts [] venue = "bithumb" -> BithumbAccepts
    [] venue = "upbit" -> UpbitAccepts

Serves(kind, a) ==
  CASE venue = "okx" -> OkxServes(kind, a) [] venue = "bybit" -> BybitServes(kind, a)
    [] venue = "bitget" -> BitgetServes(kind, a) [] venue = "binance" -> BinanceServes(kind, a)
    [] venue = "coinbase" -> CoinbaseServes(kind, a) [] venue = "kraken" -> KrakenServes(kind, a)
    [] venue = "gateio" -> GateioServes(kind, a) [] venue = "kucoin" -> KucoinServes(kind, a)
    [] venue = "htx" -> HtxServes(kind, a) [] venue = "mexc" -> MexcServes(kind, a)
    [] venue = "cryptocom" -> CryptocomServes(kind, a) [] venue = "korbit" -> KorbitServes(kind, a)
    [] venue = "coinone" -> CoinoneServes(kind, a) [] venue = "bithumb" -> BithumbServes(kind, a)
    [] venue = "upbit" -> UpbitServes(kind, a)

TickerOf(a) ==
  CASE venue = "okx" -> OkxTicker(a) [] venue = "bybit" -> BybitTicker(a)
    [] venue = "bitget" -> BitgetTicker(a) [] venue = "binance" -> BinanceTicker(a)
    [] venue = "coinbase" -> CoinbaseTicker(a) [] venue = "kraken" -> KrakenTicker(a)
    [] venue = "gateio" -> GateioTicker(a) [] venue = "kucoin" -> KucoinTicker(a)
    [] venue = "htx" -> HtxTicker(a) [] venue = "mexc" -> MexcTicker(a)
    [] venue = "cryptocom" -> CryptocomTicker(a) [] venue = "korbit" -> KorbitTicker(a)
    [] venue = "coinone" -> CoinoneTicker(a) [] venue = "bithumb" -> BithumbTicker(a)
    [] venue = "upbit" -> UpbitTicker(a)

BookPlan(n) ==
  CASE venue = "okx" -> OkxBook(n) [] venue = "bybit" -> BybitBook(n)
    [] venue = "bitget" -> BitgetBook(n) [] venue = "binance" -> BinanceBook(n)
    [] venue = "coinbase" -> CoinbaseBook(n) [] venue = "kraken" -> KrakenBook(n)
    [] venue = "gateio" -> GateioBook(n) [] venue = "kucoin" -> KucoinBook(n)
    [] venue = "htx" -> HtxBook(n) [] venue = "mexc" -> MexcBook(n)
    [] venue = "cryptocom" -> CryptocomBook(n) [] venue = "korbit" -> KorbitBook(n)
    [] venue = "coinone" -> CoinoneBook(n) [] venue = "bithumb" -> BithumbBook(n)
    [] venue = "upbit" -> UpbitBook(n)

TradesPlan(n) ==
  CASE venue = "okx" -> OkxTrades(n) [] venue = "bybit" -> BybitTrades(n)
    [] venue = "bitget" -> BitgetTrades(n) [] venue = "binance" -> BinanceTrades(n)
    [] venue = "coinbase" -> CoinbaseTrades(n) [] venue = "kraken" -> KrakenTrades(n)
    [] venue = "gateio" -> GateioTrades(n) [] venue = "kucoin" -> KucoinTrades(n)
    [] venue = "htx" -> HtxTrades(n) [] venue = "mexc" -> MexcTrades(n)
    [] venue = "cryptocom" -> CryptocomTrades(n) [] venue = "korbit" -> KorbitTrades(n)
    [] venue = "coinone" -> CoinoneTrades(n) [] venue = "bithumb" -> BithumbTrades(n)
    [] venue = "upbit" -> UpbitTrades(n)

CandlesPlan(d, n) ==
  CASE venue = "okx" -> OkxCandles(d, n) [] venue = "bybit" -> BybitCandles(d, n)
    [] venue = "bitget" -> BitgetCandles(d, n) [] venue = "binance" -> BinanceCandles(d, n)
    [] venue = "coinbase" -> CoinbaseCandles(d, n) [] venue = "kraken" -> KrakenCandles(d, n)
    [] venue = "gateio" -> GateioCandles(d, n) [] venue = "kucoin" -> KucoinCandles(d, n)
    [] venue = "htx" -> HtxCandles(d, n) [] venue = "mexc" -> MexcCandles(d, n)
    [] venue = "cryptocom" -> CryptocomCandles(d, n) [] venue = "korbit" -> KorbitCandles(d, n)
    [] venue = "coinone" -> CoinoneCandles(d, n) [] venue = "bithumb" -> BithumbCandles(d, n)
    [] venue = "upbit" -> UpbitCandles(d, n)

MarketsOf(l, p) ==
  CASE venue = "okx" -> OkxMarkets(l, p) [] venue = "bybit" -> BybitMarkets(l, p)
    [] venue = "bitget" -> BitgetMarkets(l, p) [] venue = "binance" -> BinanceMarkets(l, p)
    [] venue = "coinbase" -> CoinbaseMarkets(l, p) [] venue = "kraken" -> KrakenMarkets(l, p)
    [] venue = "gateio" -> GateioMarkets(l, p) [] venue = "kucoin" -> KucoinMarkets(l, p)
    [] venue = "htx" -> HtxMarkets(l, p) [] venue = "mexc" -> MexcMarkets(l, p)
    [] venue = "cryptocom" -> CryptocomMarkets(l, p) [] venue = "korbit" -> KorbitMarkets(l, p)
    [] venue = "coinone" -> CoinoneMarkets(l, p) [] venue = "bithumb" -> BithumbMarkets(l, p)
    [] venue = "upbit" -> UpbitMarkets(l, p)

(***************************************************************************)
(* The exchange (external).                                                *)
(***************************************************************************)
Sent(ask, n) == Least(n, OrElse(ask, Unasked))
About(m) == [Blank EXCEPT !.name = m, !.price = TRUE]

\* Right answers and wrong ones; e(m) is the entry of market m.
Answers(e(_)) ==
  {<<e(Asked)>>, <<>>, <<e(Asked), e(Asked)>>, <<e(Other)>>, <<e(Asked), e(Other)>>,
   <<[e(Asked) EXCEPT !.sound = FALSE]>>}

Traded(m) ==
  CASE history = "busy" -> TRUE
    [] history = "sparse" -> m % 3 # 1
    [] history = "gap" -> (m \div 3) % 4 # 1
    [] history = "silent" -> FALSE

\* The candle of "unit" minutes number u exists: it saw a trade by time t.
HasCandle(unit, u, t) == \E m \in (unit * u)..(unit * u + unit - 1) : 2 * m <= t /\ Traded(m)

\* The newest n of some candle numbers, all of them for Every.
NewestOf(units, n) == {u \in units : n = Every \/ Cardinality({w \in units : u < w}) < n}

Ceiling(n, d) == (n + (d - 1)) \div d

\* The newest n candles that start in the window from..to.
CandlesSent(unit, from, to, n) ==
  NewestOf({u \in Ceiling(from, 2 * unit)..(Least(to, now) \div (2 * unit)) : HasCandle(unit, u, now)}, n)

(***************************************************************************)
(* A read.                                                                 *)
(***************************************************************************)
read == Head(todo)
Running == todo # <<>> /\ call.status = "running"
Plan == call.plan

\* A window begins so many minutes before the clock's time, and not before 0.
WindowStart(plan) == IF plan.back = 0 \/ 2 * plan.back > now THEN 0 ELSE now - 2 * plan.back

\* The last page ends with the read; a page asks for the minutes it spans.
PageEnd == IF Plan.page = 0 THEN call.begun ELSE Least(call.begun, call.cursor + 2 * Plan.page)
PageAsk == IF Plan.page = 0 THEN Plan.ask ELSE Ceiling(PageEnd - call.cursor, 2)

Ask ==
  CASE read.kind = "book" -> BookPlan(read.limit).ask
    [] read.kind = "trades" -> TradesPlan(read.limit).ask
    [] read.kind = "candles" -> PageAsk
    [] OTHER -> 0

Sized == read.kind \in {"book", "trades", "candles"}

\* Validate of the unified requests: the most that may be asked for.
Validate(r) ==
  r.limit <= CASE r.kind = "book" -> 16 [] r.kind = "trades" -> 100 [] r.kind = "candles" -> CandleDefault

Sendable == Sized => Validate(read) /\ Ask \in Accepts[read.kind]
EndedWith(error) == [call EXCEPT !.status = "failed", !.error = error]

\* The unified call validates and looks at its clock before the first request.
Begin ==
  /\ todo # <<>> /\ call.status = "idle"
  /\ caller = "smoke" => report # <<>>
  /\ LET plan == IF read.kind = "candles" THEN CandlesPlan(read.minutes, read.limit) ELSE Idle.plan
     IN call' = [Idle EXCEPT !.status = "running", !.begun = now, !.plan = plan, !.cursor = WindowStart(plan)]
  /\ UNCHANGED <<fixedVars, now, ticks, todo, report, sent, held, cancelled>>

\* The unified or the native request refuses a size before anything is sent.
Refuse ==
  /\ Running /\ ~Sendable
  /\ call' = EndedWith("refused")
  /\ UNCHANGED <<fixedVars, now, ticks, todo, report, sent, held, cancelled>>

MayAnswer == Running /\ ~cancelled /\ Sendable

\* The answer ends the read or a page of it; "full" tells whether it held data.
Answered(c, full) ==
  /\ call' = [c EXCEPT !.odd = ~call.odd]
  /\ sent' = TRUE /\ held' = full
  /\ UNCHANGED <<fixedVars, now, ticks, todo, report, cancelled>>

Holds(a, P(_)) == \E i \in DOMAIN a : P(a[i])
Done(result) == IF result.ok THEN [call EXCEPT !.status = "done", !.result = result, !.ended = now]
                ELSE EndedWith("plain")

AnswerTicker ==
  /\ MayAnswer /\ read.kind = "ticker"
  /\ \E a \in Answers(About) :
       Answered(IF Serves("ticker", a) THEN Done(TickerOf(a)) ELSE EndedWith("api"),
                Holds(a, LAMBDA e : e.price))

BookOf(plan, a) ==
  LET e == Object(a) IN
     IF plan.single /\ Len(a) # 1 THEN Refused
     ELSE [Priced(e, IF plan.label = "own" THEN e.name ELSE Asked)
             EXCEPT !.bids = Kept(e.bids, plan.keep), !.asks = Kept(e.asks, plan.keep)]

AnswerBook ==
  /\ MayAnswer /\ read.kind = "book"
  /\ \E d \in Depths :
       LET Entry1(m) == [About(m) EXCEPT !.bids = Sent(Ask, d.bids), !.asks = Sent(Ask, d.asks)]
       IN \E a \in Answers(Entry1) :
            Answered([IF Serves("book", a) THEN Done(BookOf(BookPlan(read.limit), a)) ELSE EndedWith("api")
                        EXCEPT !.there = d],
                     Holds(a, LAMBDA e : e.bids > 0 /\ e.asks > 0))

TradesOf(plan, a) ==
  IF plan.own /\ \E i \in DOMAIN a : a[i].name # Asked THEN Refused
  ELSE [Priced(Object(a), NoName) EXCEPT !.rows = Kept(Object(a).rows, plan.keep)]

\* HTX sends batches of trades, here of two; the others send trades.
AnswerTrades ==
  /\ MayAnswer /\ read.kind = "trades"
  /\ \E n \in Tapes :
       LET Entry1(m) == [About(m) EXCEPT !.rows =
                           IF venue = "htx" THEN Least(n, 2 * Sent(Ask, n)) ELSE Sent(Ask, n)]
       IN \E a \in Answers(Entry1) :
            Answered([IF Serves("trades", a) THEN Done(TradesOf(TradesPlan(read.limit), a)) ELSE EndedWith("api")
                        EXCEPT !.there.rows = n],
                     Holds(a, LAMBDA e : e.rows > 0))

\* Mutant of AggregateCandles: buckets are counted from the oldest candle.
AggregateCandlesUnaligned(units, limit) ==
  LET first == IF units = {} THEN 0 ELSE CHOOSE u \in units : \A w \in units : u <= w
  IN NewestOf({b \in 0..(now \div 6) : \E u \in units : (u - (first % 3)) \div 3 = b}, limit)

\* Merge 1-minute candles into 3-minute ones, and keep the newest.
AggregateCandles(units, limit) ==
  NewestOf({b \in 0..(now \div 6) : \E m \in (3 * b)..(3 * b + 2) : m \in units}, limit)

Merges == read.minutes = 3 /\ Plan.unit = 1

CandlesOf(units) ==
  IF Merges THEN AggregateCandles(units, Plan.keep) ELSE NewestOf(units, Plan.keep)

\* Mutant of NextPage: the next page begins a minute after the last one.
NextPageSkips(c, to) == [c EXCEPT !.cursor = to + 2]

NextPage(c, to) == [c EXCEPT !.cursor = to]

CandlesPage ==
  CandlesSent(Plan.unit, call.cursor, IF Plan.closed THEN PageEnd ELSE now, OrElse(Ask, Unasked))

AnswerCandles ==
  /\ MayAnswer /\ read.kind = "candles"
  /\ \/ \E units \in {call.units \cup CandlesPage} :
        LET taken == NextPage([call EXCEPT !.units = units], PageEnd)
        IN Answered(IF Plan.page # 0 /\ taken.cursor < call.begun THEN taken
                    ELSE [taken EXCEPT !.status = "done", !.ended = now, !.starts = CandlesOf(units),
                                       !.result.ok = TRUE],
                    units # {})
     \/ \E a \in {<<>>, <<About(Other)>>, <<[About(Asked) EXCEPT !.sound = FALSE]>>} :
          /\ ~Serves("candles", a)
          /\ Answered(EndedWith("api"), FALSE)

\* Pages of the listing, or all of it; a stuck exchange repeats the first.
ListingPage ==
  LET at == IF stuck THEN 0 ELSE call.list.at
      last == Least(Len(listing), at + MarketPage)
  IN IF venue \in {"bybit", "coinbase"}
     THEN [items |-> SubSeq(listing, at + 1, last), next |-> IF last < Len(listing) THEN last ELSE 0]
     ELSE [items |-> listing, next |-> 0]

AnswerMarkets ==
  /\ MayAnswer /\ read.kind = "markets"
  /\ LET l == MarketsOf(call.list, ListingPage) IN
       Answered(CASE l.status = "running" -> [call EXCEPT !.list = l]
                  [] l.status = "listed" ->
                       [call EXCEPT !.list = l, !.status = "done", !.ended = now, !.result.ok = TRUE]
                  [] l.status = "failed" -> EndedWith("plain"),
                \E i \in DOMAIN listing : listing[i].name = Asked /\ listing[i].spot)

\* Balances as AccountLists has them: here they are readable or not.
AnswerBalances ==
  /\ MayAnswer /\ read.kind = "balances"
  /\ \E fine \in BOOLEAN :
       Answered([call EXCEPT !.status = "done", !.ended = now, !.result.ok = TRUE, !.result.price = fine],
                fine)

\* The exchange refuses, the request is lost or late, or the caller gave up.
FailCall ==
  /\ Running /\ Sendable
  /\ call' = EndedWith("api")
  /\ sent' = (sent \/ ~cancelled)
  /\ UNCHANGED <<fixedVars, now, ticks, todo, report, held, cancelled>>

(***************************************************************************)
(* The smoke runner: SpotReadRunner.Run.                                   *)
(***************************************************************************)
\* Whether the answer that passed held data is history.
Result(name, status) == [name |-> name, status |-> status, held |-> status = "passed" /\ held]

ReadOf(kind, limit) == [kind |-> kind, limit |-> limit, minutes |-> 1]

Checks(balances) ==
  <<ReadOf("markets", 0), ReadOf("ticker", 0), ReadOf("book", 5), ReadOf("trades", 5), ReadOf("candles", 5)>>
    \o (IF balances THEN <<ReadOf("balances", 0)>> ELSE <<>>)

\* What the verifier may report of the route (external).
RouteChecks == {"matches", "mismatch", "no expected address", "another route", "fails", "late"}

\* Mutant of verifyEgress: a route without an expected address passes.
verifyEgressUnpinned(check) ==
  Result("egress_ip", IF check \in {"matches", "no expected address"} THEN "passed" ELSE "failed")

verifyEgress(check) == Result("egress_ip", IF check = "matches" THEN "passed" ELSE "failed")

\* Mutant of RunAfterEgress: the reads that were not made are not reported.
RunAfterEgressSilent(check) ==
  LET first == verifyEgress(check) IN
    /\ report' = <<first>>
    /\ todo' = IF first.status = "passed" THEN todo ELSE <<>>

\* Without a verified route every read is skipped.
RunAfterEgress(check) ==
  LET first == verifyEgress(check) IN
    IF first.status = "passed" THEN report' = <<first>> /\ UNCHANGED todo
    ELSE /\ report' = <<first>> \o [i \in DOMAIN todo |-> Result(todo[i].kind, "skipped")]
         /\ todo' = <<>>

CheckEgress ==
  /\ caller = "smoke" /\ report = <<>>
  /\ RunAfterEgress(route)
  /\ UNCHANGED <<fixedVars, now, ticks, call, sent, held, cancelled>>

checkMarkets == \E e \in call.list.listed : e.name = Asked
checkTicker == call.result.label # NoName /\ call.result.price

\* Mutant of checkOrderBook: one side is enough.
checkOrderBookOneSide == call.result.label # NoName /\ call.result.bids + call.result.asks > 0

checkOrderBook == call.result.label # NoName /\ call.result.bids > 0 /\ call.result.asks > 0
checkRecentTrades == call.result.rows > 0
checkCandles == call.starts # {}
checkBalances == call.result.price

HasEvidence ==
  CASE read.kind = "markets" -> checkMarkets [] read.kind = "ticker" -> checkTicker
    [] read.kind = "book" -> checkOrderBook [] read.kind = "trades" -> checkRecentTrades
    [] read.kind = "candles" -> checkCandles [] read.kind = "balances" -> checkBalances

executeCheck == Result(read.kind, IF call.status = "done" /\ HasEvidence THEN "passed" ELSE "failed")

\* Mutant of Conclude: a failed check is made again.
ConcludeRetry ==
  /\ caller = "smoke" /\ todo # <<>>
  /\ call.status \in {"done", "failed"}
  /\ report' = Append(report, executeCheck)
  /\ todo' = IF executeCheck.status = "failed" THEN todo ELSE Tail(todo)
  /\ call' = Idle /\ ticks' = 0 /\ held' = FALSE
  /\ UNCHANGED <<fixedVars, now, sent, cancelled>>

\* The runner notes the result and goes on with the next check.
Conclude ==
  /\ caller = "smoke" /\ todo # <<>>
  /\ call.status \in {"done", "failed"}
  /\ report' = Append(report, executeCheck)
  /\ todo' = Tail(todo)
  /\ call' = Idle /\ ticks' = 0 /\ held' = FALSE
  /\ UNCHANGED <<fixedVars, now, sent, cancelled>>

(***************************************************************************)
(* The environment, and the specification.                                 *)
(***************************************************************************)
Tick ==
  /\ Running /\ read.kind = "candles" /\ ticks < MaxTicks
  /\ now' = now + 1 /\ ticks' = ticks + 1
  /\ UNCHANGED <<fixedVars, todo, call, report, sent, held, cancelled>>

Cancel ==
  /\ ~cancelled /\ todo # <<>> /\ call.status \in {"idle", "running"}
  /\ cancelled' = TRUE
  /\ UNCHANGED <<fixedVars, now, ticks, todo, call, report, sent, held>>

Earliest == CHOOSE x \in Starts : \A y \in Starts : x <= y

\* Two exchanges list more than spot markets, and one lists unnamed pairs.
ListedBy(e) == (e.spot \/ venue \in {"binance", "cryptocom"}) /\ (e.named \/ venue = "kraken")

Init ==
  /\ venue \in Venues
  /\ \/ /\ caller = "reader"
        /\ \E r \in Reads :
             /\ todo = <<r>>
             /\ history \in (IF r.kind = "candles" THEN Histories ELSE {"busy"})
             /\ now \in (IF r.kind = "candles" THEN Starts ELSE {Earliest})
             /\ listing \in (IF r.kind = "markets" THEN Listings ELSE {<<>>})
             /\ stuck \in (IF r.kind = "markets" THEN BOOLEAN ELSE {FALSE})
        /\ route = "matches"
     \/ /\ caller = "smoke"
        /\ \E balances \in BOOLEAN : todo = Checks(balances)
        /\ history \in {"gap", "silent"} /\ now = Earliest
        /\ listing \in Listings /\ stuck = FALSE
        /\ route \in RouteChecks
  /\ \A i \in DOMAIN listing : ListedBy(listing[i])
  /\ ticks = 0 /\ call = Idle /\ report = <<>> /\ sent = FALSE /\ held = FALSE /\ cancelled = FALSE

Answer ==
  AnswerTicker \/ AnswerBook \/ AnswerTrades \/ AnswerCandles \/ AnswerMarkets \/ AnswerBalances

Next == CheckEgress \/ Begin \/ Refuse \/ Answer \/ FailCall \/ Conclude \/ Tick \/ Cancel

\* Every request is answered or times out, and the code goes on by itself.
Spec ==
  /\ Init /\ [][Next]_vars
  /\ WF_vars(CheckEgress) /\ WF_vars(Begin) /\ WF_vars(Refuse) /\ WF_vars(Conclude)
  /\ WF_vars(Answer \/ FailCall)

(***************************************************************************)
(* Properties                                                              *)
(***************************************************************************)
\* The variables have their types.
ReadsTypeOK ==
  /\ venue \in Venues /\ caller \in {"reader", "smoke"}
  /\ history \in Histories /\ route \in RouteChecks
  /\ now \in Nat /\ ticks \in 0..MaxTicks
  /\ call.status \in {"idle", "running", "done", "failed"}
  /\ call.units \subseteq Nat /\ call.starts \subseteq Nat
  /\ sent \in BOOLEAN /\ held \in BOOLEAN
  /\ Len(todo) <= 6 /\ Len(report) <= 7

Finished(kind) == todo # <<>> /\ call.status = "done" /\ read.kind = kind

\* A request that the unified Validate lets through (every default, and the
\* sizes at the edge of a step of Coinone's and HTX's depths and of a page)
\* is never turned down by the native client's own validate.
ValidReadsAreSent == call.error = "refused" => ~Validate(read)

\* A reader that names a limit gets exactly that many levels of each side and
\* that many trades, or all there are, although exchanges are asked for 5, 10,
\* 15, 16 or 20 levels, for batches, or for no number at all; and never more
\* candles than the limit.
SizesAreExact ==
  (todo # <<>> /\ read.limit > 0) =>
    /\ (Finished("book") /\ call.result.of = Asked) =>
         /\ call.result.bids = Least(read.limit, call.there.bids)
         /\ call.result.asks = Least(read.limit, call.there.asks)
    /\ (Finished("trades") /\ call.result.of = Asked) => call.result.rows = Least(read.limit, call.there.rows)
    /\ Finished("candles") => Cardinality(call.starts) <= read.limit

\* Answers of these reads carry no market name that could be compared.
Unnamed(kind) ==
  IF kind = "ticker" THEN {"kucoin", "htx"}
  ELSE {"okx", "bitget", "binance", "gateio", "kucoin", "htx", "mexc", "korbit"}

\* NativeMarket in a ticker or book is the market that the prices are of: an
\* answer about another market is refused, or shows as such.
LabelsAreTrue ==
  \A kind \in {"ticker", "book"} :
    (Finished(kind) /\ call.result.label # NoName /\ venue \notin Unnamed(kind)) =>
      call.result.label = call.result.of

\* Candle number b of d minutes is one of the last n by the clock at time t.
AmongLast(b, d, n, t) == t \div (2 * d) - n < b /\ b <= t \div (2 * d)

\* One of the last 3-minute buckets asked for has no trades.
Quiet ==
  \E b \in 0..(call.begun \div 6) :
    AmongLast(b, 3, OrElse(read.limit, CandleDefault), call.begun) /\ ~HasCandle(3, b, call.begun)

\* Every 1-minute candle of a merged bucket that existed when the read began.
MergedWhole ==
  (Finished("candles") /\ Merges) =>
    \A b \in call.starts : \A m \in (3 * b)..(3 * b + 2) :
      (2 * m <= call.begun /\ Traded(m)) => m \in call.units

\* A 3-minute candle merged from 1-minute ones is made of all the minutes of
\* its bucket, across page borders and whatever the phase of the clock; where
\* the minutes are asked for by a window (Coinbase, Korbit, Kraken), provided
\* that none of the last buckets is without trades.
CandlesAreWhole ==
  (Finished("candles") /\ ~(venue \in {"coinbase", "korbit", "kraken"} /\ Quiet)) => MergedWhole

\* The same without the proviso: what UNIFIED_SPOT.md promises of 3-minute
\* candles at every exchange.
MergedCandlesAreWhole == MergedWhole

\* No candle that saw a trade is left out of the last "limit" ones, although
\* time goes on between the request and the answer, or between two pages.
RecentCandlesAreThere ==
  (Finished("candles") /\ read.limit > 0) =>
    \A b \in 0..(call.begun \div (2 * read.minutes)) :
      (/\ AmongLast(b, read.minutes, read.limit, call.begun)
       /\ AmongLast(b, read.minutes, read.limit, call.ended)
       /\ HasCandle(read.minutes, b, call.begun)) => b \in call.starts

\* Markets returns every spot market of the listing and nothing else, over all
\* pages, and where the adapter rebuilds native names, only markets whose name
\* it rebuilds; an exchange that repeats a page is found out.
MarketsAreComplete ==
  Finished("markets") =>
    /\ call.list.listed = {e \in Range(listing) : e.spot /\ e.named}
    /\ venue \in {"gateio", "kucoin", "htx", "mexc", "cryptocom"} => \A e \in call.list.listed : e.fits

\* The smoke runner sends nothing to the exchange over a route whose public
\* address was not observed to be the expected one.
UnverifiedRouteIsUnused == (caller = "smoke" /\ sent) => route = "matches"

\* A finished report lists the egress check and every read once and in order,
\* also after failures and after the caller gave up.
ReportIsComplete ==
  (caller = "smoke" /\ todo = <<>>) =>
    \E balances \in BOOLEAN :
      [i \in DOMAIN report |-> report[i].name] =
        <<"egress_ip">> \o [i \in DOMAIN Checks(balances) |-> Checks(balances)[i].kind]

\* The smoke runner passes a read only when the exchange's answer held data:
\* the market itself, a price, levels on both sides, trades, candles.
PassedChecksHeldData ==
  \A i \in DOMAIN report : (i > 1 /\ report[i].status = "passed") => report[i].held

\* The smoke report is true and complete, and nothing used an unverified route.
SmokeReportIsTrue == UnverifiedRouteIsUnused /\ ReportIsComplete /\ PassedChecksHeldData

\* A read that the interface allows is made, and its answer has the size asked for,
\* is of the market it names, and is complete.
ReadsAreRight ==
  ReadsTypeOK /\ ValidReadsAreSent /\ SizesAreExact /\ LabelsAreTrue /\ MarketsAreComplete

\* Candles are merged from all their minutes, but for windows with quiet buckets at Coinbase,
\* Korbit and Kraken, and at every exchange none of the last ones is missing.
CandlesAreRight == CandlesAreWhole /\ RecentCandlesAreThere

\* Every read ends, page after page, and every run delivers its report, also
\* when the exchange repeats itself or the caller gives up.
ReadsEnd == <>(todo = <<>> \/ (caller = "reader" /\ call.status \in {"done", "failed"}))
=============================================================================
