---------------------------- MODULE AccountLists ----------------------------
(***************************************************************************)
(* Reading an account through a unified adapter: OpenOrders (of one market *)
(* or of all) and Balances.  Many exchanges hand the list out in pages, so *)
(* that orders open and close between two requests of one call, and some   *)
(* want other lists first: the account, the markets, the symbols in use.   *)
(* Each answer is the state of the exchange at one moment, unless the      *)
(* exchange is wrong (stuck at its first page, no cursor, a foreign order, *)
(* a repeated or missing name): a wrong answer sets "lied".                *)
(***************************************************************************)
EXTENDS Integers, Sequences, SequencesExt

CONSTANTS
  Venues,          \* exchanges with a unified adapter
  Markets,
  Books,           \* sequences of markets: what may be open at the start
  PageSize,        \* orders on a page (50 to 1000 in the code)
  BatchSize,       \* mexcUnifiedOpenOrderBatchSize
  HtxPages,        \* pages HTX is asked for at most (100)
  GateioPages,     \* pages Gate.io is asked for at most (101)
  MaxChanges,      \* orders that open or close during one listing
  Wallets          \* [free, held, owed, credit]: funds an account may have

All == "all"

ASSUME ListsAssumption ==
  /\ \A n \in {PageSize, BatchSize, HtxPages, GateioPages} : n \in Nat \ {0}
  /\ MaxChanges \in Nat
  /\ All \notin Markets /\ "" \notin Markets
  /\ \A b \in Books : b \in Seq(Markets)

VARIABLES
  venue, asked,    \* the call: [what |-> orders or balances, scope |-> a market or All]
  wallet,          \* the funds of the account; these three never change
  list,            \* the call in progress
  book,            \* the exchange: open orders (or accounts), newest first
  opens, closes,   \* how many opened and closed since the call began
  standing,        \* those open since the call began
  cut,             \* an answer left out orders without saying so
  lied             \* an answer was wrong

vars == <<venue, asked, wallet, list, book, opens, closes, standing, cut, lied>>
exchangeVars == <<book, opens, closes, standing>>

NoCursor == 0
NoFunds == [available |-> -1, locked |-> -1]
OrdersOf(markets) == SelectSeq(book, LAMBDA o : o.market \in markets)
Ids(orders) == {orders[i].id : i \in DOMAIN orders}

Listing ==
  [status |-> "running", step |-> "list", todo |-> <<>>, names |-> {}, after |-> NoCursor,
   page |-> 1, seen |-> {}, totals |-> [m \in Markets |-> 0], counts |-> [m \in Markets |-> 0],
   got |-> <<>>, funds |-> NoFunds]

Fail(l) == [l EXCEPT !.status = "failed"]
Finish(l) == [l EXCEPT !.status = "listed"]

One == asked.scope # All
ScopeMarkets == IF One THEN {asked.scope} ELSE Markets

\* Take the orders of a page, each with the market the adapter gives it.
Taken(l, items, Label(_)) ==
  [l EXCEPT !.got = @ \o [i \in DOMAIN items |->
                            [id |-> items[i].id, market |-> items[i].market, label |-> Label(items[i])]]]

OwnMarket(o) == o.market
RequestedOrOwn(o) == IF One THEN asked.scope ELSE o.market
RequestedOrNone(o) == IF One THEN asked.scope ELSE ""

\* Mutant of Follow: a cursor seen before makes the listing start over.
FollowOrStartOver(l, cursor) ==
  IF cursor = NoCursor THEN Fail(l)
  ELSE IF cursor \in l.seen THEN [l EXCEPT !.seen = {}, !.after = NoCursor, !.got = <<>>]
  ELSE [l EXCEPT !.seen = @ \cup {cursor}, !.after = cursor]

\* Ask for the page after this cursor, which must be there and must be new.
Follow(l, cursor) ==
  IF cursor = NoCursor \/ cursor \in l.seen THEN Fail(l)
  ELSE [l EXCEPT !.seen = @ \cup {cursor}, !.after = cursor]

(***************************************************************************)
(* OpenOrders: what each adapter makes of one answer p to its order query. *)
(* A page has items, the cursor after them, whether more follow, and its   *)
(* number and the number of pages; Gate.io groups the items by market.     *)
(***************************************************************************)
LastOf(p) == IF p.items = <<>> THEN NoCursor ELSE p.cursor

\* Mutant of OkxOpenOrders: a full page is taken for the last one.
OkxOpenOrdersShort(l, p) == Finish(Taken(l, p.items, RequestedOrOwn))

OkxOpenOrders(l, p) ==
  LET taken == Taken(l, p.items, RequestedOrOwn) IN
    IF Len(p.items) < PageSize THEN Finish(taken) ELSE Follow(taken, LastOf(p))

BybitOpenOrders(l, p) ==
  LET taken == Taken(l, p.items, RequestedOrNone) IN
    IF ~p.more \/ p.cursor = NoCursor THEN Finish(taken) ELSE Follow(taken, p.cursor)

BithumbOpenOrders(l, p) ==
  LET taken == Taken(l, p.items, RequestedOrOwn) IN
    IF p.more THEN Follow(taken, p.cursor) ELSE Finish(taken)

CoinbaseOpenOrders(l, p) ==
  LET taken == Taken(l, p.items, RequestedOrOwn) IN
    IF p.more THEN Follow(taken, p.cursor) ELSE Finish(taken)

\* Only symbols that were asked about, or that Markets listed, are known.
HtxOpenOrders(l, p) ==
  LET taken == Taken(l, p.items, OwnMarket) IN
    IF \E i \in DOMAIN p.items : p.items[i].market \notin l.names THEN Fail(l)
    ELSE IF Len(p.items) < PageSize THEN Finish(taken)
    ELSE IF l.page = HtxPages THEN Fail(l)
    ELSE [Follow(taken, LastOf(p)) EXCEPT !.page = @ + 1]

\* All orders that the totals promise are there.
GateioComplete(l) == \A m \in ScopeMarkets : l.counts[m] >= l.totals[m]

\* Mutant of GateioMoved: a total may change from page to page.
GateioMovedNever(l, p, m) == FALSE

\* The total of a market differs from the one an earlier page gave.
GateioMoved(l, p, m) == l.totals[m] # 0 /\ l.totals[m] # p.totals[m]

GateioOpenOrders(l, p) ==
  LET wanted == SelectSeq(p.items, LAMBDA o : o.market \in ScopeMarkets)
      groups == {o.market : o \in ToSet(wanted)}
      taken == [Taken(l, wanted, OwnMarket) EXCEPT
                  !.totals = [m \in Markets |-> IF m \in groups THEN p.totals[m] ELSE @[m]],
                  !.counts = [m \in Markets |-> @[m] + Len(SelectSeq(wanted, LAMBDA o : o.market = m))]]
  IN IF \E m \in groups : GateioMoved(l, p, m) \/ taken.counts[m] > p.totals[m] THEN Fail(l)
     ELSE IF GateioComplete(taken) THEN Finish(taken)
     ELSE IF l.page >= GateioPages THEN Fail(l)
     ELSE [taken EXCEPT !.page = @ + 1]

\* The next symbol, once all pages of one are read.
KucoinNext(l) ==
  IF Len(l.todo) = 1 THEN Finish(l) ELSE [l EXCEPT !.todo = Tail(@), !.page = 1]

KucoinOpenOrders(l, p) ==
  LET symbol == Head(l.todo)
      taken == Taken(l, p.items, OwnMarket)
  IN IF p.current # l.page /\ p.pages > 0 THEN Fail(l)
     ELSE IF \E i \in DOMAIN p.items : p.items[i].market # symbol THEN Fail(l)
     ELSE IF p.pages = 0 \/ l.page >= p.pages THEN KucoinNext(taken)
     ELSE [taken EXCEPT !.page = @ + 1]

MexcBatch(l) == SubSeq(l.todo, 1, IF Len(l.todo) < BatchSize THEN Len(l.todo) ELSE BatchSize)

\* A batch names each symbol once and only symbols of ExchangeInfo.
MexcNext(l) ==
  LET batch == MexcBatch(l) IN
    IF l.todo = <<>> THEN Finish(l)
    ELSE IF ~IsInjective(batch) \/ ToSet(batch) \cap l.seen # {} THEN Fail(l)
    ELSE IF ~(ToSet(batch) \subseteq l.names) THEN Fail(l)
    ELSE [l EXCEPT !.seen = @ \cup ToSet(batch)]

MexcOpenOrders(l, p) ==
  LET batch == MexcBatch(l)
      taken == Taken(l, p.items, OwnMarket)
  IN IF \E i \in DOMAIN p.items : p.items[i].market \notin ToSet(batch) THEN Fail(l)
     ELSE IF One THEN Finish(taken)
     ELSE MexcNext([taken EXCEPT !.todo = SubSeq(@, Len(batch) + 1, Len(@))])

KorbitOpenOrders(l, p) ==
  LET taken == Taken(l, p.items, OwnMarket) IN
    IF Len(l.todo) = 1 THEN Finish(taken) ELSE [taken EXCEPT !.todo = Tail(@)]

\* Mutant of KrakenOpenOrders: orders of other markets are kept.
KrakenOpenOrdersAll(l, p) == Finish(Taken(l, p.items, OwnMarket))

\* Kraken always lists every order: the adapter picks the market's own.
KrakenOpenOrders(l, p) ==
  IF \E i \in DOMAIN p.items : p.items[i].market \notin l.names THEN Fail(l)
  ELSE Finish(Taken(l, SelectSeq(p.items, LAMBDA o : o.market \in ScopeMarkets), OwnMarket))

CryptocomOpenOrders(l, p) ==
  IF \E i \in DOMAIN p.items : p.items[i].market \notin ScopeMarkets THEN Fail(l)
  ELSE Finish(Taken(l, p.items, OwnMarket))

CoinoneOpenOrders(l, p) == Finish(Taken(l, p.items, OwnMarket))

BinanceOpenOrders(l, p) == Finish(Taken(l, p.items, RequestedOrNone))

BitgetOpenOrders(l, p) == Finish(Taken(l, p.items, RequestedOrNone))

UpbitOpenOrders(l, p) == Finish(Taken(l, p.items, RequestedOrOwn))

OpenOrders(v, l, p) ==
  CASE v = "okx" -> OkxOpenOrders(l, p) [] v = "bybit" -> BybitOpenOrders(l, p)
    [] v = "bithumb" -> BithumbOpenOrders(l, p) [] v = "coinbase" -> CoinbaseOpenOrders(l, p)
    [] v = "htx" -> HtxOpenOrders(l, p) [] v = "gateio" -> GateioOpenOrders(l, p)
    [] v = "kucoin" -> KucoinOpenOrders(l, p) [] v = "mexc" -> MexcOpenOrders(l, p)
    [] v = "korbit" -> KorbitOpenOrders(l, p) [] v = "kraken" -> KrakenOpenOrders(l, p)
    [] v = "cryptocom" -> CryptocomOpenOrders(l, p) [] v = "coinone" -> CoinoneOpenOrders(l, p)
    [] v = "binance" -> BinanceOpenOrders(l, p) [] v = "bitget" -> BitgetOpenOrders(l, p)
    [] v = "upbit" -> UpbitOpenOrders(l, p)

(***************************************************************************)
(* The query of each native method: the markets it asks about and the      *)
(* cursor or page it wants.                                                *)
(***************************************************************************)
Query(markets, l) == [markets |-> markets, after |-> l.after, page |-> l.page]

OkxAsks(l) == Query(ScopeMarkets, l)
BybitAsks(l) == Query(ScopeMarkets, l)
BithumbAsks(l) == Query(ScopeMarkets, l)
CoinbaseAsks(l) == Query(ScopeMarkets, l)
HtxAsks(l) == Query(ScopeMarkets, l)
GateioAsks(l) == Query(Markets, l)
KucoinAsks(l) == Query({Head(l.todo)}, l)
MexcAsks(l) == Query(ToSet(MexcBatch(l)), l)
KorbitAsks(l) == Query({Head(l.todo)}, l)
KrakenAsks(l) == Query(Markets, l)
CryptocomAsks(l) == Query(ScopeMarkets, l)
CoinoneAsks(l) == Query(ScopeMarkets, l)
BinanceAsks(l) == Query(ScopeMarkets, l)
BitgetAsks(l) == Query(ScopeMarkets, l)
UpbitAsks(l) == Query(ScopeMarkets, l)

Asks(v, l) ==
  CASE v = "okx" -> OkxAsks(l) [] v = "bybit" -> BybitAsks(l) [] v = "bithumb" -> BithumbAsks(l)
    [] v = "coinbase" -> CoinbaseAsks(l) [] v = "htx" -> HtxAsks(l) [] v = "gateio" -> GateioAsks(l)
    [] v = "kucoin" -> KucoinAsks(l) [] v = "mexc" -> MexcAsks(l) [] v = "korbit" -> KorbitAsks(l)
    [] v = "kraken" -> KrakenAsks(l) [] v = "cryptocom" -> CryptocomAsks(l)
    [] v = "coinone" -> CoinoneAsks(l) [] v = "binance" -> BinanceAsks(l)
    [] v = "bitget" -> BitgetAsks(l) [] v = "upbit" -> UpbitAsks(l)

(***************************************************************************)
(* The lists some adapters fetch first.                                    *)
(***************************************************************************)
\* HTX needs exactly one working spot account, for balances too.
SpotAccountID(l, working) == IF working = 1 THEN [l EXCEPT !.step = "list"] ELSE Fail(l)

HtxMarkets(l, names) == [l EXCEPT !.names = ToSet(names), !.step = "accounts"]

KrakenPairMarkets(l, names) == [l EXCEPT !.names = ToSet(names), !.step = "list"]

KorbitMarkets(l, names) ==
  IF names = <<>> THEN Finish(l) ELSE [l EXCEPT !.todo = names, !.step = "list"]

\* The symbols that have open orders, none twice.
KucoinSymbols(l, names) ==
  IF ~IsInjective(names) THEN Fail(l)
  ELSE IF names = <<>> THEN Finish(l) ELSE [l EXCEPT !.todo = names, !.step = "list"]

\* The symbols the key may trade, then what is known about them.
MexcSymbols(l, names) ==
  IF names = <<>> THEN Finish(l) ELSE [l EXCEPT !.todo = names, !.step = "info"]

MexcInfo(l, names) == MexcNext([l EXCEPT !.names = ToSet(names), !.step = "list"])

FirstStep(v, a) ==
  CASE v = "htx" /\ (a.what = "balances" \/ a.scope # All) -> "accounts"
    [] v = "htx" /\ a.what = "orders" /\ a.scope = All -> "markets"
    [] v = "kraken" /\ a.what = "orders" -> "markets"
    [] v \in {"kucoin", "mexc"} /\ a.what = "orders" /\ a.scope = All -> "symbols"
    [] v = "korbit" /\ a.what = "orders" /\ a.scope = All -> "markets"
    [] OTHER -> "list"

Names(v, l, names) ==
  CASE v = "htx" -> HtxMarkets(l, names)
    [] v = "kraken" -> KrakenPairMarkets(l, names)
    [] v = "korbit" -> KorbitMarkets(l, names)
    [] v = "kucoin" -> KucoinSymbols(l, names)
    [] v = "mexc" /\ l.step = "symbols" -> MexcSymbols(l, names)
    [] v = "mexc" /\ l.step = "info" -> MexcInfo(l, names)

(***************************************************************************)
(* Balances: the free and the held amount each adapter reads out of a row. *)
(***************************************************************************)
Amounts(free, held) == [available |-> free, locked |-> held]
NoAmounts == NoFunds

OkxBalances(r) == Amounts(r.free, r.held)
BitgetBalances(r) == Amounts(r.free, r.held)
BinanceBalances(r) == Amounts(r.free, r.held)
GateioBalances(r) == Amounts(r.free, r.held)
KucoinBalances(r) == Amounts(r.free, r.held)
MexcBalances(r) == Amounts(r.free, r.held)
CoinoneBalances(r) == Amounts(r.free, r.held)
BithumbBalances(r) == Amounts(r.free, r.held)
UpbitBalances(r) == Amounts(r.free, r.held)

\* Mutant of BybitBalances: no look at the sign.
BybitBalancesSigned(r) == Amounts(r.wallet - r.loan - r.held, r.held)

\* What was borrowed is part of the wallet balance, and not the account's.
BybitBalances(r) ==
  LET available == r.wallet - r.loan - r.held IN
    IF available < 0 THEN NoAmounts ELSE Amounts(available, r.held)

\* The credit line counts as far as it is not used.
KrakenBalances(r) ==
  LET available == r.balance + r.credit - r.used - r.held IN
    IF available < 0 THEN NoAmounts ELSE Amounts(available, r.held)

\* Mutant of HtxBalances: locked rows are left out.
HtxBalancesFrozen(r) == Amounts(r.free, r.frozen)

\* One balance from rows of several types; loan and interest are no funds.
HtxBalances(r) == IF r.other # 0 THEN NoAmounts ELSE Amounts(r.free, r.frozen + r.lock + r.bank)

KorbitBalances(r) == Amounts(r.free, r.tradeInUse + r.withdrawalInUse)

\* An asset that comes twice is an error.
CryptocomBalances(r) == IF r.twice THEN NoAmounts ELSE Amounts(r.free, r.held)

BalanceOf(v, r) ==
  CASE v = "okx" -> OkxBalances(r) [] v = "bitget" -> BitgetBalances(r) [] v = "binance" -> BinanceBalances(r)
    [] v = "gateio" -> GateioBalances(r) [] v = "kucoin" -> KucoinBalances(r) [] v = "mexc" -> MexcBalances(r)
    [] v = "coinone" -> CoinoneBalances(r) [] v = "bithumb" -> BithumbBalances(r)
    [] v = "upbit" -> UpbitBalances(r) [] v = "bybit" -> BybitBalances(r) [] v = "kraken" -> KrakenBalances(r)
    [] v = "htx" -> HtxBalances(r) [] v = "korbit" -> KorbitBalances(r)
    [] v = "cryptocom" -> CryptocomBalances(r)

Balances(v, l, r) ==
  IF BalanceOf(v, r) = NoAmounts THEN Fail(l) ELSE Finish([l EXCEPT !.funds = BalanceOf(v, r)])

\* Coinbase keeps one account per asset and pages through the accounts.
CoinbaseBalances(l, p) == CoinbaseOpenOrders(l, p)

(***************************************************************************)
(* The exchanges (external): newest first; a cursor is the last ID given.  *)
(***************************************************************************)
Paged == {"okx", "bybit", "bithumb", "coinbase", "htx"}
Numbered == {"kucoin", "gateio"}
FirstPageOnly == {"bitget", "upbit", "korbit"}

Part(s, first) == SubSeq(s, first, IF first + PageSize - 1 < Len(s) THEN first + PageSize - 1 ELSE Len(s))

\* The k-th page, of every market separately at Gate.io.
NumberedPart(v, s, k) ==
  IF v = "kucoin" THEN Part(s, 1 + (k - 1) * PageSize)
  ELSE FlattenSeq([i \in 1 .. Len(SetToSeq(Markets)) |->
         Part(SelectSeq(s, LAMBDA o : o.market = SetToSeq(Markets)[i]), 1 + (k - 1) * PageSize)])

ServedPage(v, q) ==
  LET orders == OrdersOf(q.markets)
      rest == IF q.after = NoCursor THEN orders ELSE SelectSeq(orders, LAMBDA o : o.id < q.after)
      items == CASE v \in Paged -> Part(rest, 1)
                 [] v \in Numbered -> NumberedPart(v, orders, q.page)
                 [] v \in FirstPageOnly -> Part(orders, 1)
                 [] OTHER -> orders
  IN [items |-> items, more |-> v \in Paged /\ Len(rest) > PageSize,
      cursor |-> IF items = <<>> THEN NoCursor ELSE Last(items).id,
      current |-> q.page, pages |-> (Len(orders) + PageSize - 1) \div PageSize,
      totals |-> [m \in Markets |-> Len(SelectSeq(orders, LAMBDA o : o.market = m))]]

\* Wrong answers: the first page again, no cursor, an order not asked for.
WrongPages(v, q) ==
  LET p == ServedPage(v, q) IN
    {[ServedPage(v, [q EXCEPT !.after = NoCursor, !.page = 1]) EXCEPT !.more = TRUE],
     [p EXCEPT !.more = TRUE, !.cursor = NoCursor]}
    \cup {[p EXCEPT !.items = Append(@, [id |-> 0, market |-> m])] : m \in Markets \ q.markets}

ServedNames(v) ==
  IF v = "kucoin" THEN SetToSeq({o.market : o \in ToSet(book)}) ELSE SetToSeq(Markets)

WrongNames(v) ==
  {ServedNames(v) \o ServedNames(v)} \cup {SetToSeq(Markets \ {m}) : m \in Markets}

ServedRow ==
  [free |-> wallet.free, held |-> wallet.held, loan |-> wallet.owed, other |-> 0, twice |-> FALSE,
   wallet |-> wallet.free + wallet.held + wallet.owed,
   credit |-> wallet.credit, used |-> wallet.owed,
   balance |-> wallet.free + wallet.held - wallet.credit + wallet.owed,
   frozen |-> wallet.held \div 2, lock |-> wallet.held - wallet.held \div 2, bank |-> 0,
   tradeInUse |-> wallet.held \div 2, withdrawalInUse |-> wallet.held - wallet.held \div 2]

WrongRows == {[ServedRow EXCEPT !.other = 1], [ServedRow EXCEPT !.twice = TRUE],
              [ServedRow EXCEPT !.wallet = 0, !.balance = 0, !.credit = 0]}

(***************************************************************************)
(* Actions                                                                 *)
(***************************************************************************)
Init ==
  /\ venue \in Venues
  /\ asked \in [what : {"orders"}, scope : Markets \cup {All}] \cup [what : {"balances"}, scope : {All}]
  /\ wallet \in Wallets /\ (asked.what = "orders" => wallet = CHOOSE w \in Wallets : TRUE)
  /\ \E b \in Books : book = [i \in DOMAIN b |-> [id |-> Len(b) + 1 - i, market |-> b[i]]]
  /\ list = [Listing EXCEPT !.step = FirstStep(venue, asked), !.names = ScopeMarkets,
                            !.todo = IF One THEN <<asked.scope>> ELSE <<>>]
  /\ opens = 0 /\ closes = 0
  /\ standing = Ids(OrdersOf(ScopeMarkets))
  /\ cut = FALSE /\ lied = FALSE

Running(step) == list.status = "running" /\ list.step = step
ByPages == asked.what = "orders" \/ venue = "coinbase"
Fixed == UNCHANGED <<venue, asked, wallet, exchangeVars>>

\* A page of the list arrives.
AnswerPage ==
  /\ Running("list") /\ ByPages
  /\ \E wrong \in BOOLEAN :
       LET q == Asks(venue, list) IN
       \E p \in IF wrong THEN WrongPages(venue, q) ELSE {ServedPage(venue, q)} :
         /\ list' = IF asked.what = "orders" THEN OpenOrders(venue, list, p) ELSE CoinbaseBalances(list, p)
         /\ lied' = (lied \/ wrong)
         /\ cut' = (cut \/ (venue \in FirstPageOnly /\ Len(OrdersOf(q.markets)) > PageSize))
  /\ Fixed

\* The markets or symbols arrive.
AnswerNames ==
  /\ Running("markets") \/ Running("symbols") \/ Running("info")
  /\ \E wrong \in BOOLEAN :
       \E names \in IF wrong THEN WrongNames(venue) ELSE {ServedNames(venue)} :
         /\ list' = Names(venue, list, names)
         /\ lied' = (lied \/ wrong)
  /\ UNCHANGED cut /\ Fixed

\* The accounts arrive: some of them are working spot accounts.
AnswerAccounts ==
  /\ Running("accounts")
  /\ \E working \in 0 .. 2 : list' = SpotAccountID(list, working)
  /\ UNCHANGED <<cut, lied>> /\ Fixed

\* The balances arrive.
AnswerBalances ==
  /\ Running("list") /\ ~ByPages
  /\ \E wrong \in BOOLEAN :
       \E r \in IF wrong THEN WrongRows ELSE {ServedRow} :
         /\ list' = Balances(venue, list, r)
         /\ lied' = (lied \/ wrong)
  /\ UNCHANGED cut /\ Fixed

\* A request fails, and the call with it.
RequestFails ==
  /\ list.status = "running"
  /\ list' = Fail(list)
  /\ UNCHANGED <<cut, lied>> /\ Fixed

CanChange == list.status = "running" /\ opens + closes < MaxChanges

\* An order opens at the exchange.
OrderOpens ==
  /\ CanChange /\ opens' = opens + 1
  /\ \E m \in Markets :
       book' = <<[id |-> Len(book) + closes + 1, market |-> m]>> \o book
  /\ UNCHANGED <<venue, asked, wallet, list, closes, standing, cut, lied>>

\* An order is filled or cancelled.
OrderCloses ==
  /\ CanChange /\ closes' = closes + 1
  /\ \E i \in DOMAIN book :
       /\ book' = RemoveAt(book, i)
       /\ standing' = standing \ {book[i].id}
  /\ UNCHANGED <<venue, asked, wallet, list, opens, cut, lied>>

\* The call has returned.
Returned == list.status # "running" /\ UNCHANGED vars

Answer == AnswerPage \/ AnswerNames \/ AnswerAccounts \/ AnswerBalances \/ RequestFails

Next == Answer \/ OrderOpens \/ OrderCloses \/ Returned

\* Every request is answered or fails: the executor's attempts are bounded.
Spec == Init /\ [][Next]_vars /\ WF_vars(Answer)

(***************************************************************************)
(* Properties                                                              *)
(***************************************************************************)
Listed == list.status = "listed"

ListsTypeOK ==
  /\ venue \in Venues /\ list.status \in {"running", "listed", "failed"}
  /\ list.step \in {"list", "markets", "symbols", "info", "accounts"}
  /\ list.todo \in Seq(Markets) /\ list.names \subseteq Markets
  /\ \A i \in DOMAIN list.got : list.got[i].market \in Markets /\ list.got[i].label \in Markets \cup {""}
  /\ opens + closes \in 0 .. MaxChanges /\ cut \in BOOLEAN /\ lied \in BOOLEAN
  /\ list.funds = NoAmounts \/ (list.funds.available \in Nat /\ list.funds.locked \in Nat)

\* OpenOrders and the account pages of Coinbase: whatever opens or closes
\* between two pages, an order in scope that was open all the time is
\* returned.  KuCoin pages by number, so that this needs that nothing
\* closed; Bitget, Upbit and Korbit are read for one page only.
StandingOrdersAreListed ==
  Listed /\ ByPages /\ ~lied /\ ~cut /\ (venue = "kucoin" => closes = 0)
    => standing \subseteq Ids(list.got)

\* No order is returned twice, although new ones push the others from page
\* to page.  Page numbers do not protect KuCoin, and the totals of Gate.io
\* hide an order that opened when another one closed.
NothingIsListedTwice ==
  Listed /\ ~lied /\ (venue = "kucoin" => opens = 0) /\ (venue = "gateio" => opens = 0 \/ closes = 0)
    => \A i, j \in DOMAIN list.got : list.got[i].id = list.got[j].id => i = j

\* Adapters that put the requested market on whatever the exchange sends, and
\* adapters that pass on what it sends.
Trusting == {"okx", "bybit", "bithumb", "coinbase", "binance", "bitget", "upbit", "coinone", "korbit"}

\* Asked for one market, OpenOrders returns no order of another one, not even
\* when the exchange lists orders of all markets or sends one that was not
\* asked for; nine adapters trust the exchange in this.
OnlyTheRequestedMarket ==
  Listed /\ One /\ (lied => venue \notin Trusting)
    => \A i \in DOMAIN list.got : list.got[i].market = asked.scope /\ list.got[i].label = asked.scope

\* Balances are the account's own free and held funds: no loan, no credit in
\* use, nothing locked left out, and no negative amount.
BalancesAreTheFunds ==
  Listed /\ ~ByPages /\ ~lied => list.funds = Amounts(wallet.free, wallet.held)

\* A listing ends, even if the exchange repeats a page or a cursor forever.
ListingEnds == <>(list.status # "running")

\* The account as the adapter lists it is the account: what stands is listed, once,
\* under its own market, and balances are the funds.
AccountIsListed ==
  /\ ListsTypeOK /\ StandingOrdersAreListed /\ NothingIsListedTwice
  /\ OnlyTheRequestedMarket /\ BalancesAreTheFunds
=============================================================================
