----------------------------- MODULE SpotOrders -----------------------------
(***************************************************************************)
(* Order calls end to end: a caller, the unified adapter and REST client   *)
(* of one exchange, and the exchange itself behind a network that loses    *)
(* answers and delivers requests late.  There are two callers:             *)
(*   "smoke"  - SpotTradeRunner.Run: check the egress IP and the order     *)
(*              book, place a post-only order, query it, cancel it and     *)
(*              verify that it is gone;                                    *)
(*   "trader" - a program that places one order and places it again        *)
(*              whenever the error says that it may be repeated.           *)
(* Everything before a request leaves (validation, permissions, limiter,   *)
(* signing) may fail; a failure there is definite.                         *)
(***************************************************************************)
EXTENDS OrderCalls, OrderRequests, OrderStatuses

CONSTANTS
  SpotClients,      \* exchanges with a unified adapter
  FuturesClients,   \* clients without one
  MaxAttempts,      \* how often the trader places
  Damage            \* <<client, kind>>: damaged answers that occur

Clients == SpotClients \cup FuturesClients
Attempts == 1 .. MaxAttempts

\* The exchanges that have a unified adapter.
Unified ==
  {"binance", "okx", "bybit", "bitget", "coinbase", "kraken", "gateio", "kucoin", "htx", "mexc",
   "cryptocom", "korbit", "coinone", "bithumb", "upbit"}

ASSUME SpotAssumption ==
  /\ MaxAttempts \in Nat \ {0}
  /\ SpotClients \subseteq Unified

VARIABLES
  client, caller, asked,   \* who calls whom, with which order: never change
  step,                    \* the check or placement that is due
  attempt,                 \* the placement the trader is at
  call,                    \* the call in progress
  outcomes,                \* what each placement returned
  report,                  \* results of the runner's checks
  byID,                    \* the order is addressed by its exchange ID
  told,                    \* what the last order query said
  stopped,                 \* the caller's context is cancelled
  orders,                  \* the exchange: state of each placement
  cancelling               \* the exchange: state of the cancel request

fixed == <<client, caller, asked>>
progress == <<step, attempt, call, outcomes, report, byID, told>>
vars == <<fixed, progress, stopped, orders, cancelling>>

Pending == Outcome("pending", FALSE)
LocalError(retryable) == Outcome("local", retryable)
Idle == [op |-> "none", todo |-> <<>>, stage |-> "idle", known |-> FALSE, seen |-> "none"]

Checks == {"place", "query", "cancel", "verify"}
Standing == Live \cup Final    \* states of an order the exchange has

NativeOf(v, r) ==
  CASE v = "binance" -> BinanceNative(r) [] v = "okx" -> OkxNative(r) [] v = "bybit" -> BybitNative(r)
    [] v = "bitget" -> BitgetNative(r) [] v = "coinbase" -> CoinbaseNative(r)
    [] v = "kraken" -> KrakenNative(r) [] v = "gateio" -> GateioNative(r) [] v = "kucoin" -> KucoinNative(r)
    [] v = "htx" -> HtxNative(r) [] v = "mexc" -> MexcNative(r) [] v = "cryptocom" -> CryptocomNative(r)
    [] v = "korbit" -> KorbitNative(r) [] v = "coinone" -> CoinoneNative(r)
    [] v = "bithumb" -> BithumbNative(r) [] v = "upbit" -> UpbitNative(r)

ValidOf(v, n) ==
  CASE v = "binance" -> BinanceValid(n) [] v = "okx" -> OkxValid(n) [] v = "bybit" -> BybitValid(n)
    [] v = "bitget" -> BitgetValid(n) [] v = "coinbase" -> CoinbaseValid(n)
    [] v = "kraken" -> KrakenValid(n) [] v = "gateio" -> GateioValid(n) [] v = "kucoin" -> KucoinValid(n)
    [] v = "htx" -> HtxValid(n) [] v = "mexc" -> MexcValid(n) [] v = "cryptocom" -> CryptocomValid(n)
    [] v = "korbit" -> KorbitValid(n) [] v = "coinone" -> CoinoneValid(n)
    [] v = "bithumb" -> BithumbValid(n) [] v = "upbit" -> UpbitValid(n)

StatusOf(v, w, filled) ==
  CASE v = "binance" -> BinanceStatus(w, filled) [] v = "okx" -> OkxStatus(w, filled)
    [] v = "bybit" -> BybitStatus(w, filled) [] v = "bitget" -> BitgetStatus(w, filled)
    [] v = "coinbase" -> CoinbaseStatus(w, filled) [] v = "kraken" -> KrakenStatus(w, filled)
    [] v = "gateio" -> GateioStatus(w, filled) [] v = "kucoin" -> KucoinStatus(w, filled)
    [] v = "htx" -> HtxStatus(w, filled) [] v = "mexc" -> MexcStatus(w, filled)
    [] v = "cryptocom" -> CryptocomStatus(w, filled) [] v = "korbit" -> KorbitStatus(w, filled)
    [] v = "coinone" -> CoinoneStatus(w, filled) [] v = "bithumb" -> BithumbStatus(w, filled)
    [] v = "upbit" -> UpbitStatus(w, filled)

\* Whether adapter and client take the request at all.
Takes(v, r) ==
  v \in SpotClients => ValidOf(v, NativeOf(v, r)) /\ (v = "coinone" => CoinoneTakes(r))

(***************************************************************************)
(* Calls: the requests each makes, one after the other.                    *)
(***************************************************************************)
Lists == {"list_open", "list_closed"}

\* Mutant of KrakenResolve: the other way round.
KrakenResolveClosedFirst == <<"list_closed", "list_open">>

\* Kraken lists open and then closed orders to find one by its client ID.
KrakenResolve == <<"list_open", "list_closed">>

\* Coinbase searches the order list for a client ID.
CoinbaseResolve == <<"find">>

\* HTX looks up the spot account first.
HtxPlace == <<"accounts", "place">>

RequestsOf(op) ==
  CASE op = "place" /\ client = "htx" -> HtxPlace
    [] op = "query" /\ client = "kraken" /\ ~byID -> KrakenResolve
    [] op = "query" /\ client = "coinbase" /\ ~byID -> CoinbaseResolve
    [] op = "cancel" /\ client = "coinbase" /\ ~byID -> CoinbaseResolve \o <<"cancel">>
    [] OTHER -> <<op>>

OpOf(check) == IF check = "verify" THEN "query" ELSE check

\* Mutant of UnderCaller: cleaning up does too.
UnderCallerAlways(check) == TRUE

\* Placing and querying run under the caller's context, cleaning up does not.
UnderCaller(check) == check \in {"place", "query"}

Begin ==
  /\ step \in Checks /\ call = Idle
  /\ step = "place" => Takes(client, asked)
  /\ call' = [op |-> OpOf(step), todo |-> RequestsOf(OpOf(step)), stage |-> "start",
              known |-> orders[1] \in Standing, seen |-> "none"]
  /\ UNCHANGED <<fixed, step, attempt, outcomes, report, byID, told, stopped, orders, cancelling>>

(***************************************************************************)
(* What the caller makes of a result.                                      *)
(***************************************************************************)
Mark(check, result) == report' = [report EXCEPT ![check] = result]

Result(o, proven) ==
  IF o = Ok /\ proven THEN "passed" ELSE IF o.category = "canceled" THEN "canceled" ELSE "failed"

\* Mutant of MayExist: an unknown fate is forgotten.
MayExistIfOk(o) == o = Ok

\* An order may exist if placing it succeeded or its fate is unknown.
MayExist(o) == o = Ok \/ o = Unknown

\* What a query tells: a status, that there is no such order, or nothing.
Says(o, status, filled) ==
  [status |-> IF o = Ok THEN status ELSE IF o \in {NotFound, Plain} THEN "missing" ELSE "none",
   filled |-> o = Ok /\ filled]

\* SpotTradeRunner.Run after place_order.
Placed(o, named) ==
  /\ report' = [report EXCEPT !["place"] = Result(o, named)]
  /\ byID' = (o = Ok /\ named)
  /\ step' = IF MayExist(o) THEN "query" ELSE "done"
  /\ UNCHANGED <<attempt, told>>

\* SpotTradeRunner.Run after query_order.
Queried(o, status, filled) ==
  /\ Mark("query", Result(o, TRUE))
  /\ byID' = (byID \/ o = Ok)
  /\ told' = Says(o, status, filled)
  /\ step' = "cancel"
  /\ UNCHANGED attempt

Cancelled(o) ==
  /\ Mark("cancel", Result(o, TRUE))
  /\ step' = "verify"
  /\ UNCHANGED <<byID, attempt, told>>

\* Mutant of Verified: a partly executed order passes.
VerifiedAnyFill(o, status, filled) ==
  /\ Mark("verify", Result(o, status = "canceled"))
  /\ told' = Says(o, status, filled)
  /\ step' = "done"
  /\ UNCHANGED <<byID, attempt>>

\* Mutant of Verified: polls until the order is gone.
VerifiedPolls(o, status, filled) ==
  /\ Mark("verify", Result(o, status = "canceled" /\ ~filled))
  /\ told' = Says(o, status, filled)
  /\ step' = IF status \in {"new", "partially_filled"} THEN "verify" ELSE "done"
  /\ UNCHANGED <<byID, attempt>>

\* SpotTradeRunner.Run after verify_canceled: cancelled, and nothing executed.
Verified(o, status, filled) ==
  /\ Mark("verify", Result(o, status = "canceled" /\ ~filled))
  /\ told' = Says(o, status, filled)
  /\ step' = "done"
  /\ UNCHANGED <<byID, attempt>>

\* Mutant of Retried: one placement too many.
RetriedOnceMore(o) ==
  /\ IF o.retryable /\ attempt <= MaxAttempts
     THEN attempt' = attempt + 1 /\ UNCHANGED step
     ELSE step' = "done" /\ UNCHANGED attempt
  /\ UNCHANGED <<report, byID, told>>

\* The trader repeats what may be repeated.
Retried(o) ==
  /\ IF o.retryable /\ attempt < MaxAttempts
     THEN attempt' = attempt + 1 /\ UNCHANGED step
     ELSE step' = "done" /\ UNCHANGED attempt
  /\ UNCHANGED <<report, byID, told>>

Conclude(o, named, status, filled) ==
  /\ call' = Idle
  /\ outcomes' = IF step = "place" THEN [outcomes EXCEPT ![attempt] = o] ELSE outcomes
  /\ CASE caller = "trader" -> Retried(o)
       [] caller = "smoke" /\ step = "place" -> Placed(o, named)
       [] caller = "smoke" /\ step = "query" -> Queried(o, status, filled)
       [] caller = "smoke" /\ step = "cancel" -> Cancelled(o)
       [] caller = "smoke" /\ step = "verify" -> Verified(o, status, filled)

Fails(o) == Conclude(o, FALSE, "unknown", FALSE)

(***************************************************************************)
(* Steps of the caller.                                                    *)
(***************************************************************************)
\* checkEgress: the observed public IP must be the expected one.
CheckEgress ==
  /\ step = "egress"
  /\ \E matches \in BOOLEAN : step' = IF matches THEN "book" ELSE "done"
  /\ UNCHANGED <<fixed, attempt, call, outcomes, report, byID, told, stopped, orders, cancelling>>

OwnPrice == 2

\* checkOrderBookSafety: both sides present, not crossed, and the order's
\* price on its own side of the book.
SafeBook(bids, asks) ==
  /\ bids # {} /\ asks # {}
  /\ Max(bids) < Min(asks)
  /\ IF Buy(asked) THEN OwnPrice < Min(asks) ELSE OwnPrice > Max(bids)

CheckBook ==
  /\ step = "book"
  /\ \E bids, asks \in SUBSET (1 .. 3) :
       step' = IF SafeBook(bids, asks) THEN "place" ELSE "done"
  /\ UNCHANGED <<fixed, attempt, call, outcomes, report, byID, told, stopped, orders, cancelling>>

\* The adapter refuses a request its exchange cannot express.
Refuse ==
  /\ step = "place" /\ call = Idle
  /\ ~Takes(client, asked)
  /\ Fails(Validation)
  /\ UNCHANGED <<fixed, stopped, orders, cancelling>>

\* Permissions, limiter, secret or signing: nothing was sent.
FailLocally ==
  /\ call.stage = "start"
  /\ \E retryable \in BOOLEAN : Fails(LocalError(retryable))
  /\ UNCHANGED <<fixed, stopped, orders, cancelling>>

FailStopped ==
  /\ call.stage = "start"
  /\ stopped /\ UnderCaller(step)
  /\ Fails(Outcome("canceled", FALSE))
  /\ UNCHANGED <<fixed, stopped, orders, cancelling>>

Send ==
  /\ call.stage = "start"
  /\ call' = [call EXCEPT !.stage = "sent"]
  /\ orders' = IF Head(call.todo) = "place" THEN [orders EXCEPT ![attempt] = "flight"] ELSE orders
  /\ cancelling' = IF Head(call.todo) = "cancel" THEN "flight" ELSE cancelling
  /\ UNCHANGED <<fixed, step, attempt, outcomes, report, byID, told, stopped>>

\* No answer in time, a broken connection or a cancelled caller.
LoseAnswer ==
  /\ call.stage \in {"sent", "served"}
  /\ Fails(IF Mutation(Head(call.todo)) THEN Unknown ELSE Unavailable)
  /\ UNCHANGED <<fixed, stopped, orders, cancelling>>

\* The sorts of answers an exchange sends, and what its client reads in them.
AnswersOf(v, sort) ==
  CASE sort = "refusal" -> Refusals(v)
    [] sort = "missing" -> NotFoundAnswers(v)
    [] sort = "vague"   -> Vague(v)
    [] sort = "broken"  -> {Damaged(k) : k \in {k \in {"broken"} : <<v, k>> \in Damage}}
    [] sort = "success" -> {Done} \cup {Damaged(k) : k \in {k \in DamageKinds : <<v, k>> \in Damage}}

Sorts == {"refusal", "missing", "vague", "broken", "success"}

Reads ==
  [v \in Clients, op \in {"place", "cancel", "query"}, sort \in Sorts |->
     {<<OrderOutcome(v, op, a), a.full>> : a \in AnswersOf(v, sort)}]

\* A successful read: the list or the order the exchange found.
ReceiveRead ==
  /\ call.stage = "served" /\ ~Mutation(Head(call.todo))
  /\ <<Ok, TRUE>> \in Reads[client, "query", "success"]
  /\ LET request == Head(call.todo)
         found == call.seen \in Standing
         last == Len(call.todo) = 1
     IN \/ /\ found /\ call.op = "query"
           /\ \E w \in NativeWords[client][call.seen] :
                LET filled == Executed(call.seen)
                IN Conclude(Ok, TRUE, StatusOf(client, w, filled), filled)
        \/ /\ ~last /\ (request = "accounts" \/ (request = "find" /\ found) \/ (request \in Lists /\ ~found))
           /\ call' = [call EXCEPT !.todo = Tail(@), !.stage = "start", !.seen = "none"]
           /\ UNCHANGED <<step, attempt, outcomes, report, byID, told>>
        \/ /\ ~found /\ (request = "find" \/ (request \in Lists /\ last))
           /\ Fails(Plain)
  /\ UNCHANGED <<fixed, stopped, orders, cancelling>>

\* The sorts that may come back for the request in progress.
MayAnswer ==
  LET request == Head(call.todo)
      decided(refused) == IF call.stage = "sent" THEN {} ELSE refused
  IN {"vague"} \cup
     CASE request = "place"  -> decided(IF orders[attempt] = "refused" THEN {"refusal"} ELSE {"success"})
       [] request = "cancel" -> decided(IF cancelling = "refused" THEN {"refusal", "missing"} ELSE {"success"})
       [] request = "query" /\ call.stage = "served" /\ call.seen = "none" -> {"refusal", "broken", "missing"}
       [] OTHER -> {"refusal", "broken"}

\* The answer to a mutation, or an answer to a read that is no success.
Receive ==
  /\ call.stage \in {"sent", "served"}
  /\ LET request == Head(call.todo)
         op == IF Mutation(request) THEN request ELSE "query"
     IN \E sort \in MayAnswer : \E read \in Reads[client, op, sort] :
          /\ Mutation(request) \/ read[1] # Ok
          /\ Conclude(read[1], read[2], "acknowledged", FALSE)
  /\ UNCHANGED <<fixed, stopped, orders, cancelling>>

Stop ==
  /\ ~stopped /\ caller = "smoke" /\ step \in Checks
  /\ stopped' = TRUE
  /\ UNCHANGED <<fixed, progress, orders, cancelling>>

(***************************************************************************)
(* The exchange.                                                           *)
(***************************************************************************)
Serves(i) ==
  call' = IF call.stage = "sent" /\ Head(call.todo) = "place" /\ attempt = i
          THEN [call EXCEPT !.stage = "served"] ELSE call

TakeOrder ==
  /\ \E i \in Attempts :
       /\ orders[i] = "flight"
       /\ \E state \in {"open", "refused"} : orders' = [orders EXCEPT ![i] = state]
       /\ Serves(i)
  /\ UNCHANGED <<fixed, step, attempt, outcomes, report, byID, told, stopped, cancelling>>

TakeCancel ==
  /\ cancelling = "flight"
  /\ cancelling' = IF orders[1] \in Live THEN "accepted" ELSE "refused"
  /\ call' = IF call.stage = "sent" /\ Head(call.todo) = "cancel" THEN [call EXCEPT !.stage = "served"] ELSE call
  /\ UNCHANGED <<fixed, step, attempt, outcomes, report, byID, told, stopped, orders>>

\* A read sees the order as it is now: every order, only live or only final
\* ones, as the request asks.
ServeRead ==
  /\ call.stage = "sent" /\ ~Mutation(Head(call.todo))
  /\ LET visible == CASE Head(call.todo) = "list_open" -> Live
                      [] Head(call.todo) = "list_closed" -> Final
                      [] Head(call.todo) = "accounts" -> {}
                      [] OTHER -> Standing
     IN call' = [call EXCEPT !.stage = "served", !.seen = IF orders[1] \in visible THEN orders[1] ELSE "none"]
  /\ UNCHANGED <<fixed, step, attempt, outcomes, report, byID, told, stopped, orders, cancelling>>

Moves(from, to) ==
  /\ \E i \in Attempts : orders[i] = from /\ orders' = [orders EXCEPT ![i] = to]
  /\ UNCHANGED <<fixed, progress, stopped, cancelling>>

Trade ==
  \/ Moves("open", "partial") \/ Moves("open", "filled") \/ Moves("partial", "filled")
  \/ Moves("open", "expired") \/ Moves("open", "rejected")

CarryOutCancel ==
  /\ cancelling = "accepted"
  /\ Moves("open", "canceled") \/ Moves("partial", "partly_canceled")

(***************************************************************************)
(* Specification.                                                          *)
(***************************************************************************)
PostOnly(side) ==
  [side |-> side, type |-> "limit", tif |-> "post_only", quantity |-> "base", quote |-> "",
   price |-> "price", currency |-> "KRW"]

SpotInit ==
  /\ \/ /\ caller = "smoke" /\ client \in SpotClients
        /\ asked \in {PostOnly(side) : side \in Sides} /\ step = "egress"
     \/ /\ caller = "trader" /\ client \in SpotClients
        /\ asked \in UnifiedRequests /\ step = "place"
     \/ /\ caller = "trader" /\ client \in FuturesClients
        /\ asked = PostOnly("buy") /\ step = "place"
  /\ attempt = 1
  /\ call = Idle
  /\ outcomes = [i \in Attempts |-> Pending]
  /\ report = [c \in Checks |-> "none"]
  /\ byID = FALSE
  /\ told = [status |-> "none", filled |-> FALSE]
  /\ stopped = FALSE
  /\ orders = [i \in Attempts |-> "none"]
  /\ cancelling = "none"

CallerStep ==
  \/ CheckEgress \/ CheckBook \/ Begin \/ Refuse \/ FailLocally \/ FailStopped
  \/ Send \/ LoseAnswer \/ ReceiveRead \/ Receive

ExchangeStep == TakeOrder \/ TakeCancel \/ ServeRead \/ Trade \/ CarryOutCancel

SpotNext == CallerStep \/ Stop \/ ExchangeStep

\* Every call ends: with an answer, or with the timeout its context carries.
SpotSpec == SpotInit /\ [][SpotNext]_vars /\ WF_vars(CallerStep)

(***************************************************************************)
(* Properties.                                                             *)
(***************************************************************************)
\* The types of the variables.
SpotTypeOK ==
  /\ client \in Clients /\ caller \in {"smoke", "trader"} /\ asked \in Request
  /\ step \in {"egress", "book", "done"} \cup Checks
  /\ attempt \in Attempts
  /\ call.stage \in {"idle", "start", "sent", "served"}
  /\ call.stage # "idle" => call.todo # <<>>
  /\ report \in [Checks -> {"none", "passed", "failed", "canceled"}]
  /\ orders \in [Attempts -> {"none", "flight", "refused"} \cup Standing]
  /\ cancelling \in {"none", "flight", "accepted", "refused"}

OnMarket(n) == n.kind \in {"market", "market_ioc", "price"}

\* The size measures what is spent.
Quoted(v, n) ==
  /\ OnMarket(n)
  /\ IF v \in {"okx", "bybit", "kraken"} THEN n.unit = "quote"
     ELSE v \in {"bitget", "gateio", "htx"} /\ n.side = "buy"

LifeTime(n) ==
  IF n.post \/ n.kind \in {"post_only", "limit_maker"} \/ n.tif \in {"post_only", "poc"} THEN "post_only"
  ELSE IF n.kind \in {"ioc", "sor_limit_ioc"} THEN "ioc"
  ELSE IF n.kind \in {"fok", "limit_fok"} THEN "fok" ELSE OrDefault(n.tif)

\* What an exchange understands by a native request: which field is the base
\* quantity, which the amount to spend, and how long the order lives.
Meaning(v, n) ==
  [side  |-> IF n.side \in {"buy", "bid"} THEN "buy" ELSE "sell",
   type  |-> IF OnMarket(n) THEN "market" ELSE "limit",
   tif   |-> IF OnMarket(n) THEN "" ELSE LifeTime(n),
   base  |-> IF Quoted(v, n) THEN "" ELSE n.size,
   quote |-> IF Quoted(v, n) THEN n.size ELSE IF n.kind = "price" THEN n.price ELSE n.funds,
   price |-> IF OnMarket(n) THEN "" ELSE n.price]

Intent(r) ==
  [side |-> r.side, type |-> r.type, tif |-> IF Limit(r) THEN OrDefault(r.tif) ELSE "",
   base |-> r.quantity, quote |-> r.quote, price |-> r.price]

\* An order that reaches an exchange through a unified adapter is the order the
\* caller asked for: side, type, life time, and no amount in the wrong field
\* (unified.go PlaceOrder and requests.go of every exchange).
KeepsMeaning ==
  (client \in SpotClients /\ \E i \in Attempts : orders[i] # "none")
    => Meaning(client, NativeOf(client, asked)) = Intent(asked)

\* A caller that places an order again whenever the error is retryable never
\* has two orders that exist or may yet come into existence.
NoDoubleOrder == Cardinality({i \in Attempts : orders[i] \notin {"none", "refused"}}) <= 1

\* A passing trade smoke test leaves nothing behind: its order is off the book
\* and nothing of it was executed (SpotTradeRunner.Run, finish).
PassedMeansGone ==
  (step = "done" /\ \A c \in Checks : report[c] = "passed")
    => orders[1] \in {"canceled", "expired", "rejected"}

\* The smoke runner never ends without having tried to cancel an order that
\* is on the book or may still reach it (SpotTradeRunner.Run, mayExist).
LeftOverIsCleaned ==
  (caller = "smoke" /\ step = "done" /\ orders[1] \in Live \cup {"flight"}) => report["cancel"] # "none"

IsTrue(status, state) ==
  /\ status = "filled" => state = "filled"
  /\ status = "canceled" => state \in {"canceled", "partly_canceled", "expired", "rejected"}
  /\ status = "expired" => state = "expired"
  /\ status = "rejected" => state = "rejected"

\* A final status is the truth: an order reported as filled, cancelled, expired
\* or rejected is so at the exchange, for good (toUnified...Status).
FinalStatusIsTrue == IsTrue(told.status, orders[1])

\* Cancelling the caller's context never keeps the runner from cleaning up
\* (context.WithoutCancel in SpotTradeRunner.Run).
CleanupOutlivesCaller == report["cancel"] # "canceled" /\ report["verify"] # "canceled"

\* A query never reports an order missing that existed before it began, even
\* when the order leaves the book while the query looks in several lists
\* (resolveKrakenOrderByClientID, resolveCoinbaseOrder).
FoundIfThere ==
  [][(call.op = "query" /\ call' = Idle /\ told'.status = "missing") => ~call.known]_vars

Verdict(o) ==
  IF o = Pending THEN "pending" ELSE IF o = Ok THEN "answered"
  ELSE IF o.category \in {"unknown_execution_state", "internal", "none"} THEN "unknown" ELSE "failed"

Accepted == {<<i, 1>> : i \in {j \in Attempts : orders[j] \in Standing}}
Verdicts == [i \in Attempts |-> Verdict(outcomes[i])]

Placement == INSTANCE ExecutionContract WITH
  Mutations <- Attempts, Attempts <- {1}, executed <- Accepted, verdict <- Verdicts

\* Through every client's error table the order calls keep the promise of the
\* execution pipeline: an error other than "unknown" means that the order was
\* not accepted and never will be (classifyError, decodeBodyError, orders.go).
ImplementsPlacement == Placement!ContractSpec

\* What a client's error table may make of an answer (classifyError, decodeBodyError,
\* toSpotOrder): the answer to an order that was or may yet be carried out is read as
\* success or as "unknown" and never invites a repetition; only the answer that an order
\* is missing is read as that it does not exist; no answer is read as a cancelled call.
ReadsSafely(v) ==
  /\ \A op \in {"place", "cancel", "query"}, sort \in Sorts : \A read \in Reads[v, op, sort] :
       read[1].category \notin {"canceled", "pending"}
  /\ \A sort \in {"vague", "success"} : \A read \in Reads[v, "place", sort] :
       /\ ~read[1].retryable /\ Verdict(read[1]) # "failed"
       /\ v \in SpotClients => read[1] \in {Ok, Unknown}
  /\ v \in SpotClients => \A sort \in {"refusal", "vague", "broken"} :
       \A read \in Reads[v, "query", sort] : read[1] \notin {NotFound, Plain}

\* The client at work reads every answer that occurs safely: the hypothesis of the proofs.
\* It is about tables of constants and the damage that occurs, and false of seven
\* clients for the damage that MCDamage leaves out.
ClientReadsSafely == ReadsSafely(client)

\* Every run of the trade smoke test and every trader's placement ends.
RunEnds == <>(step = "done")

\* What the caller asked for is what the exchange is asked for, and what the
\* exchange says of an order is what the caller is told.
OrdersKeepTheirMeaning == SpotTypeOK /\ KeepsMeaning /\ FinalStatusIsTrue

\* The trade smoke run places one order and leaves none, whatever answer is lost
\* and whenever the caller gives up.
RunLeavesNothing == NoDoubleOrder /\ PassedMeansGone /\ LeftOverIsCleaned /\ CleanupOutlivesCaller
=============================================================================
