# TLA+ development for cex-sdk

cex-sdk is a Go library that gives trading programs one way to talk to some fifteen
centralised exchanges: REST calls through a rate-limited, egress-routed pipeline, a unified
spot interface on top of them, and WebSocket streams that survive reconnections, with order
books kept locally. This directory models the parts of it that are concurrent, meet
failures, keep state from one message to the next, or differ from exchange to exchange in
ways that matter. TLC checks the models on small instances; TLAPS proves the safety
properties of the session, the limiter, the pipeline, the order calls, the local order books
and the signed requests for every value of the constants.

Paths are relative to the repository (`src/stream/session.go` is `stream/session.go`).
`PROJECT.json` maps every definition to the lines it models, lists the runs, the mutants
that show each property can fail, the findings, the hazards and the theorems.

## Inventory

| Component | State it keeps | Operations | Interacts with |
|---|---|---|---|
| Reconnecting session, `stream/session.go` | connection, generation, started, closed, reconnect, cancel (under `mu`); locals of `Run`; the reader's result channel | Run, consume, Reconnect, Close, Write, OnConnect hook | dialer, message handler, hook, Observer, every stream and book |
| Rate limiter, `ratelimit/` | rules and buckets (events, used, blockedUntil) per key | Wait, SetRule, ObserveUsed, BlockFor, Snapshot | the pipeline; the clients that read limit headers |
| Execution pipeline, `exchange/executor.go` | per call: attempt, deadline, answer; the observer's record | Execute, executeAttempt, Retry-After, backoff | limiter, registry, request builders, response classification |
| Egress registry, `transport/registry.go` | transports per egress id, closed | lookup, Do, Close | the pipeline |
| REST clients of the exchanges (19) | nonce, clock offset, quotas learned from answers | New, one method per endpoint, charges, signing, header observation, classifyError | the pipeline, the limiter |
| Unified spot interface and adapters (15) | none between calls; pages and cursors within one | markets, ticker, book, trades, candles, balances, open orders, place, query, cancel | REST clients |
| Smoke runners, `smoke/` | the report of one run | SpotReadRunner.Run, SpotTradeRunner.Run | the unified adapters |
| Books from REST snapshots (Binance, Binance USD-M, MEXC) | delta buffer, pending snapshot, retry timer, book, ids | Run, runInputs, snapshot goroutine | market stream (channel), REST client |
| Books from stream snapshots (OKX, Bybit, Bitget, Coinbase, Kraken ×2, Gate.io ×2, KuCoin ×2, Crypto.com, Upbit, Bithumb, Korbit, Coinone) | generation, recoveryGeneration, book, SynchronizationID, GapCount | Run, the processor's process functions | session (Reconnect) |
| HTX local book | buffer, snapshotID, generation, book | Run, RequestSnapshot | the HTX market-by-price stream |
| Subscription managers of 17 public streams and of the private streams of HTX and Crypto.com | list, pending commands, command order, authenticated, commandMu | Subscribe, Unsubscribe, resubscribe, login and activation, answer handling | session (Write, OnConnect, handler) |
| Other private and auxiliary streams | listen keys, tokens, renewal timers | Run, login, renewal | session, REST client |
| Request building and answer types; signers and credentials; frame decoding; options | none | pure conversions | REST clients, streams |
| Egress diagnostics; catalogue tools | none | command-line tools | REST clients |

What is hard in it:

* **Interleavings.** Close, Reconnect, cancellation, the reader and the Run goroutine meet
  around one connection; a Subscribe call meets the OnConnect hook of the next connection
  and the handler of the answers; callers of `Wait` read the clock before the lock; calls
  draw nonces from one counter; orders open and close between two pages of one list.
* **Unreliable delivery.** A request can be lost, answered without the answer arriving, or
  executed after its caller has gone. Deltas are lost, repeated and batched; REST
  snapshots are of any age.
* **Timeouts and retries.** Reads are retried, mutations must not be; a ban must hold
  for calls that were already waiting; a snapshot that is too old is asked for again.
* **State from one connection used on the next.** Buffered messages after a Reconnect,
  a snapshot of a subscription list, a connection captured before an unlock.
* **Fifteen near-copies.** Every adapter has its own error table, order fields, status
  words, page rules, depth steps and candle windows; one that differs in one line is
  seldom met by a test.

What makes each part correct:

* session: one socket, none leaked, the published connection is the served one, Close is
  final and always ends Run, the Observer sees a legal history;
* limiter: no window over its limit, bans respected, all rules charged or none, no
  waiter stuck;
* pipeline and order calls: a mutation is sent and executed at most once, and an error that
  says "failed" is one, through every exchange's error table;
* clients: no accepted configuration makes a request impossible, nonces rise, timestamps
  are near the exchange's clock;
* adapters: an order keeps its meaning, a final status is final, lists hold what is there,
  once, sizes and candles are what was asked for;
* smoke runners: a passing report is true and nothing is left on the book;
* books: the local book is the exchange's book at the update it claims, and after a gap
  there will be one again;
* subscription managers: what is listed is in force on the exchange, on every connection.

`PROJECT.json` lists the hazards, each with its line and the properties that cover it.

## Modules

| Module | Models | Extends / instantiates |
|---|---|---|
| `Session` | `stream.Session` | instantiates `SessionContract` |
| `SessionContract` | what the Observer of a session may see | |
| `RateLimiter` | `ratelimit.Limiter` over its in-process backend | |
| `TransportProofs` | theorems about `Session` and `RateLimiter` | `Session`, `RateLimiter`, `SharedFacts` |
| `Executor` | `exchange.Executor`, `transport.Registry` as it uses it | instantiates `ExecutionContract` |
| `ExecutionContract` | what the pipeline promises for mutations | |
| `CallProofs` | theorems about `Executor` and `ReadRuns` | `Executor`, `ReadRuns`, `SharedFacts`, SequenceTheorems, TLAPS |
| `OrderBook` | an exchange's book as a sequence of changes; level arithmetic | |
| `SharedFacts` | lemmas: least numbers, products, recursive functions on 0..n; exchange books of any history, and cutting a book | `OrderBook`, WellFoundedInduction, TLAPS |
| `DepthSync` | the three books from REST snapshots | `OrderBook` |
| `DepthProofs` | theorems about `DepthSync` | `DepthSync`, `SharedFacts` |
| `StreamBook` | the sixteen channels with snapshots of their own, and HTX | `OrderBook` |
| `StreamProofs` | theorems about `StreamBook` | `StreamBook`, `SharedFacts` |
| `ManagedStream` | the seventeen public and two private subscription managers | |
| `ManagedProofs` | theorems about `ManagedStream` | `ManagedStream`, SequenceTheorems, FiniteSetTheorems, TLAPS |
| `RestErrors` | how each client reads an answer: status, code and body to an error category | |
| `OrderCalls` | place, cancel and query of each client on top of that | `RestErrors` |
| `OrderRequests` | the unified order request and each adapter's native one | |
| `OrderStatuses` | each exchange's order states and the unified status | |
| `SpotOrders` | order calls end to end, the trade smoke runner and a retrying trader | `OrderCalls`, `OrderRequests`, `OrderStatuses`; instantiates `ExecutionContract` |
| `SpotProofs` | theorems about `SpotOrders` | `SpotOrders`, TLAPS |
| `Quotas` | the limiter rules, charges, quotas and limit headers of each client | |
| `SignedRequests` | a client's requests from New to the answer | `Quotas` |
| `SignedProofs` | theorems about `SignedRequests` | `SignedRequests`, TLAPS |
| `AccountLists` | OpenOrders and Balances of each adapter | |
| `MarketReads` | the public reads of each adapter | |
| `ReadRuns` | public reads over time, and the read smoke runner | `MarketReads` |
| `MC…` | instances for TLC | the module of that name |

**Session.** Four kinds of goroutine: Run (control point `pc`), the reader that `consume`
starts, callers of Close and callers of Reconnect. Every section under `session.mu` is one
step; everything after the unlock (cancel, `Connection.Close`) is a later one, so a close
may come arbitrarily late. `stopError` is two steps (`AskClosed`, then `ContextError` at one
of the `CtxPoints`), because it unlocks before it looks at the context: a Close in between
makes Run return `context.Canceled` although its caller canceled nothing.
`EndsForAReason` allows this at just these points (`CloseIsNamed`).
Connections are numbered as they are dialed. Reconnect is
called from outside or by the handler; in the second case an error of `Connection.Close`
is returned by the handler and ends Run (`CloseMayFail`). `Write` changes no state of the
session; it appears in `ManagedStream`.

**RateLimiter.** Time is a counter. `Wait` is three steps: read the clock, decide under the
lock, sleep. The reading may therefore be older than the clock when it is used, by at most
`MaxLag`. `log` (what was charged or observed per key, and when) and `standing` (the bans
of a key since its rule was last replaced) are history variables.

**Executor.** Per call: the limiter's wait, Build, lookup, the send, the body, and the
backoff. The network is a set of requests on their way; the exchange may execute or refuse
one at any time, also after its caller has returned. The limiter is reduced to the set of
keys it blocks; `RateLimiter` is its detailed model.

**OrderBook, DepthSync, StreamBook.** The exchange is a sequence of changes
(price, quantity); its book after n of them is the reference. One side of the book is
modelled, the other is treated by the same code. In `DepthSync` the loop's channel, buffer,
snapshot goroutine and timer are variables, and `venue` selects how update ids join. In
`StreamBook` `venue` selects the processor's rule (`OkxProcess`, `BybitProcess`, …) and
what Run does with control messages (`OkxRun`, …). OKX, Kraken and Crypto.com call the
application's handler for each event of a message (`PerEvent`), so a batch is one step per
event (`HandleData` with `handling`) and the views before a gap in the same message are
views like any other. Bitget and Crypto.com drop a leftover of a connection they gave up
before they look at what it is (`OnControl`). Messages read by the session and not yet
handled when Reconnect is called are still handled, as in `consume`. An event that
fails validation is the message `malformed`. CRC32 is taken to be injective. HTX
(`HtxHandle`) asks for its snapshots on the stream itself: updates wait in a buffer
(`refresh.buffer`), the answer is recognised by its id, replayed against the buffer
(`HtxSnapshot`), and may be lost (`LoseRefresh`); then the buffer fills until Run ends with
ErrMBPBufferOverflow. The pause between two requests is left out.

**ManagedStream.** Four families. *WrittenFirst* (OKX, Bybit, Coinbase, Kraken, Kraken
Futures, Bitget, Binance): the list changes after all commands are written, answers go to
the application; Kraken's run ends on a refusal. *Optimistic* (Gate.io ×2, HTX, Crypto.com,
MEXC, Korbit, Binance USD-M): pending and list change before the write and are rolled back
by a write error or an error answer. *WrittenEach* (KuCoin ×2, Coinone): one command is
written, then recorded. *Private* (HTX, Crypto.com): the hook only logs in, the handler of
the accepted login subscribes the list (`Activate`, `ActivateNext`), and a change made
before that touches nothing but the list. Each venue has its own Change, Resubscribe or
Authenticate, and HandleControl. HTX matches private answers by operation and topic;
Crypto.com does not take the list back when the wait for a command slot fails. Assumed of
the exchange: answers come in order; a repeated subscribe for an active subscription is
accepted; a private one before the login is refused. Assumed of the application: it waits
for the answer to a change before it changes the same subscription again, which only
MEXC's code enforces; and what the WrittenFirst managers pass on (refusals) is dealt with
by it. A write to a dead connection may seem to succeed; a failed write sends nothing.

**RestErrors, OrderCalls.** Operators, no state. An answer is a record: HTTP status, code,
whether the body is JSON of the expected shape, whether the order it must carry is there and
is the one asked about. Each client's classifyError and body decoder is a list of rules of
which the first applies, in the source's order, over the source's codes.

**OrderRequests, OrderStatuses.** An amount is named by what it measures (base, quote,
price), so that an adapter that puts the right number into the wrong field, or omits the
field that says how a number is to be read, changes the meaning of the order.
The reference is what each exchange does with its native fields, as the adapters use them. A native
order state is a word and whether anything was executed; `Live` and `Final` say what the
exchange may still do with it.

**SpotOrders.** One caller (`smoke` or `trader`), one client, one exchange. A call is
prepared (and may fail there), sent, executed by the exchange now, later or never, answered
completely, with damage, or not at all; what the client makes of the answer is `OrderCalls`.
Kraken and Coinbase look an order up in several lists one after another, between which it
may be filled or cancelled. `Damage` lists the damaged answers that occur in an instance.
Placements refine `ExecutionContract`.

**Quotas, SignedRequests.** `Quotas` has, per client, the rules and units of every kind of
request, the defaults, what New accepts, and what the limit headers of an answer are booked
on. `SignedRequests` runs several calls on one Client: the local clock is off by `drift`,
which may be set at any time; nextNonce is a load and a compare-and-swap with other calls in
between; a request that was given up may arrive later. A scenario fixes the client, its
configuration and the program that uses it. `issued`, `announced` (an answer has changed the
limits) and `sync` are history variables.

**AccountLists.** One OpenOrders or Balances call of an adapter as its sequence of
requests; each answer is the state of the exchange at that moment, or wrong in a way that
sets `lied`. Assumed of the exchanges: lists are newest first and cursors exclusive.

**MarketReads, ReadRuns.** `MarketReads` has, per adapter, what is asked for a limit, which
sizes the client lets through, which answers it refuses and what is kept. `ReadRuns` adds
time: half minutes pass between pages, minutes may be without trades (and then have no
candle), answers may be empty, double or about another market. Page sizes are scaled down
(350, 200, 200 candles to 9, 5, 5). The client's clock is the exchange's.

## Runs

| Run | Checks | What it shows |
|---|---|---|
| `session` | `SocketsAreKept EndsForAReason ClosesAreRight ObserverContract StopsOnRequest ReconnectHappens` | however Run, reader, Close, Reconnect, cancellation and a failing peer interleave: one socket, none leaked, Close is final, a late close hits no successor, Run returns when asked, a requested reconnection happens, and the Observer's history refines `SessionContract` |
| `limiter` | `LimitsHold AllOrNothing BanHolds WakesWhenRoom EveryWaitReturns` | no window over its limit, all rules charged or none, the longer ban counts, sleeps end exactly when there is room, every Wait returns |
| `executor` | `MutationsAreSafe AttemptsAreAccounted ImplementsContract EveryCallReturns` | an order and a read on one key, over a network that loses and delays: at most one execution, definite failures are final, bans and Close are respected, attempts reported once; the pipeline refines `ExecutionContract` |
| `depth` | `BookIsExchangeBook LoopIsDriven ViewsAdvance Synchronizes` | snapshots of any age, deltas of any size, losses and reconnects: a synchronised book is right, views advance, exactly one thing drives the loop, synchronisation is reached |
| `stream_books` | `StreamBookIsSound StreamViewsAdvance Resynchronizes` | the same for the channels with snapshots of their own and for HTX, with losses, repetitions, batches that break off in a gap, and leftovers of a connection |
| `managed` | `RestoringInStep ListedIsRestored` | once all is answered, list and exchange agree; a listed subscription comes into force, on private streams after the login |
| `managed_coinbase` (violation) | `ListedIsSubscribed` | a subscription recorded during a reconnect is on no connection |
| `spot_orders` | `OrdersKeepTheirMeaning RunLeavesNothing FoundIfThere ImplementsPlacement RunEnds` | 19 order clients, late execution, lost and damaged answers: no order doubled, changed in meaning, missed by a lookup, reported final when it is not, or left without an attempt to cancel it, for all damage but the seven pairs of client and kind under Limits |
| `spot_orders_binance` (violation) | `LeftOverIsCleaned` | an undecodable 200 answer leaves Binance's order on the book |
| `signed_requests` | `QuotasFit StampsAreAccepted NothingGoesBack CallsEnd` | 19 clients, quotas from none to ample: what New accepts suffices (but for finding 9), rules do not fight, reported usage reaches its rule, nonces rise, stamps are near the exchange's clock, calls end |
| `account_lists` | `AccountIsListed ListingEnds` | what stays open while a list is read is in it, once, under its market; balances are the funds; every listing ends, also when the exchange repeats itself |
| `read_runs` | `ReadsAreRight CandlesAreRight SmokeReportIsTrue ReadsEnd` | every read at the limits where a depth step, default or page ends: exact sizes, true labels, whole candles (but for finding 8), complete lists; an unverified route is not used and a passing report is true |

A property that is a conjunction has its parts as definitions of their own, each with a
comment and, in `PROJECT.json`, with a mutant that breaks it:

| Property | Parts |
|---|---|
| `SocketsAreKept` | `TypeOK OneSocket PublishedIsServed NoSocketLeak` |
| `ClosesAreRight` | `CloseIsFinal NoInnocentClose` |
| `MutationsAreSafe` | `ExecTypeOK AtMostOnce FailureIsFinal` |
| `AttemptsAreAccounted` | `ClosedRefuses ObservedOnce BanSpares` |
| `LimitsHold` | `LimiterTypeOK UsedIsTheEvents WindowLimit` |
| `LoopIsDriven` | `DepthTypeOK OneDriver` |
| `StreamBookIsSound` | `StreamBookTypeOK StreamBookIsExchangeBook GuardedCountOnce` |
| `RestoringInStep` | `ManagedTypeOK RestoringListIsSubscribed RestoringSubscribedIsListed` |
| `OrdersKeepTheirMeaning` | `SpotTypeOK KeepsMeaning FinalStatusIsTrue` |
| `RunLeavesNothing` | `NoDoubleOrder PassedMeansGone LeftOverIsCleaned CleanupOutlivesCaller` |
| `QuotasFit` | `SignedTypeOK AcceptedQuotasSuffice ReportsReachTheirRule` |
| `StampsAreAccepted` | `LoneCallIsAccepted SyncedStampIsNear` |
| `NothingGoesBack` | `NoncesRise RulesAreStable` |
| `AccountIsListed` | `ListsTypeOK StandingOrdersAreListed NothingIsListedTwice OnlyTheRequestedMarket BalancesAreTheFunds` |
| `ReadsAreRight` | `ReadsTypeOK ValidReadsAreSent SizesAreExact LabelsAreTrue MarketsAreComplete` |
| `CandlesAreRight` | `CandlesAreWhole RecentCandlesAreThere` |
| `SmokeReportIsTrue` | `UnverifiedRouteIsUnused ReportIsComplete PassedChecksHeldData` |

Limits of what the properties say:

* `WindowLimit` is for a window shortened by `MaxLag`: because `Wait` reads the clock
  before the lock, events may be dated earlier than they are granted. Without the
  shortening it is false. For the same reason events can be out of order, and `Wait` may
  then go round its loop without looking at the context until the head event expires.
* `BanHolds` is for a rule that SetRule does not replace; see finding 5. `BanSpares`, the
  part of `AttemptsAreAccounted` about bans, says little beside it: the limiter of `Executor`
  is a set of blocked keys and has no SetRule. What it checks is that a 429 blocks every key
  of the call that got it.
* `TruthfulStop` allows `context.Canceled` after a Close, see Session above; `GivesUpAtLimit`
  does not speak of deadline errors, with which the policy ends Run at once (finding 3).
* `BookIsExchangeBook`: a book begun with a snapshot truncated at `SnapshotLimit` may lack
  levels, but has none that is wrong; with an untruncated one it is equal.
* `StreamBookIsExchangeBook`: Kraken's channel has no update ids, so the book is verified
  only as deep as its checksum reaches.
* `StreamViewsAdvance` counts every view that a handler gets. `Blind` channels (Kraken, and
  OKX books5, whose events replace the book) have no numbers to compare: they take a batch
  that is sent once more and go back to its first event, so that their views never go back
  is claimed only until a message is lost or sent again. What the property says of
  SynchronizationID, and `StreamBookIsExchangeBook`, hold for them throughout.
* `GuardedCountOnce` is about Bitget and Crypto.com, which drop what is left of a connection
  they gave up. The other books handle the leftovers, and a second gap there is
  counted again.
* `Restoring` leaves out Coinbase, KuCoin and KuCoin Futures (see Findings) and MEXC, whose
  fallback to the oldest pending command (`exchange/mexc/websocket.go:477`) can attribute an
  answer without id to another command when one was written before the hook; with two listed
  subscriptions TLC reaches it. `RestoringSubscribedIsListed` also leaves out Korbit, which
  ignores a refused unsubscribe. A rollback after the application changed its mind without
  waiting for the answer (`exchange/gateio/websocket.go:434`) undoes the later change; the
  run assumes an application that waits.
* `SpotOrders`: the passing instance leaves out the damaged answers that a client reads as a
  definite failure though the order may stand (`MCDamage`), seven pairs of client and kind:
  an answer that is no JSON at Binance (finding 2), a 2xx answer without order at
  Bitget and Coinbase (INTERNAL), a 5xx with an unlisted code at Crypto.com (VALIDATION), and a
  placement answered with another order's name at Gate.io, MEXC and Kraken (a plain error).
  `tlc -config MCSpotTables.cfg MCSpotOrders` shows `ClientReadsSafely` satisfied without
  them; with any one of them in `MCDamage` it is violated. That is a look at the error tables
  alone, so no run counts it; it is the hypothesis of three theorems. Also met
  on the way: a 2xx answer without order is order "0" at Binance, Bybit takes a missing
  retCode for success, and Coinbase's cancel
  (`exchange/coinbase/orders.go`) returns plain errors after a successful answer.
* `AcceptedQuotasSuffice`: every client is given quotas from -1 over 1, 9 and 10 to 101. MEXC
  and KuCoin (spot and futures; `LaxNew`) accept quotas from 1 although private requests weigh 10
  and more, and the property leaves out just that (`Starved`); it is finding 9. KuCoin reads an
  unreadable remaining header as 0. Binance USD-M's place charges no weight, so a weight
  report is dropped until another request has registered the rule.
* `NoncesRise` is per Client: two Clients with one key are not ordered. An older ServerTime
  measurement may overwrite a newer one (`docs/PROJECT_PLAN.md:429` says so).
* `AccountLists`: KuCoin's page numbers can miss or repeat an order when one closes or opens
  in between; Gate.io's totals do not show one opening and one closing, nor a server that
  repeats page 1; Bitget, Upbit and Korbit read one page; nine adapters do not compare the
  market of an order with the one asked for; Bybit, Binance and Bitget leave Market empty
  when all markets are asked (`docs/UNIFIED_SPOT.md:59`); 100 full pages are an error at HTX.
  The properties name these cases and cover the rest.
* `CandlesAreRight`: at Coinbase, Korbit and Kraken it does not demand whole candles when one
  of the last buckets is without trades (finding 8), so it catches a bucket cut by a page
  border there, but not one cut by the start of the window. That none of the last candles is
  missing is demanded of all. `Traded` has four kinds of history.
* `ReadRuns`: most adapters read an unknown trade side as a sell (Gate.io, HTX and
  Crypto.com refuse it); a limit of 0 is the exchange's default at Bithumb and Upbit; the
  smoke runner does not compare NativeMarket with the market asked for.
  `docs/UNIFIED_SPOT.md:87` does not mention that HTX and Crypto.com merge 3-minute candles
  too.

## Findings

Two are runs of `PROJECT.json`:

1. `managed_coinbase`: the hook (`exchange/coinbase/websocket.go:192`) evaluates
   `managed.snapshot()` before `writeSubscriptions` takes commandMu.
2. `spot_orders_binance`: decodeOrder (`exchange/binance/client.go:635`) returns a plain
   error for a 200 answer it cannot decode; the trade smoke runner takes the order for not
   placed and does not cancel it, though `smoke/trade.go:131` says it always tries.

The others have a configuration of their own; `tlc -config X.cfg M` shows the violation:

3. `MCSessionTimeout.cfg`, `TimeoutIsRetried`: `DefaultReconnectPolicy`
   (`stream/session.go:432`) refuses every error that wraps `context.DeadlineExceeded`. The
   ping of `consume` and a login in OnConnect run under deadlines of their own, so a silent
   peer ends Run; the comment at line 430 and `docs/STREAMS.md:97` say connection errors are
   retried.
4. `MCSessionHandlerError.cfg`, `HandlerErrorReturned`: `reconnectCause`
   (`stream/session.go:162`) replaces the handler's error by errReconnectRequested when a
   Reconnect was requested meanwhile; `handlerFailed` then ends Run with the wrong error.
5. `MCRateLimiterBanReset.cfg`, `BanRespected`: SetRule (`ratelimit/limiter.go:152`) replaces
   the bucket of a changed rule and `blockedUntil` with it.
6. `MCManagedStreamKucoin.cfg`, `ListedIsSubscribed`: `change`
   (`exchange/kucoin/websocket.go:480`) writes a command before it notes it as pending; an
   error answer in between is dropped and the refused subscription stays in the list.
7. `MCSignedRequestsUsdm.cfg`, `SyncedStampIsNear`: ServerTime of Binance USD-M
   (`exchange/binance/usdm/market.go:25`) measures over a span that includes the wait for
   the limiter; `docs/exchanges/BINANCE_USDM.md:35` promises an offset taken at the middle of the round trip.
8. `MCReadRunsGap.cfg`, `MergedCandlesAreWhole`: where minutes are asked for by a window
   (`exchange/coinbase/unified.go:436`, Korbit, Kraken) and some are without trades, the
   first 3-minute candle may be merged from a part of its minutes;
   `docs/UNIFIED_SPOT.md:81` and `:87` promise the same candles everywhere.
9. `MCSignedRequestsQuota.cfg`, `EveryRequestFits`: New of MEXC
   (`exchange/mexc/client.go:96`) and of KuCoin accepts any quota from 1, though MEXC's private
   requests charge 10 and more (`exchange/mexc/limits.go:22`). The limiter refuses a charge above
   the limit for good, so with a smaller quota every private call fails; the other clients
   refuse such a quota in New.

## Bounds

| Module | Bounds | Why they are enough |
|---|---|---|
| Session | `MaxDials` 3, `MaxFailures` 2, `MaxReconnectCalls` 2, `MaxReconnectAttempts` 1 | a close of connection 1 can be late for 2 and 3; two Reconnects overlap; the limit is met and passed. The safety properties are proved without the bounds |
| RateLimiter | 2 callers, clock to 5, window 3, limits 2 and 1, lag 1, 2 administrative calls, observation 2 | events expire within the run, a heavy and a light caller compete, two bans overlap, a rule comes late or is replaced. The safety properties are proved without the bounds |
| Executor | 2 calls, 3 attempts, 2 keys | an order and a read share a key, an order has one of its own, a retry can be overtaken by a late execution. The safety properties are proved without the bounds |
| DepthSync | 6 changes, buffer 3, snapshots of 2 levels, 3 connections, 2 losses | the buffer overflows; a snapshot can be older than, within or newer than the buffered deltas; a level vanishes and comes back. The safety properties are proved without the bounds |
| StreamBook | 5 updates, depth 2, checksum depth 1, queue 2, 2 connections, 2 faults, HTX buffer 2 | a level falls out of the depth, changes unseen and comes back; a lost and a repeated message combine; leftovers meet a reconnect; HTX's buffer has a gap, joins badly, overflows. The safety properties are proved without the bounds |
| ManagedStream | 2 subscriptions, 2 changes, 2 connections, one subscription per OKX and Bybit command, lists of at most 1 or 2 | a change spans two commands, a change spans two connections, the limit is met, a change falls before, into and after the login. `RestoringInStep` is proved without the bounds |
| SpotOrders | 2 placements, one order each; every valid unified request; refusals, not-found, vague, damaged and successful answers from each client's error table | a retry meets a late execution; every group of every table is reached |
| SignedRequests | 3 calls, 2 attempts, clock from 3, limits reported 0 or 250, ten quotas from -1 to 101: refused, below, at and above the dearest request | two calls draw a nonce together while a third is late; the clock stands still, is off, is set back. The safety properties are proved without the bounds |
| AccountLists | pages of 2, batches of 1, 3 pages, 2 changes, up to 5 orders | a list of two full pages and one more; an order moves across a page border in both directions; the page limit is met |
| ReadRuns | the limits at every depth step, default and page size and one beyond each maximum; one tick per read; six phases of the clock (120 to 125) | every phase of a 3-minute bucket; the minute changes between two pages. The safety properties are proved without the bounds |

## Fairness

* Session: weak fairness for goroutines that can move. A dial, RequestSource, hook or
  read may block until its context is done or its connection is gone. Strong
  fairness for `ConsumeStops`, since Go's select picks among ready cases at random.
  `ReconnectHappens` has the responsiveness of dials and hooks (`Responsive`) as its
  antecedent. Nobody has to call Run, Close, Reconnect or cancel.
* RateLimiter: time passes, callers and timers run.
* Executor: calls run, deadlines expire, and a call whose context is done does not block.
  Network and exchange owe nothing.
* DepthSync: loop, timers and requests end; existing deltas are delivered. Strong fairness
  for a fresh snapshot: a snapshot asked for again and again is some time up to date. An
  exchange that always answers with an old one is outside what the code can handle.
* StreamBook: read messages are handled; a new connection follows Reconnect; the exchange
  sends the snapshot and the updates it has. HTX accepts the subscription and answers
  requests; a lost answer is a fault.
* ManagedStream: a call under way and the Run goroutine go on; the exchange reads and
  answers.
* SpotOrders, SignedRequests: the goroutine of a call goes on; a call whose answer does not
  come ends by its deadline, which `Executor` shows. Nothing is owed by the exchange.
* AccountLists, ReadRuns: every request of a call gets an answer or fails, for that reason.

Deadlock is checked except in `spot_orders`, `signed_requests` and `read_runs`, which end
when the last call has returned. In the others the explicit final steps (`Returned`,
`AllReturned`, `Over`, `Quiet`, `TimeIsUp`) mark where a system may rest or a bound is
reached.

## Proofs

`TransportProofs` on `Session`, from `SessionAssumption` alone (types of the constants; any bounds):

* `Typing`, `SingleSocket`, `NothingLeaks`, `PublishedServed`, `FinalClose`,
  `InnocentClose`, `TruthfulRun`: the safety properties and action properties of the
  `session` run;
* `GivesUp`: `GivesUpAtLimit`;
* `SocketsKept`, `ClosesRight`, `EndsRight`: the conjunctions the run names;
* `ImplementsContract`: `Spec => Contract!Spec`, every step is a step of `SessionContract`
  or leaves state and generation unchanged.

`OneSocket` is not inductive: Connect opens a socket, so one has to know that none is
open whenever Run dials. The inductive invariant is `ServiceInv`: `TypeOK`; `SocketInv`
(the only open socket is that of Run's local `conn`, and none is open at the control
points where Run is unconnected); `PublishedIsServed`; and `ClosersInv` (whoever is about
to close a connection in service left a trace that still holds when the close happens).
Three further invariants rest on it: `ObserverInv` (what was last announced at each
control point), for the contract; `StopInv` (who canceled the Run context, and which
errors can be on their way to Run), for `TruthfulStop`; and `NamedInv` (after a Close that
was not seen between the two reads of `stopError`, no step brings Run to blame the context),
for `CloseNamed`, the theorem about `CloseIsNamed`. The latter cannot be an invariant
alone: it depends on where Run was when Close came. `AttemptInv` carries
`GivesUpAtLimit`: what `attempt` may be at each control point, and that a retryable error
on its way out of Run comes with the last attempt or with a failed handler. Their proofs
have one step per action.

`CallProofs` on `Executor`, from `ExecutorAssumption` (mutations are calls, charges are sets of keys,
at most five attempts, as `ReadRetryPolicy.validate` demands), for any set of concurrent calls:

* `ExecTyping`, `OnceOnly`, `FailureFinal`, `CloseRefuses`, `AttemptsObserved`;
* `MutationsSafe`, `AttemptsAccounted`: the conjunctions the run names;
* `PipelineContract`: the pipeline implements `ExecutionContract`.

`AtMostOnce` and `FailureIsFinal` are not inductive either: a late execution is harmless
only because of what the caller can have been told. `SentInv` says that a mutation has one
attempt, is not on the wire before it is dialed, is never both on the wire and executed,
and that a call that has returned anything but an open result has not sent it. `Bounded`
(a call that backs off has an attempt left) carries the typing, `AdmittedInv` (a call that
dials after Registry.Close passed lookup before) `ClosedRefuses`, `ArgumentInv`
`ObservedOnce`, and `BanInv` (the limiter blocks every key under a ban) `BanSpares`, which is nearly the
definition of admission here (see Limits); the result about bans is `BansAreHeld` below.

`TransportProofs` on `RateLimiter`, from `LimiterAssumption` (types of rules, charges and
callers; any lag, any number of callers and administrative calls):

* `LimitsAreKept`: `LimitsHold`;
* `BansAreHeld`: `BanHolds`; `ChargesAllOrNothing`: `AllOrNothing`;
* `SleepsAreExact`: `WakesWhenRoom`.

`WindowLimit` speaks of what was charged, the code decides by what its bucket still holds.
`KeyInv` ties the two together for each key: `used` is the sum of the units of `events`
(`Units`), the events are the last charges of the log and what was let go had expired
(`Recorded`), and no window that ends in a grant is over the limit (`Within`).
Pruning, charging, an observed usage and a new rule each keep it, whatever the order of
the event times. `BanInv` says that a bucket is blocked at least until the end of every
standing ban. The first attempt at this proof failed on a ban, a new rule and a shorter
ban after it; `standing` is therefore what SetRule has left of the bans, not the longest
ban ever. `WakesWhenRoom` compares the candidate that the code finds by walking over the
events with a definition over all moments. Since the events are in order, the events that
are gone at a moment are the first few (`HeldOfSplit`), and the candidate is the expiry of
the first event with which enough leaves: before it the rule has no room, at it there is
some (`BlocksExactly`).

`DepthProofs`, from `ChangeAssumption` and `DepthAssumption` (any history of the
exchange, any buffer, depth, number of connections and losses):

* `BookIsRight`: `BookIsExchangeBook`; `LoopDriven`: `LoopIsDriven`;
* `ViewsMoveForward`: `ViewsAdvance`.

`DepthInv` adds to the types `OrderInv` (what the channel, the buffer and the last view hold is
in the order of the update ids), `DriverInv` (one of book, snapshot, request and timer drives the
loop), `BookInv` and `ViewInv` (the last view is that of the book). `BookIsExchangeBook`
is not inductive because a delta is applied without looking at the book: that it is the
next one follows from `OrderInv` and the join of the ids. `ViewsAdvance` needs the same,
since a book thrown away is followed by one that may be older.

`StreamProofs`, from `ChangeAssumption` and `StreamBookAssumption` (any history, depths,
queue, number of connections and faults):

* `StreamBookRight`: `StreamBookIsSound`; `StreamViewsForward`: `StreamViewsAdvance`;
* `StreamInvariant`: the invariant both come from.

`StreamInv` says that the book is right as far as the venue's rule can tell (`BookInv`), that
pending messages are ones the channel can carry (`ChannelInv`), that nothing has come before
the subscription was answered (`FreshInv`), that the message numbers of Bybit and
Coinbase chain the updates (`NumberInv`), in which order messages and views stand to each
other (`OrderInv`, `ViewInv`, `SeenInv`), that HTX's buffer lies between the last view and
what is to come (`BufferInv`), and that a connection given up has been counted
(`GapInv`). `StreamBookIsSound` alone is not inductive: whether an update fits is decided by
ids, so one has to know what a message with these ids contains. `VerdictFacts` says for
each processor what it does with a message that the channel can carry; the rest of the
proof is the same for all venues. Within a message that is handled event by event the invariant
speaks of the events still to be taken; `BlindInv` says that as long as nothing was lost or
sent again, the `Blind` channels hold only what is above the last view.

`ManagedProofs`, from `ManagedStreamAssumption` (any subscriptions, any limits and portions of a
command, any number of changes and connections):

* `ManagedHolds`: the invariant `ManagedInv`; `StaysInStep`: `RestoringInStep`, that is typing,
  `RestoringListIsSubscribed` and `RestoringSubscribedIsListed`.

`RestoringInStep` speaks only of moments at which nothing is under way, so no step can be
judged by it. `ManagedInv` says what each subscription will come to, whatever is under way:

* `TypedInv`: types, and that without a connection nothing is on the way;
* `UntrackedInv`, for managers that wait for no answer: what the last command on the way says of
  a subscription is what is listed, or what the hook or the change in progress will still
  write; an error answer to one of them ends Run;
* `PendingInv`, for managers that wait: no two pending commands share a subscription, each is
  listed the way its pending command wants it (`NotedInv`), and what a change or the hook is
  about to write is not pending (`CallInv`, `TodoInv`);
* `OrderInv`: ids are used once, on the wire and in answers, and name the pending command;
* `AgreementInv`: a subscription with no pending command is listed if and only if it is in
  force, and a pending command is unwritten, on the wire or answered, each with what the
  exchange then has of it;
* `ConnectedInv`: before the hook, nothing is in force that the hook will not write;
* `LoginInv`: on private streams nothing is noted, written or answered before the login is,
  and the login is the last command before its answer.

The proof has one part for the managers that wait for no answer and one for those that do,
each with one lemma for each action. It made one correction: the kinds of error answers were
chosen by overlapping cases and are now a union.

`SignedProofs`, from `SignedAssumption` (numbers are numbers; any number of calls, any
behaviour of the local clock, any configuration):

* `StampsHold`: `StampsAreAccepted` for every client but Binance USD-M, for which it is
  false (finding 7);
* `NoncesGoUp`: `NoncesRise`; `NothingIsReset`: `NothingGoesBack`;
* `QuotasAreEnough`: `QuotasFit` for any configured quota, with `AnnouncementsSuffice` as
  hypothesis: the limits that Binance announces itself, which no New has seen, hold the dearest
  request. The instance TLC checks satisfies it. Starved clients are excepted in the property
  itself (finding 9).

A nonce that rises and a request that is accepted are several steps apart. `NonceOK` says
that a nonce about to be stored is above the one loaded and that nothing signed is above
the last one stored; `LoneOK` that the nonce of a call without company is above all that is
on its way; `ClockOK` what a measurement in progress knows. `RuleInv` says that the rules
that are set are the ones every request of the client would set again, and rests on
`ChargesAgree`, the comparison of all charges of each of the nineteen clients; `BudgetInv`
that the quotas in force of a client that is not starved hold the dearest request (`ChargesFit`) and that what answers
taught is charged (`LessonsAreCharged`). The proof corrected `RulesAreStable`: it used to
hold its peace only while the quotas differed from the defaults, but an answer may
announce the defaults again after other limits; hence the history variable `announced`.

`SpotProofs`, from `SpotAssumption` (the clients are among the fifteen unified ones and the
four futures ones; any number of attempts, any damage to answers):

* `MeaningHolds`: the invariant `MeaningInv`; `OrdersKeepMeaning`: `OrdersKeepTheirMeaning`;
* `RunHolds`: the invariant `RunInv`; `NothingIsLeft`: `RunLeavesNothing`; `QueriesFind`:
  `FoundIfThere`; `PlacementContract`: `ImplementsPlacement`. These have the hypothesis
  `ClientReadsSafely` at the start: the client at work reads every answer of its exchange as
  `ReadsSafely` says (`SafeStays`: it remains so). They claim nothing of the seven clients
  that break it once the exchange sends the damaged answers listed under Limits; with the
  damage of the instance it holds for all nineteen (`MCSpotTables.cfg`).

`KeepsMeaning` follows from what each adapter makes of a unified request: the lemmas
`BinanceExpresses`, `OkxExpresses`, … say it of one exchange each, and `StatusesAreTrue` says the
same of the fifteen status tables. What is told can be false although each table is true,
because an answer is older than the order's state: `QueryInv` says which states an answer
under way may still speak of, and that a lookup in several lists meets the order in one of
them, since it moves only from the open list to the closed one. `NoDoubleOrder` is not
inductive: a second placement is harmless only because of what the first one returned.
`PlacementInv` says that all placements but the last one sent are refused or unsent, and that
nobody was told "failed" of an order that is or may yet be accepted; `ReportInv` what the
runner's report knows of the order at each step.

`CallProofs` on `ReadRuns`, from `ReadsAssumption` and `RunsAssumption` (any reads, limits, listings,
depths, numbers of trades and times of day; histories of the four kinds named there):

* `ReadsHold`: the invariant `ReadsInv`; `ReadsComeBackRight`: `ReadsAreRight`;
  `SmokeReportHolds`: `SmokeReportIsTrue`;
* `CandlesComeBackRight`: `CandlesAreRight`, from `ReadsInv` and `CandleInv`. It says what the
  property says: whole candles are not claimed of Coinbase, Korbit and Kraken when a bucket is
  quiet (finding 8), and the history is one of the four kinds of `Traded`.

A finished read says little about the pages before. `ReadsInv` has, beside the types, what is
left to do and reported (`Tracks`: together the list of checks, and nothing sent unless the
route matches), that a window ends before the read began (`CallInv`), that the pages of a
listing have brought its beginning, or repeat for a stuck exchange (`ListInv`), and what a
finished read has to show while its check is not yet concluded (`DoneInv`). Sizes, labels and
listings rest on one lemma for each adapter and kind of read.

Candles need the time in addition: `WindowInv` says that the pages taken have brought every
traded minute of the window up to the cursor. All fifteen adapters read in one of three
ways (`CandlesShaped`): an answer of the asked length, minutes merged in one answer, minutes
merged over pages. A bucket that is kept lies among the last n, or fewer than n buckets
above it have a candle; so by counting, three minutes to a bucket, none of its minutes can
have fallen out of the newest 3n (`FewMinutes`).

`SharedFacts` holds the lemmas about data. Induction over data is replaced
by the least counterexample (`LeastNumber`), which the provers can instantiate; so what
the recursive functions compute for every input is proved: `Units`, the candidate of
`Wait`, and the exchange's book after any number of changes. It also shows that a book
cut to a depth, updated and cut again has the best levels of the exchange's book.

Only model-checked:

* liveness, which needs fairness and ENABLED;
* of `ManagedStream`, `ListedIsRestored`, which is liveness; the managers of Coinbase, KuCoin
  and MEXC are outside `Restoring` (findings), and only their typing is proved;
* `AccountIsListed` of `AccountLists`: what a list holds is built with the sequence operators
  of the libraries (SelectSeq, FlattenSeq, SetToSeq), whose definitions the provers cannot use.

No module declares a RECURSIVE operator.

## Not modelled

* Request building beyond the order fields, answer types, frame decoding, options: pure
  mappings of one value; no state outlives a call. Texts of numbers, names and times are
  abstracted in every module.
* Quota specifications that Binance's ExchangeInfo announces under a name the client does not
  have yet (`exchange/binance/limits.go:45`): the code adds them to the catalogue;
  `BinanceUpdate` only replaces those with a known name.
* Signers and credentials: cryptography. That a signature is made, over which stamp and at
  which point, is in `SignedRequests`.
* Endpoints outside the unified interface (conditional orders, transfers, histories,
  positions): the same call with other data; their charges are in `Quotas`.
* Registry: building transports from routes, address binding, diagnostics.
* Diagnostics and catalogue tools, flags and report files of the smoke runner, and its
  classification of failures: straight-line command-line programs.
* Private streams with a fixed list: OKX, Bybit, Bitget, Coinbase, Kraken ×2 and Binance log
  in within the hook, which `Session` has; MEXC, Binance USD-M, KuCoin and others hold a
  listen key or token that is asked for at each dial and renewed by a timer.
* In `ManagedStream`: heartbeat replies (HTX, Crypto.com, MEXC), argument validation. In
  `RateLimiter`: backends other than the in-process one.

## Plan

Done, in this order: Session with contract and proofs; RateLimiter; Executor with contract
and proofs; OrderBook, DepthSync, StreamBook; ManagedStream; the error tables, order
requests, statuses and calls with SpotOrders; Quotas and SignedRequests; AccountLists;
MarketReads and ReadRuns; the HTX book; the private managers of HTX and Crypto.com; the
proofs of RateLimiter, DepthSync, StreamBook, SignedRequests, SpotOrders, ManagedStream and
ReadRuns.

Next:

1. Proofs: `AccountIsListed` of `AccountLists`.
2. Listen keys: a key that expires while a connection lives, a renewal that races
   Reconnect and Close, a key cleared by the failure of an older renewal.
3. Composition of `Session` with a book: the leftovers of a connection as the reader
   really leaves them, instead of the queue of `StreamBook`.
