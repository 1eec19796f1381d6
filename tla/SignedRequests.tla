--------------------------- MODULE SignedRequests ---------------------------
(***************************************************************************)
(* The requests of one REST client: New, the checks before a request, the  *)
(* limiter, the secret, the timestamp or nonce, the signature, the answer  *)
(* and its headers (client.go, private_client.go and limits.go of every    *)
(* client, credential.go).  Calls run concurrently on one Client and share *)
(* its nonce, its clock offset and its limiter rules.                      *)
(*                                                                         *)
(* The local clock is off by `drift`, which an NTP step may change at any  *)
(* time; the exchange's clock is the true time `now`.  How a call fails    *)
(* and is retried is Executor's subject, how the limiter counts is         *)
(* RateLimiter's: here a call waits for any time and may give up.          *)
(***************************************************************************)
EXTENDS Quotas

CONSTANTS
  Calls,        \* calls, numbered in the order they begin
  Scenarios,    \* [venue, given, flaw, access, ops, number, together, headers, drifts, until]
  Epoch,        \* what a correct clock shows at time 0
  MaxTries,     \* attempts of a read
  Reported      \* limits that ExchangeInfo may report

VARIABLES
  scenario,     \* the client's configuration and the program that uses it
  client,       \* "none", "refused" or "ready"
  quotas,       \* the limits in force
  calls,        \* state of each call
  lastNonce, clockOffset,           \* fields of Client
  now, drift,                       \* true time, error of the local clock
  issued,       \* history: nonces handed out, in order
  rules,        \* the limiter's rules: limit of each key
  announced,    \* history: whether an answer has announced other limits
  learned,      \* keys whose usage an answer reported
  wire,         \* <<call, nonce>>: signed requests on their way
  highest,      \* the exchange: highest nonce accepted
  sync          \* history: how the clock offset in force was measured

clientVars == <<scenario, client, quotas, announced>>
clockVars == <<now, drift>>
netVars == <<wire, highest>>
signedVars == <<scenario, client, quotas, calls, lastNonce, clockOffset, now, drift, issued, rules, announced, learned, wire, highest, sync>>

venue == scenario.venue
Clock == Epoch + now + drift
-----------------------------------------------------------------------------
(* What the clients do differently in their public and signed requests: the *)
(* stamp a request carries, the parts of the secret it needs, whether a     *)
(* time before the epoch is refused, the error of a signature that cannot   *)
(* be made, and whether the limiter is told of the headers of an answer.    *)

KeyPair == {"key", "secret"}
WithPassphrase == {"key", "secret", "passphrase"}

OkxRequests ==
  [stamp |-> "offset",
   needs |-> WithPassphrase,
   epoch |-> FALSE,
   refusal |-> "plain",
   reports |-> FALSE]

BybitRequests ==
  [stamp |-> "offset",
   needs |-> KeyPair,
   epoch |-> FALSE,
   refusal |-> "plain",
   reports |-> TRUE]

BitgetRequests ==
  [stamp |-> "clock",
   needs |-> WithPassphrase,
   epoch |-> FALSE,
   refusal |-> "plain",
   reports |-> TRUE]

BinanceRequests ==
  [stamp |-> "offset",
   needs |-> KeyPair,
   epoch |-> FALSE,
   refusal |-> "plain",
   reports |-> TRUE]

UsdmRequests ==
  [stamp |-> "offset",
   needs |-> KeyPair,
   epoch |-> FALSE,
   refusal |-> "plain",
   reports |-> TRUE]

CoinbaseRequests ==
  [stamp |-> "clock",
   needs |-> KeyPair,
   epoch |-> FALSE,
   refusal |-> "authentication",
   reports |-> FALSE]

KrakenRequests ==
  [stamp |-> "nonce",
   needs |-> KeyPair,
   epoch |-> FALSE,
   refusal |-> "authentication",
   reports |-> FALSE]

KrakenFuturesRequests ==
  [stamp |-> "nonce",
   needs |-> KeyPair,
   epoch |-> FALSE,
   refusal |-> "authentication",
   reports |-> FALSE]

GateioRequests ==
  [stamp |-> "clock",
   needs |-> KeyPair,
   epoch |-> TRUE,
   refusal |-> "authentication",
   reports |-> TRUE]

GateioFuturesRequests ==
  [stamp |-> "clock",
   needs |-> KeyPair,
   epoch |-> TRUE,
   refusal |-> "authentication",
   reports |-> TRUE]

KucoinRequests ==
  [stamp |-> "clock",
   needs |-> WithPassphrase,
   epoch |-> TRUE,
   refusal |-> "authentication",
   reports |-> TRUE]

KucoinFuturesRequests ==
  [stamp |-> "clock",
   needs |-> WithPassphrase,
   epoch |-> TRUE,
   refusal |-> "authentication",
   reports |-> TRUE]

HtxRequests ==
  [stamp |-> "clock",
   needs |-> KeyPair,
   epoch |-> TRUE,
   refusal |-> "authentication",
   reports |-> TRUE]

MexcRequests ==
  [stamp |-> "clock",
   needs |-> KeyPair,
   epoch |-> TRUE,
   refusal |-> "authentication",
   reports |-> FALSE]

CryptocomRequests ==
  [stamp |-> "clock",
   needs |-> KeyPair,
   epoch |-> TRUE,
   refusal |-> "internal",
   reports |-> FALSE]

KorbitRequests ==
  [stamp |-> "clock",
   needs |-> KeyPair,
   epoch |-> TRUE,
   refusal |-> "authentication",
   reports |-> TRUE]

CoinoneRequests ==
  [stamp |-> "random",
   needs |-> KeyPair,
   epoch |-> FALSE,
   refusal |-> "plain",
   reports |-> TRUE]

BithumbRequests ==
  [stamp |-> "random",
   needs |-> KeyPair,
   epoch |-> FALSE,
   refusal |-> "plain",
   reports |-> FALSE]

UpbitRequests ==
  [stamp |-> "random",
   needs |-> KeyPair,
   epoch |-> FALSE,
   refusal |-> "plain",
   reports |-> TRUE]


\* A client as the actions see it: how it signs, its default quotas, which
\* quotas New accepts, its operations, what they cost and what headers tell.
Client(signing, defaults, ops) == [signing |-> signing, defaults |-> defaults, ops |-> ops]

Venues ==
  {"okx", "bybit", "bitget", "binance", "usdm", "coinbase", "kraken",
   "kraken_futures", "gateio", "gateio_futures", "kucoin",
   "kucoin_futures", "htx", "mexc", "cryptocom", "korbit", "coinone",
   "bithumb", "upbit"}

ClientOf ==
  [v \in Venues |->
     CASE v = "okx" -> Client(OkxRequests, NoQuotas, DOMAIN OkxLimits)
       [] v = "bybit" -> Client(BybitRequests, NoQuotas, DOMAIN BybitLimits)
       [] v = "bitget" -> Client(BitgetRequests, NoQuotas, DOMAIN BitgetLimits)
       [] v = "binance" -> Client(BinanceRequests, BinanceDefaults, DOMAIN BinanceWeights)
       [] v = "usdm" -> Client(UsdmRequests, UsdmDefaults, DOMAIN UsdmWeights)
       [] v = "coinbase" -> Client(CoinbaseRequests, CoinbaseDefaults, CoinbaseOps)
       [] v = "kraken" -> Client(KrakenRequests, KrakenDefaults, KrakenOps)
       [] v = "kraken_futures" -> Client(KrakenFuturesRequests, KrakenFuturesDefaults, KrakenFuturesOps)
       [] v = "gateio" -> Client(GateioRequests, GateioDefaults, GateioOps)
       [] v = "gateio_futures" -> Client(GateioFuturesRequests, GateioFuturesDefaults, GateioOps \cup {"positions"})
       [] v = "kucoin" -> Client(KucoinRequests, KucoinDefaults, DOMAIN KucoinWeights)
       [] v = "kucoin_futures" -> Client(KucoinFuturesRequests, KucoinFuturesDefaults, DOMAIN KucoinFuturesWeights)
       [] v = "htx" -> Client(HtxRequests, HtxDefaults, HtxOps)
       [] v = "mexc" -> Client(MexcRequests, MexcDefaults, DOMAIN MexcWeights)
       [] v = "cryptocom" -> Client(CryptocomRequests, CryptocomDefaults, CryptocomOps)
       [] v = "korbit" -> Client(KorbitRequests, KorbitDefaults, KorbitOps)
       [] v = "coinone" -> Client(CoinoneRequests, CoinoneDefaults, UpbitOps)
       [] v = "bithumb" -> Client(BithumbRequests, BithumbDefaults, UpbitOps)
       [] v = "upbit" -> Client(UpbitRequests, NoQuotas, UpbitOps)]

signing == ClientOf[venue].signing

\* Calls are numbered from one; the error of a clock and a quota are numbers.
ASSUME SignedAssumption ==
  /\ Calls \subseteq Nat \ {0} /\ MaxTries \in Nat \ {0} /\ Epoch \in Nat
  /\ \A s \in Scenarios : s.venue \in Venues /\ s.drifts \subseteq Int /\ s.given \in Int
  /\ Reported \subseteq Nat

Accepts(v, q) ==
  CASE v = "coinbase" -> CoinbaseAccepts(q) [] v = "kraken" -> KrakenAccepts(q)
    [] v = "kraken_futures" -> KrakenFuturesAccepts(q) [] v = "gateio" -> GateioAccepts(q)
    [] v = "gateio_futures" -> GateioFuturesAccepts(q) [] v = "kucoin" -> KucoinAccepts(q)
    [] v = "kucoin_futures" -> KucoinFuturesAccepts(q) [] v = "htx" -> HtxAccepts(q)
    [] v = "mexc" -> MexcAccepts(q) [] v = "cryptocom" -> CryptocomAccepts(q)
    [] v = "korbit" -> KorbitAccepts(q) [] v = "coinone" -> CoinoneAccepts(q)
    [] v = "bithumb" -> BithumbAccepts(q) [] OTHER -> TRUE

ChargesOf(v, op, q) ==
  CASE v = "okx" -> OkxCharges(op, "BTC", q) [] v = "bybit" -> BybitCharges(op, "BTC", q)
    [] v = "bitget" -> BitgetCharges(op, "BTC", q) [] v = "binance" -> BinanceCharges(op, "BTC", q)
    [] v = "usdm" -> UsdmCharges(op, "BTC", q) [] v = "coinbase" -> CoinbaseCharges(op, "BTC", q)
    [] v = "kraken" -> KrakenCharges(op, "BTC", q) [] v = "kraken_futures" -> KrakenFuturesCharges(op, "BTC", q)
    [] v = "gateio" -> GateioCharges(op, "BTC", q) [] v = "gateio_futures" -> GateioFuturesCharges(op, "BTC", q)
    [] v = "kucoin" -> KucoinCharges(op, "BTC", q) [] v = "kucoin_futures" -> KucoinFuturesCharges(op, "BTC", q)
    [] v = "htx" -> HtxCharges(op, "BTC", q) [] v = "mexc" -> MexcCharges(op, "BTC", q)
    [] v = "cryptocom" -> CryptocomCharges(op, "BTC", q) [] v = "korbit" -> KorbitCharges(op, "BTC", q)
    [] v = "coinone" -> CoinoneCharges(op, "BTC", q) [] v = "bithumb" -> BithumbCharges(op, "BTC", q)
    [] v = "upbit" -> UpbitCharges(op, "BTC", q)

LessonsOf(v, op, q, h) ==
  LET charges == ChargesOf(v, op, q)
  IN CASE ~ClientOf[v].signing.reports -> {}
       [] v = "bybit" -> BybitObserves(op, charges, h) [] v = "bitget" -> BitgetObserves(op, charges, h)
       [] v = "gateio" -> GateioObserves(op, charges, h)
       [] v = "gateio_futures" -> GateioFuturesObserves(op, charges, h)
       [] v = "kucoin" -> KucoinObserves(op, charges, h)
       [] v = "kucoin_futures" -> KucoinFuturesObserves(op, charges, h)
       [] v = "htx" -> HtxObserves(op, charges, h) [] v = "korbit" -> KorbitObserves(op, charges, h)
       [] v = "coinone" -> CoinoneObserves(op, charges, h) [] v = "upbit" -> UpbitObserves(op, charges, h)
       [] v = "binance" -> BinanceObserves(op, charges, h) [] v = "usdm" -> UsdmObserves(op, charges, h)
-----------------------------------------------------------------------------
(* What New refuses in a configuration, quotas apart: a missing executor or *)
(* egress route, a base URL that is none or not HTTPS, a negative timeout,  *)
(* and credentials that are invalid, of another exchange or half given.     *)
CommonFlaws ==
  {"executor", "route",
   "url", "scheme", "timeout",
   "credentials", "foreign", "no_provider", "no_descriptor"}

OkxFlaws ==
  {"executor", "route",
   "url", "scheme", "timeout",
   "credentials", "foreign", "no_provider", "no_descriptor"}

BybitFlaws ==
  {"executor", "route",
   "url", "scheme", "timeout",
   "credentials", "foreign", "no_provider", "no_descriptor", "window"}

BitgetFlaws ==
  {"executor", "route",
   "url", "scheme", "timeout",
   "credentials", "foreign", "no_provider", "no_descriptor", "locale"}

BinanceFlaws ==
  {"executor", "route",
   "url", "scheme", "timeout",
   "credentials", "foreign", "no_provider", "no_descriptor", "window"}

UsdmFlaws ==
  {"executor", "route",
   "url", "scheme", "timeout",
   "credentials", "foreign", "no_provider", "no_descriptor", "window"}

UpbitFlaws ==
  {"executor", "route",
   "url", "scheme", "timeout",
   "credentials", "foreign", "no_provider", "no_descriptor"}

FlawsOf(v) ==
  CASE v = "okx" -> OkxFlaws [] v = "bybit" -> BybitFlaws [] v = "bitget" -> BitgetFlaws
    [] v = "binance" -> BinanceFlaws [] v = "usdm" -> UsdmFlaws [] v = "upbit" -> UpbitFlaws
    [] v \in {"kucoin", "kucoin_futures"} -> CommonFlaws \cup {"key version"}
    [] v = "mexc" -> CommonFlaws \cup {"window"} [] v = "korbit" -> CommonFlaws \cup {"window", "signing mode"}
    [] OTHER -> CommonFlaws
-----------------------------------------------------------------------------
(* ServerTime: when the round trip whose midpoint is taken begins.          *)
BinanceServerTime == "build"
\* Mutant of OkxServerTime: measures from the beginning of the call.
OkxServerTimeEarly == "call"

OkxServerTime == "build"
BybitServerTime == "build"
UsdmServerTime == "call"

MeasuredFrom ==
  CASE venue = "binance" -> BinanceServerTime [] venue = "okx" -> OkxServerTime
    [] venue = "bybit" -> BybitServerTime [] venue = "usdm" -> UsdmServerTime
    [] OTHER -> "never"

\* The instant a measurement starts, on the local clock and in truth.
Instant == [clock |-> now + drift, at |-> now]
NoInstant == [clock |-> 0, at |-> 0]

Idle ==
  [op |-> "none", stage |-> "idle", error |-> "none", tries |-> 1, lone |-> FALSE,
   started |-> NoInstant, builtAt |-> 0, server |-> 0, seen |-> 0, stamp |-> 0, bound |-> -1, verdict |-> "none"]

Active(c) == calls[c].stage \notin {"idle", "done"}
Private(c) == calls[c].op \in PrivateOps

At(c, stage) == calls[c].stage = stage
Becomes(c, call) == calls' = [calls EXCEPT ![c] = call]
MovesTo(c, stage) == calls' = [calls EXCEPT ![c].stage = stage]
Ended(call, error) == [Idle EXCEPT !.op = call.op, !.stage = "done", !.error = error, !.verdict = call.verdict, !.lone = call.lone]
Ends(c, error) == Becomes(c, Ended(calls[c], error))
-----------------------------------------------------------------------------
(* The client and its calls. *)

\* New: a flawed configuration or quota is refused.
New ==
  /\ client = "none"
  /\ client' = IF scenario.flaw \notin FlawsOf(venue) /\ Accepts(venue, quotas) THEN "ready" ELSE "refused"
  /\ UNCHANGED <<scenario, quotas, announced, calls, lastNonce, clockOffset, clockVars, issued, rules, learned, netVars, sync>>

\* Credentials, egress route and permission of a private request.
PreflightError(op) ==
  IF op \notin PrivateOps \/ scenario.access = "full" THEN "none"
  ELSE IF scenario.access = "none" THEN "authentication" ELSE "authorization"

\* SetRule for every charge, then the limiter refuses what can never fit.
Charged(op) ==
  LET charges == ChargesOf(venue, op, quotas)
  IN [k \in DOMAIN rules \cup {c.key : c \in charges} |->
        IF \E c \in charges : c.key = k THEN (CHOOSE c \in charges : c.key = k).limit ELSE rules[k]]
TooDear(op) == \E c \in ChargesOf(venue, op, quotas) : c.units > c.limit

Start(c) ==
  /\ client = "ready" /\ c <= scenario.number /\ At(c, "idle")
  /\ c > 1 => IF scenario.together THEN ~At(c - 1, "idle") ELSE At(c - 1, "done")
  /\ \E op \in scenario.ops \cap ClientOf[venue].ops :
       LET begun == [Idle EXCEPT !.op = op, !.stage = "waiting", !.lone = \A d \in Calls : ~Active(d),
                                 !.started = IF op = "time" /\ MeasuredFrom = "call" THEN Instant ELSE NoInstant]
           refused == PreflightError(op)
       IN IF refused # "none" THEN Becomes(c, Ended(begun, refused)) /\ UNCHANGED rules
          ELSE /\ rules' = Charged(op)
               /\ calls' = [d \in Calls |->
                    IF d = c THEN IF TooDear(op) THEN Ended(begun, "too dear") ELSE begun
                    ELSE [calls[d] EXCEPT !.lone = @ /\ ~Active(d)]]
  /\ UNCHANGED <<clientVars, lastNonce, clockOffset, clockVars, issued, learned, netVars, sync>>

\* limiter.Wait returns: Build runs next.
Grant(c) ==
  /\ At(c, "waiting")
  /\ MovesTo(c, "building")
  /\ UNCHANGED <<clientVars, lastNonce, clockOffset, clockVars, issued, rules, learned, netVars, sync>>

\* The deadline passes while waiting for the limiter or for the answer.
GiveUp(c) ==
  /\ At(c, "waiting") \/ At(c, "sent") \/ At(c, "served")
  /\ Ends(c, "timeout")
  /\ UNCHANGED <<clientVars, lastNonce, clockOffset, clockVars, issued, rules, learned, netVars, sync>>

BuildPublic(c) ==
  /\ At(c, "building") /\ ~Private(c)
  /\ Becomes(c, [calls[c] EXCEPT !.stage = "signed", !.builtAt = now,
                   !.started = IF calls[c].op = "time" /\ MeasuredFrom = "build" THEN Instant ELSE @])
  /\ UNCHANGED <<clientVars, lastNonce, clockOffset, clockVars, issued, rules, learned, netVars, sync>>

\* The provider hands out the secret, part of it, or nothing.
ResolveSecret(c) ==
  /\ At(c, "building") /\ Private(c)
  /\ \E parts \in {WithPassphrase, KeyPair, {}} :
       IF signing.needs \subseteq parts THEN MovesTo(c, "stamping") ELSE Ends(c, "authentication")
  /\ UNCHANGED <<clientVars, lastNonce, clockOffset, clockVars, issued, rules, learned, netVars, sync>>

StampClock(c) ==
  /\ At(c, "stamping") /\ signing.stamp = "clock"
  /\ IF signing.epoch /\ Clock <= 0 THEN Ends(c, "validation") ELSE MovesTo(c, "signing")
  /\ UNCHANGED <<clientVars, lastNonce, clockOffset, clockVars, issued, rules, learned, netVars, sync>>

\* A random nonce; its source may fail.
StampRandom(c) ==
  /\ At(c, "stamping") /\ signing.stamp = "random"
  /\ MovesTo(c, "signing") \/ Ends(c, "plain")
  /\ UNCHANGED <<clientVars, lastNonce, clockOffset, clockVars, issued, rules, learned, netVars, sync>>

\* Clock and offset are read one after the other; the error of the clock is
\* all that matters of the value read.
ReadClock(c) ==
  /\ At(c, "stamping") /\ signing.stamp = "offset"
  /\ Becomes(c, [calls[c] EXCEPT !.stage = "adding", !.seen = drift])
  /\ UNCHANGED <<clientVars, lastNonce, clockOffset, clockVars, issued, rules, learned, netVars, sync>>

AddOffset(c) ==
  /\ At(c, "adding")
  /\ Becomes(c, [calls[c] EXCEPT !.stage = "signing", !.stamp = calls[c].seen + clockOffset,
                                 !.bound = IF sync.valid /\ sync.drift = calls[c].seen THEN sync.trip + 1 ELSE -1])
  /\ UNCHANGED <<clientVars, lastNonce, clockOffset, clockVars, issued, rules, learned, netVars, sync>>

\* nextNonce: the candidate is the local clock.
NonceClock(c) ==
  /\ At(c, "stamping") /\ signing.stamp = "nonce"
  /\ Becomes(c, [calls[c] EXCEPT !.stage = "loading", !.stamp = Clock])
  /\ UNCHANGED <<clientVars, lastNonce, clockOffset, clockVars, issued, rules, learned, netVars, sync>>

\* Mutant of Raised: equal to the previous one will do.
RaisedEqual(candidate, previous) == IF candidate < previous THEN previous ELSE candidate

Raised(candidate, previous) == IF candidate <= previous THEN previous + 1 ELSE candidate

NonceLoad(c) ==
  /\ At(c, "loading")
  /\ Becomes(c, [calls[c] EXCEPT !.stage = "swapping", !.seen = lastNonce, !.stamp = Raised(@, lastNonce)])
  /\ UNCHANGED <<clientVars, lastNonce, clockOffset, clockVars, issued, rules, learned, netVars, sync>>

\* Mutant of NonceSwap: stores without comparing.
NonceSwapBlind(c) ==
  /\ At(c, "swapping")
  /\ lastNonce' = calls[c].stamp /\ issued' = issued \cup {calls[c].stamp} /\ MovesTo(c, "signing")
  /\ UNCHANGED <<clientVars, clockOffset, clockVars, rules, learned, netVars, sync>>

\* Mutant of NonceSwap: tries again without loading.
NonceSwapSpins(c) ==
  /\ At(c, "swapping") /\ lastNonce = calls[c].seen
  /\ lastNonce' = calls[c].stamp /\ issued' = issued \cup {calls[c].stamp} /\ MovesTo(c, "signing")
  /\ UNCHANGED <<clientVars, clockOffset, clockVars, rules, learned, netVars, sync>>

NonceSwap(c) ==
  /\ At(c, "swapping")
  /\ IF lastNonce = calls[c].seen
     THEN lastNonce' = calls[c].stamp /\ issued' = issued \cup {calls[c].stamp} /\ MovesTo(c, "signing")
     ELSE MovesTo(c, "loading") /\ UNCHANGED <<lastNonce, issued>>
  /\ UNCHANGED <<clientVars, clockOffset, clockVars, rules, learned, netVars, sync>>

Sign(c) ==
  /\ At(c, "signing")
  /\ MovesTo(c, "signed") \/ Ends(c, signing.refusal)
  /\ UNCHANGED <<clientVars, lastNonce, clockOffset, clockVars, issued, rules, learned, netVars, sync>>

Numbered(c) == Private(c) /\ signing.stamp = "nonce"

Send(c) ==
  /\ At(c, "signed")
  /\ Becomes(c, [calls[c] EXCEPT !.stage = "sent"])
  /\ wire' = IF Numbered(c) THEN wire \cup {<<c, calls[c].stamp>>} ELSE wire
  /\ UNCHANGED <<clientVars, lastNonce, clockOffset, clockVars, issued, rules, learned, highest, sync>>

\* Execute tries a read again: the request waits and is built anew.
Retry(c) ==
  /\ At(c, "sent") \/ At(c, "served")
  /\ calls[c].op \notin Mutations /\ calls[c].tries < MaxTries
  /\ Becomes(c, [calls[c] EXCEPT !.stage = "waiting", !.tries = @ + 1, !.verdict = "none", !.seen = 0, !.stamp = 0, !.bound = -1,
                                 !.server = 0, !.builtAt = 0])
  /\ UNCHANGED <<clientVars, lastNonce, clockOffset, clockVars, issued, rules, learned, netVars, sync>>

Measures(c) == calls[c].op = "time" /\ MeasuredFrom # "never"

\* ExchangeInfo replaces the limits that the answer reports.
Updated(op) ==
  IF op # "markets" THEN {quotas}
  ELSE CASE venue = "binance" -> {BinanceUpdate(quotas, n, limit) : n \in DOMAIN quotas, limit \in Reported}
         [] venue = "usdm" -> {UsdmUpdate(quotas, n, limit) : n \in DOMAIN quotas, limit \in Reported}
         [] OTHER -> {quotas}

\* The answer, whatever it says, and what its headers tell the limiter.
Answer(c) ==
  /\ At(c, "sent") /\ ~Measures(c)
  /\ Numbered(c) => calls[c].verdict # "none"
  /\ learned' = learned \cup {l.key : l \in LessonsOf(venue, calls[c].op, quotas, scenario.headers)}
  /\ quotas' \in Updated(calls[c].op)
  /\ announced' = (announced \/ quotas' # quotas)
  /\ Ends(c, IF calls[c].verdict = "stale" THEN "refused" ELSE "none")
  /\ UNCHANGED <<scenario, client, lastNonce, clockOffset, clockVars, issued, rules, netVars, sync>>

\* The midpoint of a round trip that took elapsed since started.
Midpoint(started) == started.clock + (now - started.at) \div 2

\* ServerTime stores what the exchange's clock is ahead of the midpoint.
AnswerTime(c) ==
  /\ At(c, "served")
  /\ LET call == calls[c] IN
       /\ clockOffset' = call.server - Midpoint(call.started)
       /\ sync' = [trip |-> now - call.builtAt, drift |-> drift,
                   valid |-> call.started.clock - call.started.at = drift]
  /\ learned' = learned \cup {l.key : l \in LessonsOf(venue, "time", quotas, scenario.headers)}
  /\ Ends(c, "none")
  /\ UNCHANGED <<clientVars, lastNonce, clockVars, issued, rules, netVars>>

CallStep(c) ==
  \/ Grant(c) \/ GiveUp(c) \/ BuildPublic(c) \/ ResolveSecret(c)
  \/ StampClock(c) \/ StampRandom(c) \/ ReadClock(c) \/ AddOffset(c)
  \/ NonceClock(c) \/ NonceLoad(c) \/ NonceSwap(c)
  \/ Sign(c) \/ Send(c) \/ Retry(c) \/ Answer(c) \/ AnswerTime(c)
-----------------------------------------------------------------------------
(* The exchange and the clocks. *)

\* A request arrives, perhaps after its caller gave up; a nonce must rise.
Arrive ==
  /\ \E w \in wire :
       LET verdict == IF w[2] > highest THEN "accepted" ELSE "stale"
       IN /\ wire' = wire \ {w}
          /\ highest' = IF w[2] > highest THEN w[2] ELSE highest
          /\ calls' = IF At(w[1], "sent") /\ calls[w[1]].stamp = w[2]
                      THEN [calls EXCEPT ![w[1]].verdict = verdict] ELSE calls
  /\ UNCHANGED <<clientVars, lastNonce, clockOffset, clockVars, issued, rules, learned, sync>>

\* The exchange reads its clock for the answer.
ServeTime ==
  /\ \E c \in Calls : /\ At(c, "sent") /\ Measures(c)
                      /\ Becomes(c, [calls[c] EXCEPT !.stage = "served", !.server = now])
  /\ UNCHANGED <<clientVars, lastNonce, clockOffset, clockVars, issued, rules, learned, netVars, sync>>

Tick ==
  /\ now < scenario.until
  /\ now' = now + 1
  /\ UNCHANGED <<clientVars, calls, lastNonce, clockOffset, drift, issued, rules, learned, netVars, sync>>

\* The local clock is set, forward or back.
StepClock ==
  /\ drift' \in scenario.drifts \ {drift}
  /\ UNCHANGED <<clientVars, calls, lastNonce, clockOffset, now, issued, rules, learned, netVars, sync>>

SignedInit ==
  /\ scenario \in Scenarios
  /\ client = "none"
  /\ quotas = Resolved(ClientOf[scenario.venue].defaults, scenario.given)
  /\ calls = [c \in Calls |-> Idle]
  /\ lastNonce = 0 /\ clockOffset = 0
  /\ now = 0 /\ drift \in scenario.drifts
  /\ issued = {}
  /\ rules = [k \in {} |-> 0] /\ announced = FALSE /\ learned = {}
  /\ wire = {} /\ highest = 0
  /\ sync = [trip |-> 0, drift |-> 0, valid |-> FALSE]

SignedNext ==
  \/ New
  \/ \E c \in Calls : Start(c) \/ CallStep(c)
  \/ Arrive \/ ServeTime \/ Tick \/ StepClock

\* A call goes on until it has ended: the context of each carries a deadline.
SignedSpec == SignedInit /\ [][SignedNext]_signedVars /\ \A c \in Calls : WF_signedVars(CallStep(c))
-----------------------------------------------------------------------------
(* Properties. *)

\* The types of the variables.
SignedTypeOK ==
  /\ client \in {"none", "refused", "ready"}
  /\ \A c \in Calls : calls[c].stage \in
       {"idle", "waiting", "building", "stamping", "adding", "loading", "swapping", "signing", "signed", "sent", "served", "done"}
  /\ lastNonce \in Nat /\ highest \in Nat
  /\ issued \subseteq Nat
  /\ highest <= lastNonce

\* A client that New has accepted never asks its limiter for more than the whole
\* quota: such a request could never leave.  False of the clients of LaxNew.
EveryRequestFits == \A c \in Calls : calls[c].error # "too dear"

\* Where New asks no more of a quota than to be positive, it accepts quotas below the
\* weight of the dearest request (New and limits.go of MEXC, KuCoin and KuCoin Futures).
LaxNew == {"mexc", "kucoin", "kucoin_futures"}
Starved == venue \in LaxNew /\ scenario.given # 0 /\ scenario.given < 10

\* A quota that New has accepted makes a request impossible at MEXC, KuCoin and KuCoin
\* Futures alone, and there only when it is below ten; the checks of the other New
\* and all defaults let every request through (limits.go and New of every client).
AcceptedQuotasSuffice == ~Starved => EveryRequestFits

\* As long as the exchange has not announced other limits, two requests of a
\* client never register different limits for one key: SetRule with another
\* limit throws the key's usage away (rateLimitCharges of every client).
RulesAreStable ==
  [][~announced => \A k \in DOMAIN rules : rules'[k] = rules[k]]_signedVars

\* The usage an answer reports is booked on a key that requests of the client
\* are charged on; the limiter drops what it knows no rule for.
ReportsReachTheirRule ==
  learned \subseteq UNION {{ch.key : ch \in ChargesOf(venue, op, quotas)} : op \in ClientOf[venue].ops}

\* Every nonce handed out is greater than all before it, though the clock
\* stands still or is set back and calls run concurrently (nextNonce).
NoncesRise ==
  [][\A c \in Calls : (calls[c].stage = "swapping" /\ calls'[c].stage = "signing") =>
       \A n \in issued : calls[c].stamp > n]_signedVars

\* A call that has its client to itself is never refused for its nonce, even
\* when requests that earlier calls gave up on arrive meanwhile.
LoneCallIsAccepted == \A c \in Calls : ~(calls[c].lone /\ calls[c].verdict = "stale")

\* Once ServerTime has measured it, and as long as the local clock is not set,
\* a signed request carries the exchange's time to within half the round trip
\* of the measurement (ServerTime, executeSigned).
SyncedStampIsNear ==
  \A c \in Calls : calls[c].bound >= 0 =>
    LET off == IF calls[c].stamp < 0 THEN -calls[c].stamp ELSE calls[c].stamp
    IN 2 * off <= calls[c].bound

\* Every call ends.
CallsEnd == \A c \in Calls : (calls[c].stage = "waiting") ~> (calls[c].stage = "done")

\* Quotas that New accepts suffice for every request, and reported usage is booked
\* on the rule that requests are charged on.
QuotasFit == SignedTypeOK /\ AcceptedQuotasSuffice /\ ReportsReachTheirRule

\* What a client signs is accepted: its nonce is new and its time is near.
StampsAreAccepted == LoneCallIsAccepted /\ SyncedStampIsNear

\* Nonces rise in the order they are handed out, and limits once set are not reset.
NothingGoesBack == NoncesRise /\ RulesAreStable
=============================================================================
