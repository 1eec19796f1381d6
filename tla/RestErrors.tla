----------------------------- MODULE RestErrors -----------------------------
(***************************************************************************)
(* How the REST clients read an answer: classifyError, decodeBodyError and *)
(* the envelope decoders of every exchange, as operators over              *)
(*   status - the HTTP status,                                             *)
(*   code   - the error code or error phrase of the body, "" when absent,  *)
(*            Success when the envelope reports success,                   *)
(*   json   - whether the body is JSON of the expected shape,              *)
(*   full   - whether the order or list it must carry is there.            *)
(* Exchanges that are told apart by words in a message (Coinbase, Kraken)  *)
(* have the word as their code.  A client answers with an outcome: ok, or  *)
(* an error category and whether the caller may repeat the request.        *)
(***************************************************************************)
EXTENDS Naturals, FiniteSetsExt

Success == "success"

Outcome(category, retryable) == [category |-> category, retryable |-> retryable]

Ok              == Outcome("ok", FALSE)
RateLimited     == Outcome("rate_limited", TRUE)
Authentication  == Outcome("authentication", FALSE)
Authorization   == Outcome("authorization", FALSE)
Validation      == Outcome("validation", FALSE)
Funds           == Outcome("insufficient_balance", FALSE)
NotFound        == Outcome("order_not_found", FALSE)
Internal        == Outcome("internal", FALSE)
Unknown         == Outcome("unknown_execution_state", FALSE)
Unavailable     == Outcome("exchange_unavailable", TRUE)
Plain           == Outcome("none", FALSE)   \* a Go error that is no APIError

\* What cannot be told from the answer: an order mutation may have been
\* executed, a read may be repeated.
Open(op) == IF op = "read" THEN Unavailable ELSE Unknown

\* The outcome of the first rule whose condition holds.
FirstOf(rules) == rules[Min({i \in DOMAIN rules : rules[i][1]})][2]

Fine(s) == s \in 200 .. 299
ServerError(s) == s >= 500
ClientError(s) == s \in 400 .. 499

\* decodeBodyError of most clients: the status decides, unless it decides
\* nothing or blames the request.
Unreadable(class, op) ==
  IF class \in {Internal, Validation} THEN Open(op) ELSE class

(***************************************************************************)
(* Error codes, by what they say.                                          *)
(***************************************************************************)
OkxCodes ==
  [throttled |-> {"50011", "50040", "50061"},
   auth      |-> {"50102", "50103", "50104", "50105", "50106", "50111", "50112", "50113", "50119"},
   denied    |-> {"50114", "50120"},
   notFound  |-> {"51400", "51401", "51603"},
   funds     |-> {"51008", "51119", "51131"},
   busy      |-> {"50001", "50004", "50013", "50026", "51149"}]

OkxClassify(s, c, op) ==
  FirstOf(<<
    <<s = 429 \/ c \in OkxCodes.throttled, RateLimited>>,
    <<c \in OkxCodes.auth, Authentication>>,
    <<c \in OkxCodes.denied, Authorization>>,
    <<c \in OkxCodes.notFound, NotFound>>,
    <<c \in OkxCodes.funds, Funds>>,
    <<c \in OkxCodes.busy \/ ServerError(s), Open(op)>>,
    <<s = 401, Authentication>>,
    <<s = 403, Authorization>>,
    <<ClientError(s) \/ c # "", Validation>>,
    <<TRUE, Internal>> >>)

\* Mutant of OkxBody: an unreadable answer is classified as that of a read.
OkxBodyAsRead(s, op) ==
  LET class == OkxClassify(s, "", "read") IN IF class = Internal THEN Open(op) ELSE class

OkxBody(s, op) ==
  LET class == OkxClassify(s, "", op) IN IF class = Internal THEN Open(op) ELSE class

OkxAnswer(a, op) ==
  FirstOf(<<
    <<~a.json \/ a.code = "", OkxBody(a.status, op)>>,
    <<~Fine(a.status) \/ a.code # Success, OkxClassify(a.status, a.code, op)>>,
    <<TRUE, Ok>> >>)

BybitCodes ==
  [throttled |-> {"10006"},
   auth      |-> {"10003", "10004", "33004"},
   denied    |-> {"10005"},
   notFound  |-> {"110001"},
   funds     |-> {"110004", "110007", "110012"},
   busy      |-> {"10000", "10016"}]

\* A 403 whose message says "too frequent" is a limit, any other a refusal.
BybitClassify(s, c, op) ==
  FirstOf(<<
    <<s = 429 \/ c \in BybitCodes.throttled \/ (s = 403 /\ c = "too frequent"), RateLimited>>,
    <<c \in BybitCodes.auth, Authentication>>,
    <<c \in BybitCodes.denied, Authorization>>,
    <<c \in BybitCodes.notFound, NotFound>>,
    <<c \in BybitCodes.funds, Funds>>,
    <<c \in BybitCodes.busy \/ ServerError(s), Open(op)>>,
    <<s = 401, Authentication>>,
    <<s = 403, Authorization>>,
    <<ClientError(s) \/ c # "", Validation>>,
    <<TRUE, Internal>> >>)

\* The words of an unreadable body count as the message.
BybitBody(a, op) ==
  LET words == IF a.code = "too frequent" THEN a.code ELSE ""
      class == BybitClassify(a.status, words, op)
  IN IF class = Internal THEN Open(op) ELSE class

\* A missing retCode reads as zero, which is success.
BybitAnswer(a, op) ==
  LET code == IF a.code = Success THEN "" ELSE a.code IN
  FirstOf(<<
    <<~a.json, BybitBody(a, op)>>,
    <<~Fine(a.status) \/ code # "", BybitClassify(a.status, code, op)>>,
    <<TRUE, Ok>> >>)

BitgetCodes ==
  [throttled |-> {"429", "25004"},
   auth      |-> {"40001", "40002", "40003", "40005", "40006", "40008", "40009", "40011", "40012"},
   denied    |-> {"40014", "40018"},
   notFound  |-> {"25204", "43001", "43004", "60050"},
   funds     |-> {"25202", "25203", "25225", "25226", "25227", "25228", "40762", "40798", "40800",
                  "43012", "45002", "45003", "45004", "45005", "45006", "45007", "45008", "50020"},
   busy      |-> {"25000", "25001", "25003", "40010", "40015", "40725", "45001"}]

BitgetClassify(s, c, op) ==
  FirstOf(<<
    <<s = 429 \/ c \in BitgetCodes.throttled, RateLimited>>,
    <<c \in BitgetCodes.auth, Authentication>>,
    <<c \in BitgetCodes.denied, Authorization>>,
    <<c \in BitgetCodes.notFound, NotFound>>,
    <<c \in BitgetCodes.funds, Funds>>,
    <<c \in BitgetCodes.busy \/ ServerError(s), Open(op)>>,
    <<s = 401, Authentication>>,
    <<s = 403, Authorization>>,
    <<ClientError(s) \/ c # "", Validation>>,
    <<TRUE, Internal>> >>)

BitgetBody(s, op) ==
  LET class == BitgetClassify(s, "", op) IN IF class = Internal THEN Open(op) ELSE class

\* A 2xx answer without a code is neither success nor a known error.
BitgetAnswer(a, op) ==
  FirstOf(<<
    <<~a.json, BitgetBody(a.status, op)>>,
    <<~Fine(a.status) \/ a.code # Success, BitgetClassify(a.status, a.code, op)>>,
    <<TRUE, Ok>> >>)

BinanceCodes ==
  [throttled |-> {"-1003"},
   auth      |-> {"-1002", "-1022", "-2014", "-2015"},
   denied    |-> {},
   notFound  |-> {"-2011", "-2013", "-2026"},
   funds     |-> {"-2010 insufficient"},
   busy      |-> {"-1007"}]

\* Codes only arrive with an error status: ensureSuccess looks at nothing else.
BinanceClassify(s, c, op) ==
  FirstOf(<<
    <<s \in {429, 418} \/ c \in BinanceCodes.throttled, RateLimited>>,
    <<c \in BinanceCodes.auth \/ s = 401, Authentication>>,
    <<s = 403, Authorization>>,
    <<c \in BinanceCodes.notFound, NotFound>>,
    <<c \in BinanceCodes.funds, Funds>>,
    <<c \in BinanceCodes.busy \/ ServerError(s), Open(op)>>,
    <<ClientError(s), Validation>>,
    <<TRUE, Internal>> >>)

\* A 2xx body that does not decode is a plain error, whatever the operation.
BinanceAnswer(a, op) ==
  FirstOf(<<
    <<~Fine(a.status), BinanceClassify(a.status, IF a.json THEN a.code ELSE "", op)>>,
    <<~a.json, Plain>>,
    <<TRUE, Ok>> >>)

UsdmCodes ==
  [throttled |-> {"-1003"},
   auth      |-> {"-2014", "-2015", "-1022", "-1021"},
   denied    |-> {},
   notFound  |-> {"-2011", "-2013"},
   funds     |-> {"-2019", "-2020"},
   busy      |-> {"-1007", "unknown error"}]

\* Answers by which Binance says that the request was not processed.
UsdmDeclined == {"-1008", "Service Unavailable.", "Internal error; unable to process"}

UsdmClassify(s, c, op) ==
  FirstOf(<<
    <<s \in {429, 418} \/ c \in UsdmCodes.throttled, RateLimited>>,
    <<c \in UsdmCodes.auth, Authentication>>,
    <<c \in UsdmCodes.notFound, NotFound>>,
    <<c \in UsdmCodes.funds, Funds>>,
    <<c \in UsdmDeclined, Unavailable>>,
    <<op # "read" /\ (s = 408 \/ c \in UsdmCodes.busy), Unknown>>,
    <<ServerError(s), Open(op)>>,
    <<s = 401, Authentication>>,
    <<s = 403, Authorization>>,
    <<s >= 400 \/ c # "", Validation>>,
    <<TRUE, Internal>> >>)

UsdmAnswer(a, op) ==
  LET class == UsdmClassify(a.status, IF a.json THEN a.code ELSE "", op) IN
  FirstOf(<<
    <<~Fine(a.status), class>>,
    <<~a.json, IF class = Internal THEN Open(op) ELSE class>>,
    <<TRUE, Ok>> >>)

CoinbaseCodes ==
  [throttled |-> {"rate limit", "resource_exhausted"},
   auth      |-> {"unauthenticated", "invalid signature"},
   denied    |-> {"permission_denied"},
   notFound  |-> {"order_not_found", "order not found"},
   funds     |-> {"insufficient"},
   busy      |-> {}]

CoinbaseClassify(s, c, op) ==
  FirstOf(<<
    <<s = 429 \/ c \in CoinbaseCodes.throttled, RateLimited>>,
    <<s = 401 \/ c \in CoinbaseCodes.auth, Authentication>>,
    <<s = 403 \/ c \in CoinbaseCodes.denied, Authorization>>,
    <<c \in CoinbaseCodes.funds, Funds>>,
    <<c \in CoinbaseCodes.notFound, NotFound>>,
    <<ServerError(s), Open(op)>>,
    <<s >= 400 \/ c # "", Validation>>,
    <<TRUE, Internal>> >>)

CoinbaseAnswer(a, op) ==
  FirstOf(<<
    <<~Fine(a.status), CoinbaseClassify(a.status, a.code, op)>>,
    <<~a.json, Open(op)>>,
    <<TRUE, Ok>> >>)

KrakenCodes ==
  [throttled |-> {"rate limit", "throttled"},
   auth      |-> {"invalid key", "invalid signature", "invalid nonce"},
   denied    |-> {"permission denied"},
   notFound  |-> {"unknown order", "order not found"},
   funds     |-> {"insufficient funds"},
   busy      |-> {"service:unavailable", "service unavailable"}]

KrakenClassify(s, c, op) ==
  FirstOf(<<
    <<s = 429 \/ c \in KrakenCodes.throttled, RateLimited>>,
    <<s = 401 \/ c \in KrakenCodes.auth, Authentication>>,
    <<s = 403 \/ c \in KrakenCodes.denied, Authorization>>,
    <<c \in KrakenCodes.funds, Funds>>,
    <<c \in KrakenCodes.notFound, NotFound>>,
    <<ServerError(s) \/ c \in KrakenCodes.busy, Open(op)>>,
    <<s >= 400 \/ c # "", Validation>>,
    <<TRUE, Internal>> >>)

\* An envelope with an empty error list and no result is unreadable.
KrakenAnswer(a, op) ==
  FirstOf(<<
    <<~Fine(a.status) \/ (a.json /\ a.code \notin {Success, ""}), KrakenClassify(a.status, a.code, op)>>,
    <<~a.json \/ a.code = "", Open(op)>>,
    <<TRUE, Ok>> >>)

KrakenFuturesCodes ==
  [throttled |-> {"api limit exceeded", "rate limit"},
   auth      |-> {"authentication", "invalid api key", "invalid signature", "nonce"},
   denied    |-> {"permission"},
   notFound  |-> {"order not found", "unknown order", "not found"},
   funds     |-> {"insufficient"},
   busy      |-> {"unavailable", "server error"}]

KrakenFuturesClassify(s, c, op) ==
  FirstOf(<<
    <<s = 429 \/ c \in KrakenFuturesCodes.throttled, RateLimited>>,
    <<s = 401 \/ c \in KrakenFuturesCodes.auth, Authentication>>,
    <<s = 403 \/ c \in KrakenFuturesCodes.denied, Authorization>>,
    <<c \in KrakenFuturesCodes.funds, Funds>>,
    <<c \in KrakenFuturesCodes.notFound, NotFound>>,
    <<ServerError(s) \/ c \in KrakenFuturesCodes.busy, Open(op)>>,
    <<s >= 400 \/ c # "", Validation>>,
    <<TRUE, Internal>> >>)

\* A missing result field passes for success.
KrakenFuturesAnswer(a, op) ==
  FirstOf(<<
    <<~Fine(a.status) \/ (a.json /\ a.code \notin {Success, ""}),
      KrakenFuturesClassify(a.status, a.code, op)>>,
    <<~a.json, Open(op)>>,
    <<TRUE, Ok>> >>)

GateioCodes ==
  [throttled |-> {"TOO_FAST", "RATE_LIMIT_EXCEEDED"},
   auth      |-> {"INVALID_KEY", "INVALID_SIGNATURE", "REQUEST_EXPIRED", "MISSING_REQUIRED_HEADER"},
   denied    |-> {"FORBIDDEN", "IP_FORBIDDEN", "READ_ONLY", "NO_PRIVILEGE"},
   notFound  |-> {"ORDER_NOT_FOUND", "ORDER_NOT_FOUND_OR_TOO_LATE", "order not found", "order not exist"},
   funds     |-> {"BALANCE_NOT_ENOUGH", "INSUFFICIENT_BALANCE", "MARGIN_BALANCE_NOT_ENOUGH",
                  "balance not enough", "balance insufficient"},
   busy      |-> {"INTERNAL", "SERVER_ERROR", "SERVICE_UNAVAILABLE"}]

GateioClassify(s, c, op) ==
  FirstOf(<<
    <<s = 429 \/ c \in GateioCodes.throttled, RateLimited>>,
    <<c \in GateioCodes.auth, Authentication>>,
    <<c \in GateioCodes.denied, Authorization>>,
    <<c \in GateioCodes.funds, Funds>>,
    <<c \in GateioCodes.notFound, NotFound>>,
    <<c \in GateioCodes.busy, Open(op)>>,
    <<s = 401, Authentication>>,
    <<s = 403, Authorization>>,
    <<ServerError(s), Open(op)>>,
    <<s = 404, NotFound>>,
    <<s >= 400 \/ c # "", Validation>>,
    <<TRUE, Internal>> >>)

GateioBody(s, op) == Unreadable(GateioClassify(s, "", op), op)

GateioAnswer(a, op) ==
  FirstOf(<<
    <<~Fine(a.status), GateioClassify(a.status, IF a.json THEN a.code ELSE "", op)>>,
    <<~a.json, GateioBody(a.status, op)>>,
    <<TRUE, Ok>> >>)

\* The futures client repeats the spot client's rules.
GateioFuturesClassify(s, c, op) == GateioClassify(s, c, op)

GateioFuturesAnswer(a, op) == GateioAnswer(a, op)

KucoinCodes ==
  [throttled |-> {"429000"},
   auth      |-> {"400001", "400002", "400003", "400004", "400005"},
   denied    |-> {"400006", "400007"},
   notFound  |-> {},
   funds     |-> {"200004"},
   busy      |-> {"230005", "500000"}]

KucoinClassify(s, c, op) ==
  FirstOf(<<
    <<s = 429 \/ c \in KucoinCodes.throttled, RateLimited>>,
    <<c \in KucoinCodes.auth, Authentication>>,
    <<c \in KucoinCodes.denied, Authorization>>,
    <<c \in KucoinCodes.funds, Funds>>,
    <<c \in KucoinCodes.busy, Open(op)>>,
    <<c = "900001", Validation>>,
    <<s = 401, Authentication>>,
    <<s = 403, Authorization>>,
    <<ServerError(s), Open(op)>>,
    <<s = 404, NotFound>>,
    <<s >= 400 \/ c # "", Validation>>,
    <<TRUE, Internal>> >>)

KucoinBody(s, op) == Unreadable(KucoinClassify(s, "", op), op)

KucoinAnswer(a, op) ==
  FirstOf(<<
    <<~a.json \/ (Fine(a.status) /\ a.code = ""), KucoinBody(a.status, op)>>,
    <<~Fine(a.status) \/ a.code # Success, KucoinClassify(a.status, a.code, op)>>,
    <<TRUE, Ok>> >>)

KucoinFuturesCodes ==
  [throttled |-> {"1015", "200002", "429000"},
   auth      |-> {"400001", "400002", "400003", "400004", "400005"},
   denied    |-> {"400006", "400007", "40010", "411100"},
   notFound  |-> {"order not exist", "order not found"},
   funds     |-> {"200005", "300003", "insufficient balance", "balance not enough"},
   busy      |-> {"300002", "300014", "300015", "500000"}]

KucoinFuturesRejected ==
  {"100001", "100003", "200001", "200003", "300000", "300004", "300005", "300006", "300007",
   "300008", "300009", "300010", "300011", "300012", "300013", "300016", "300017", "300018",
   "330005", "330011", "400100"}

KucoinFuturesClassify(s, c, op) ==
  FirstOf(<<
    <<s = 429 \/ c \in KucoinFuturesCodes.throttled, RateLimited>>,
    <<c \in KucoinFuturesCodes.auth, Authentication>>,
    <<c \in KucoinFuturesCodes.denied, Authorization>>,
    <<c \in KucoinFuturesCodes.funds, Funds>>,
    <<c \in KucoinFuturesCodes.busy, Open(op)>>,
    <<c \in KucoinFuturesRejected, Validation>>,
    <<c \in KucoinFuturesCodes.notFound, NotFound>>,
    <<s = 401, Authentication>>,
    <<s = 403, Authorization>>,
    <<ServerError(s), Open(op)>>,
    <<s = 404, NotFound>>,
    <<s >= 400 \/ c # "", Validation>>,
    <<TRUE, Internal>> >>)

KucoinFuturesAnswer(a, op) ==
  LET body == Unreadable(KucoinFuturesClassify(a.status, "", op), op) IN
  FirstOf(<<
    <<~a.json \/ (Fine(a.status) /\ a.code = ""), body>>,
    <<~Fine(a.status) \/ a.code # Success, KucoinFuturesClassify(a.status, a.code, op)>>,
    <<TRUE, Ok>> >>)

HtxCodes ==
  [throttled |-> {"too-many-requests", "frequent-visit", "1006"},
   auth      |-> {"require-auth", "login-required", "api-signature-not-valid", "1002", "1003"},
   denied    |-> {"api-key-no-permission", "base-operation-forbidden", "operation-forbidden",
                  "permission", "ip address"},
   notFound  |-> {"not-found", "base-not-found", "base-record-invalid", "1007", "order not found"},
   funds     |-> {"order-accountbalance-error", "balance", "insufficient balance"},
   busy      |-> {"gateway-internal-error", "service-unavailable", "base-system-error",
                  "order-update-error", "request-timeout", "500", "request timeout"}]

HtxClassify(s, c, op) ==
  FirstOf(<<
    <<s = 429 \/ c \in HtxCodes.throttled, RateLimited>>,
    <<ServerError(s), Open(op)>>,
    <<s = 401 \/ c \in HtxCodes.auth, Authentication>>,
    <<s = 403 \/ c \in HtxCodes.denied, Authorization>>,
    <<c \in HtxCodes.funds, Funds>>,
    <<c \in HtxCodes.notFound, NotFound>>,
    <<c \in HtxCodes.busy, Open(op)>>,
    <<s >= 400 \/ c # "", Validation>>,
    <<TRUE, Internal>> >>)

\* Mutant of HtxBody: an unreadable success is blamed on the request.
HtxBodyBlames(s, op) == IF Fine(s) THEN Validation ELSE HtxClassify(s, "", op)

HtxBody(s, op) == Unreadable(HtxClassify(s, "", op), op)

HtxAnswer(a, op) ==
  FirstOf(<<
    <<~a.json \/ (Fine(a.status) /\ a.code = ""), HtxBody(a.status, op)>>,
    <<~Fine(a.status) \/ a.code # Success, HtxClassify(a.status, a.code, op)>>,
    <<TRUE, Ok>> >>)

MexcCodes ==
  [throttled |-> {"429"},
   auth      |-> {"400", "401", "602", "10072", "10073", "700001", "700002", "700003"},
   denied    |-> {"403", "70011", "700006", "700007"},
   notFound  |-> {"-2011", "22222"},
   funds     |-> {"10101"},
   busy      |-> {"500", "503", "504", "20002", "730000"}]

MexcClassify(s, c, op) ==
  FirstOf(<<
    <<s \in {429, 418} \/ c \in MexcCodes.throttled, RateLimited>>,
    <<ServerError(s), Open(op)>>,
    <<c \in MexcCodes.auth, Authentication>>,
    <<c \in MexcCodes.denied, Authorization>>,
    <<c \in MexcCodes.funds, Funds>>,
    <<c \in MexcCodes.notFound, NotFound>>,
    <<c \in MexcCodes.busy, Open(op)>>,
    <<s = 401, Authentication>>,
    <<s = 403, Authorization>>,
    <<s >= 400 \/ c # "", Validation>>,
    <<TRUE, Internal>> >>)

MexcBody(s, op) == Unreadable(MexcClassify(s, "", op), op)

\* A body without a code is the answer itself.
MexcAnswer(a, op) ==
  FirstOf(<<
    <<~a.json, MexcBody(a.status, op)>>,
    <<~Fine(a.status) \/ a.code \notin {Success, ""}, MexcClassify(a.status, a.code, op)>>,
    <<TRUE, Ok>> >>)

CryptocomCodes ==
  [throttled |-> {"42901"},
   auth      |-> {"40101", "40102", "10002"},
   denied    |-> {"40301", "10003"},
   notFound  |-> {"212", "30004", "40401"},
   funds     |-> {"306"},
   busy      |-> {"40801", "50001"}]

\* Private requests.  notFound codes count only for a query or a cancel, and
\* any other code outweighs the status, a 5xx included.
CryptocomClassify(s, c, op) ==
  FirstOf(<<
    <<c \in CryptocomCodes.funds, Funds>>,
    <<c \in CryptocomCodes.notFound /\ op # "place", NotFound>>,
    <<c \in CryptocomCodes.auth, Authentication>>,
    <<c \in CryptocomCodes.denied, Authorization>>,
    <<c \in CryptocomCodes.throttled, RateLimited>>,
    <<c \in CryptocomCodes.busy, Open(op)>>,
    <<s = 429, RateLimited>>,
    <<s = 401, Authentication>>,
    <<s = 403, Authorization>>,
    <<c \notin {"", Success}, Validation>>,
    <<ServerError(s) \/ s = 408, Open(op)>>,
    <<s >= 400, Validation>>,
    <<TRUE, Internal>> >>)

CryptocomAnswer(a, op) ==
  FirstOf(<<
    <<~a.json \/ a.code = "", Open(op)>>,
    <<~Fine(a.status) \/ a.code # Success, CryptocomClassify(a.status, a.code, op)>>,
    <<TRUE, Ok>> >>)

\* Public requests have a table of their own.
CryptocomPublicClassify(s, c) ==
  FirstOf(<<
    <<c = "40001", Validation>>,
    <<c = "40101", Authentication>>,
    <<c \in CryptocomCodes.busy, Unavailable>>,
    <<c \in CryptocomCodes.throttled \/ s = 429, RateLimited>>,
    <<s = 401, Authentication>>,
    <<s = 403, Authorization>>,
    <<ServerError(s) \/ s = 408, Unavailable>>,
    <<s >= 400 \/ c # "", Validation>>,
    <<TRUE, Internal>> >>)

CryptocomPublicAnswer(a) ==
  FirstOf(<<
    <<~a.json \/ a.code = "", Unavailable>>,
    <<~Fine(a.status) \/ a.code # Success, CryptocomPublicClassify(a.status, a.code)>>,
    <<~a.full, Unavailable>>,
    <<TRUE, Ok>> >>)

KorbitCodes ==
  [throttled |-> {},
   auth      |-> {},
   denied    |-> {"INVALID_USER_STATUS"},
   notFound  |-> {"ORDER_NOT_FOUND", "ORDER_ALREADY_CANCELED", "ORDER_ALREADY_FILLED", "ORDER_ALREADY_EXPIRED"},
   funds     |-> {"NO_BALANCE"},
   busy      |-> {}]

\* TRY_AGAIN says that nothing was done: it may be repeated, an order too.
KorbitDeclined == {"TRY_AGAIN"}

KorbitClassify(s, c, op) ==
  FirstOf(<<
    <<s = 429, RateLimited>>,
    <<c \in KorbitCodes.funds, Funds>>,
    <<c \in KorbitCodes.notFound, NotFound>>,
    <<c \in KorbitCodes.denied, Authorization>>,
    <<c \in KorbitDeclined, Unavailable>>,
    <<c = "EXCEED_TIME_WINDOW", Validation>>,
    <<s = 401, Authentication>>,
    <<s = 403, Authorization>>,
    <<ServerError(s), Open(op)>>,
    <<s = 404, NotFound>>,
    <<s >= 400 \/ c # "", Validation>>,
    <<TRUE, Internal>> >>)

KorbitBody(s, op) == Unreadable(KorbitClassify(s, "", op), op)

KorbitAnswer(a, op) ==
  FirstOf(<<
    <<~a.json, KorbitBody(a.status, op)>>,
    <<~Fine(a.status) \/ a.code \notin {Success, ""}, KorbitClassify(a.status, a.code, op)>>,
    <<a.code = "", KorbitBody(a.status, op)>>,
    <<TRUE, Ok>> >>)

CoinoneCodes ==
  [throttled |-> {"4"},
   auth      |-> {"8", "11", "12", "23", "24", "25", "27", "28", "120", "121", "122", "123",
                  "130", "131", "132", "133", "151", "1206"},
   denied    |-> {"10", "22", "40", "315"},
   notFound  |-> {"104"},
   funds     |-> {"103", "157"},
   busy      |-> {"405"}]

CoinoneClassify(s, c, op) ==
  FirstOf(<<
    <<s = 429 \/ c \in CoinoneCodes.throttled, RateLimited>>,
    <<c \in CoinoneCodes.auth, Authentication>>,
    <<c \in CoinoneCodes.denied, Authorization>>,
    <<c \in CoinoneCodes.funds, Funds>>,
    <<c \in CoinoneCodes.notFound, NotFound>>,
    <<c \in CoinoneCodes.busy \/ ServerError(s), Open(op)>>,
    <<s = 401, Authentication>>,
    <<s = 403, Authorization>>,
    <<s = 404, NotFound>>,
    <<s >= 400 \/ c # "", Validation>>,
    <<TRUE, Internal>> >>)

CoinoneBody(s, op) == Unreadable(CoinoneClassify(s, "", op), op)

CoinoneAnswer(a, op) ==
  FirstOf(<<
    <<~a.json, CoinoneBody(a.status, op)>>,
    <<~Fine(a.status), CoinoneClassify(a.status, a.code, op)>>,
    <<a.code = "", CoinoneBody(a.status, op)>>,
    <<a.code # Success, CoinoneClassify(a.status, a.code, op)>>,
    <<TRUE, Ok>> >>)

BithumbCodes ==
  [throttled |-> {},
   auth      |-> {"invalid_query_payload", "jwt_verification", "expired_jwt", "nonce_used",
                  "no_authorization_token"},
   denied    |-> {"notallowip", "no_authorization_ip", "out_of_scope"},
   notFound  |-> {"order_not_found"},
   funds     |-> {"insufficient_funds_bid", "insufficient_funds_ask"},
   busy      |-> {}]

BithumbClassify(s, c, op) ==
  FirstOf(<<
    <<s \in {429, 418}, RateLimited>>,
    <<c \in BithumbCodes.auth, Authentication>>,
    <<c \in BithumbCodes.denied, Authorization>>,
    <<c \in BithumbCodes.notFound, NotFound>>,
    <<c \in BithumbCodes.funds, Funds>>,
    <<ServerError(s), Open(op)>>,
    <<s = 401, Authentication>>,
    <<s = 403, Authorization>>,
    <<s = 404, NotFound>>,
    <<s >= 400 \/ c # "", Validation>>,
    <<TRUE, Internal>> >>)

BithumbAnswer(a, op) ==
  LET body == BithumbClassify(a.status, "", op) IN
  FirstOf(<<
    <<~a.json, IF body = Internal THEN Open(op) ELSE body>>,
    <<~Fine(a.status), BithumbClassify(a.status, a.code, op)>>,
    <<TRUE, Ok>> >>)

UpbitCodes ==
  [throttled |-> {},
   auth      |-> {"invalid_query_payload", "jwt_verification", "expired_access_key", "nonce_used",
                  "no_authorization_token"},
   denied    |-> {"no_authorization_ip", "out_of_scope"},
   notFound  |-> {"order_not_found"},
   funds     |-> {"insufficient_funds_ask", "insufficient_funds_bid"},
   busy      |-> {}]

UpbitClassify(s, c, op) ==
  FirstOf(<<
    <<s \in {429, 418}, RateLimited>>,
    <<c \in UpbitCodes.auth, Authentication>>,
    <<c \in UpbitCodes.denied, Authorization>>,
    <<c \in UpbitCodes.funds, Funds>>,
    <<c \in UpbitCodes.notFound, NotFound>>,
    <<ServerError(s), Open(op)>>,
    <<s = 401, Authentication>>,
    <<s = 403, Authorization>>,
    <<s = 404, NotFound>>,
    <<s >= 400 \/ c # "", Validation>>,
    <<TRUE, Internal>> >>)

UpbitAnswer(a, op) ==
  LET body == UpbitClassify(a.status, "", op) IN
  FirstOf(<<
    <<~a.json, IF body = Internal THEN Open(op) ELSE body>>,
    <<~Fine(a.status), UpbitClassify(a.status, a.code, op)>>,
    <<TRUE, Ok>> >>)
=============================================================================
