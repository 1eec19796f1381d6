---------------------------- MODULE MarketReads ----------------------------
(***************************************************************************)
(* The public reads of the unified spot adapters, one definition per       *)
(* adapter and read: what is asked of the exchange for a limit, which      *)
(* sizes the native client lets through, which answers it refuses, and     *)
(* what the adapter makes of the rest.                                     *)
(*                                                                         *)
(* An answer is a sequence of entries, one per market it speaks of; where  *)
(* the wire format is a single object, only the first entry is there.      *)
(* Levels and trades come best or newest first, so counts stand for them.  *)
(***************************************************************************)
EXTENDS Integers, Sequences

CONSTANTS
  Asked,           \* the market a read is about
  MarketPage,      \* markets on a page of Bybit or Coinbase (1000)
  CoinbasePage,    \* candles one Coinbase request may ask for, and is asked for (350)
  KorbitPage,      \* the same of Korbit (200)
  CandleDefault    \* candles of a read that names no limit, and the most it may name (200)

NoName == ""
Every == -1        \* no cut: whatever the exchange sends

ASSUME ReadsAssumption ==
  /\ Asked \in STRING \ {NoName}
  /\ \A n \in {MarketPage, CoinbasePage, KorbitPage, CandleDefault} : n \in Nat \ {0}
  /\ CandleDefault <= KorbitPage /\ CandleDefault <= CoinbasePage /\ CandleDefault <= 200

Least(m, n) == IF m < n THEN m ELSE n
Kept(n, keep) == IF keep = Every THEN n ELSE Least(n, keep)
OrElse(limit, default) == IF limit = 0 THEN default ELSE limit

Blank == [name |-> NoName, sound |-> TRUE, price |-> FALSE, bids |-> 0, asks |-> 0, rows |-> 0]
Object(a) == IF a = <<>> THEN Blank ELSE a[1]
Sound(a) == \A i \in DOMAIN a : a[i].sound
SoundObject(a) == Object(a).sound
Named(a) == {i \in DOMAIN a : a[i].name = Asked}
FirstNamed(a) == a[CHOOSE i \in Named(a) : \A j \in Named(a) : i <= j]

Refused == [ok |-> FALSE, label |-> NoName, of |-> NoName,
            price |-> FALSE, bids |-> 0, asks |-> 0, rows |-> 0]
Priced(e, label) == [Refused EXCEPT !.ok = TRUE, !.label = label, !.of = e.name, !.price = e.price]

(***************************************************************************)
(* The sizes that the native requests' validate lets through.              *)
(***************************************************************************)
OkxAccepts ==
  [book |-> 0..400,
   trades |-> 0..500,
   candles |-> 0..300]

BybitAccepts ==
  [book |-> 0..1000,
   trades |-> 0..1000,
   candles |-> 0..1000]

BitgetAccepts ==
  [book |-> 0..1000,
   trades |-> 0..100,
   candles |-> 0..1000]

BinanceAccepts ==
  [book |-> 0..5000,
   trades |-> 0..1000,
   candles |-> 0..1000]

CoinbaseAccepts ==
  [book |-> 0..1000,
   trades |-> 1..1000,
   candles |-> 0..CoinbasePage]

KrakenAccepts ==
  [book |-> 0..500,
   trades |-> 0..1000,
   candles |-> {0}]

GateioAccepts ==
  [book |-> 0..100,
   trades |-> 0..1000,
   candles |-> 0..1000]

KucoinAccepts ==
  [book |-> {20, 100},
   trades |-> {0},
   candles |-> {0}]

HtxAccepts ==
  [book |-> {0, 5, 10, 20},
   trades |-> 0..2000,
   candles |-> 0..2000]

MexcAccepts ==
  [book |-> 0..5000,
   trades |-> 0..1000,
   candles |-> 0..1000]

CryptocomAccepts ==
  [book |-> 1..50,
   trades |-> Nat,
   candles |-> Nat]

KorbitAccepts ==
  [book |-> {0},
   trades |-> 0..500,
   candles |-> 1..KorbitPage]

CoinoneAccepts ==
  [book |-> {0, 5, 10, 15, 16},
   trades |-> {0, 10, 50, 100, 150, 200},
   candles |-> 0..500]

BithumbAccepts ==
  [book |-> {0},
   trades |-> 0..500,
   candles |-> 0..200]

UpbitAccepts ==
  [book |-> 0..30,
   trades |-> 0..500,
   candles |-> 0..200]


(***************************************************************************)
(* The answers that the native clients return without an error, endpoint   *)
(* by endpoint: a list is decoded item by item, an object at once.         *)
(***************************************************************************)
OkxServes(kind, a) ==
  CASE kind = "ticker" -> Sound(a)
    [] kind = "book" -> Sound(a) /\ a # <<>>
    [] kind = "trades" -> Sound(a)
    [] kind = "candles" -> Sound(a)

BybitServes(kind, a) ==
  CASE kind = "ticker" -> Sound(a)
    [] kind = "book" -> SoundObject(a)
    [] kind = "trades" -> Sound(a)
    [] kind = "candles" -> Sound(a)

BitgetServes(kind, a) ==
  CASE kind = "ticker" -> Sound(a)
    [] kind = "book" -> SoundObject(a)
    [] kind = "trades" -> Sound(a)
    [] kind = "candles" -> Sound(a)

BinanceServes(kind, a) ==
  CASE kind = "ticker" -> SoundObject(a)
    [] kind = "book" -> SoundObject(a)
    [] kind = "trades" -> Sound(a)
    [] kind = "candles" -> Sound(a)

CoinbaseServes(kind, a) ==
  CASE kind = "ticker" -> SoundObject(a)
    [] kind = "book" -> SoundObject(a) /\ Object(a).name # NoName
    [] kind = "trades" -> Sound(a)
    [] kind = "candles" -> Sound(a)

KrakenServes(kind, a) ==
  CASE kind = "ticker" -> Sound(a)
    [] kind = "book" -> Sound(a) /\ Len(a) = 1
    [] kind = "trades" -> Sound(a) /\ Len(a) = 1
    [] kind = "candles" -> Sound(a) /\ Len(a) = 1

GateioServes(kind, a) ==
  CASE kind = "ticker" -> Len(a) = 1 /\ SoundObject(a)
    [] kind = "book" -> SoundObject(a)
    [] kind = "trades" -> Sound(a)
    [] kind = "candles" -> Sound(a)

KucoinServes(kind, a) ==
  CASE kind = "ticker" -> SoundObject(a) /\ a # <<>>
    [] kind = "book" -> SoundObject(a) /\ a # <<>>
    [] kind = "trades" -> Sound(a)
    [] kind = "candles" -> Sound(a)

HtxServes(kind, a) ==
  CASE kind = "ticker" -> SoundObject(a) /\ a # <<>>
    [] kind = "book" -> SoundObject(a) /\ a # <<>>
    [] kind = "trades" -> Sound(a)
    [] kind = "candles" -> Sound(a)

MexcServes(kind, a) ==
  CASE kind = "ticker" -> SoundObject(a)
    [] kind = "book" -> SoundObject(a)
    [] kind = "trades" -> Sound(a)
    [] kind = "candles" -> Sound(a)

KorbitServes(kind, a) ==
  CASE kind = "ticker" -> Sound(a)
    [] kind = "book" -> SoundObject(a)
    [] kind = "trades" -> Sound(a)
    [] kind = "candles" -> Sound(a)

CoinoneServes(kind, a) ==
  CASE kind = "ticker" -> Sound(a) /\ Len(a) = 1
    [] kind = "book" -> SoundObject(a)
    [] kind = "trades" -> Sound(a)
    [] kind = "candles" -> Sound(a)

BithumbServes(kind, a) ==
  CASE kind = "ticker" -> Sound(a)
    [] kind = "book" -> Sound(a)
    [] kind = "trades" -> Sound(a)
    [] kind = "candles" -> Sound(a)

UpbitServes(kind, a) ==
  CASE kind = "ticker" -> Sound(a)
    [] kind = "book" -> Sound(a)
    [] kind = "trades" -> Sound(a)
    [] kind = "candles" -> Sound(a)

CryptocomServes(kind, a) ==
  /\ Sound(a)
  /\ CASE kind = "ticker" -> Named(a) # {}
       [] kind = "book" -> Len(a) = 1 /\ a[1].name = Asked
       [] kind = "trades" -> \A i \in DOMAIN a : a[i].name = Asked
       [] kind = "candles" -> Len(a) = 1 /\ a[1].name = Asked

(***************************************************************************)
(* Ticker: the price, and the market its answer says it is for.            *)
(***************************************************************************)
OkxTicker(a) ==
  IF \E i \in DOMAIN a : Named(a) = {i} THEN Priced(FirstNamed(a), FirstNamed(a).name) ELSE Refused

BybitTicker(a) == IF Len(a) = 1 THEN Priced(a[1], a[1].name) ELSE Refused
BitgetTicker(a) == IF Len(a) = 1 THEN Priced(a[1], a[1].name) ELSE Refused
BinanceTicker(a) == Priced(Object(a), Object(a).name)
CoinbaseTicker(a) == Priced(Object(a), Object(a).name)
KrakenTicker(a) == IF Len(a) = 1 THEN Priced(a[1], a[1].name) ELSE Refused

\* Mutant of GateioTicker: the market in the answer is not compared.
GateioTickerAnyMarket(a) == Priced(Object(a), Asked)

GateioTicker(a) ==
  IF Object(a).name \in {NoName, Asked} THEN Priced(Object(a), Asked) ELSE Refused

KucoinTicker(a) == Priced(Object(a), Asked)
HtxTicker(a) == Priced(Object(a), Asked)
MexcTicker(a) == IF Object(a).name = Asked THEN Priced(Object(a), Asked) ELSE Refused

CryptocomTicker(a) == IF Named(a) # {} THEN Priced(FirstNamed(a), Asked) ELSE Refused

KorbitTicker(a) == IF Len(a) = 1 THEN Priced(a[1], a[1].name) ELSE Refused
CoinoneTicker(a) == Priced(Object(a), Object(a).name)
BithumbTicker(a) == IF Len(a) = 1 THEN Priced(a[1], a[1].name) ELSE Refused
UpbitTicker(a) == IF Len(a) = 1 THEN Priced(a[1], a[1].name) ELSE Refused

(***************************************************************************)
(* OrderBook: the depth asked for, the levels kept of each side, whose     *)
(* name the book carries, and whether the answer must be a single book.    *)
(***************************************************************************)
BookRequest(ask, keep, label) == [ask |-> ask, keep |-> keep, label |-> label, single |-> FALSE]

OkxBook(limit) == BookRequest(limit, Every, "asked")
BybitBook(limit) == BookRequest(limit, Every, "own")
BitgetBook(limit) == BookRequest(limit, Every, "asked")
BinanceBook(limit) == BookRequest(limit, Every, "asked")
CoinbaseBook(limit) == BookRequest(limit, Every, "own")
KrakenBook(limit) == BookRequest(limit, Every, "own")
GateioBook(limit) == BookRequest(OrElse(limit, 16), Every, "asked")
KucoinBook(limit) == BookRequest(20, OrElse(limit, 16), "asked")

\* Mutant of HtxBook: a limit just above 10 is still served from 10 levels.
HtxBookShallow(limit) ==
  LET n == OrElse(limit, 16) IN BookRequest(IF n < 6 THEN 5 ELSE IF n < 12 THEN 10 ELSE 20, n, "asked")

HtxBook(limit) ==
  LET n == OrElse(limit, 16) IN BookRequest(IF n <= 5 THEN 5 ELSE IF n <= 10 THEN 10 ELSE 20, n, "asked")

MexcBook(limit) == BookRequest(OrElse(limit, 16), Every, "asked")

\* Mutant of CryptocomBook: the default depth is left to the exchange.
CryptocomBookNoDefault(limit) == BookRequest(limit, Every, "asked")

CryptocomBook(limit) == BookRequest(OrElse(limit, 16), Every, "asked")
KorbitBook(limit) == BookRequest(0, OrElse(limit, 16), "asked")

CoinoneBook(limit) ==
  BookRequest(CASE limit \in 1..5 -> 5 [] limit \in 6..10 -> 10 [] limit \in 11..15 -> 15 [] OTHER -> 16,
              OrElse(limit, Every), "own")

BithumbBook(limit) == [BookRequest(0, OrElse(limit, Every), "own") EXCEPT !.single = TRUE]
UpbitBook(limit) == [BookRequest(limit, Every, "own") EXCEPT !.single = TRUE]

(***************************************************************************)
(* RecentTrades: the number asked for, the number kept, and whether a      *)
(* trade of another market is refused.                                     *)
(***************************************************************************)
TradesRequest(ask, keep) == [ask |-> ask, keep |-> keep, own |-> FALSE]

OkxTrades(limit) == TradesRequest(limit, Every)
BybitTrades(limit) == TradesRequest(limit, Every)
BitgetTrades(limit) == TradesRequest(limit, Every)
BinanceTrades(limit) == TradesRequest(limit, Every)
CoinbaseTrades(limit) == TradesRequest(OrElse(limit, 100), Every)
KrakenTrades(limit) == TradesRequest(limit, Every)
GateioTrades(limit) == [TradesRequest(OrElse(limit, 100), Every) EXCEPT !.own = TRUE]
KucoinTrades(limit) == TradesRequest(0, OrElse(limit, 100))
HtxTrades(limit) == TradesRequest(OrElse(limit, 100), OrElse(limit, 100))
MexcTrades(limit) == TradesRequest(OrElse(limit, 100), Every)
CryptocomTrades(limit) == TradesRequest(OrElse(limit, 100), Every)
KorbitTrades(limit) == TradesRequest(OrElse(limit, 100), Every)

CoinoneTrades(limit) ==
  TradesRequest(CASE limit \in 1..10 -> 10 [] limit \in 11..50 -> 50 [] OTHER -> 100, OrElse(limit, Every))

BithumbTrades(limit) == TradesRequest(limit, Every)
UpbitTrades(limit) == TradesRequest(limit, Every)

(***************************************************************************)
(* Candles of d minutes: the exchange's candle (unit), how many are asked  *)
(* for, how many minutes back the window begins (0: no window), whether it *)
(* ends with the read, the minutes of one page, and the candles kept.      *)
(* Where an exchange has no 3-minute candle the adapter merges 1-minute    *)
(* ones.                                                                   *)
(***************************************************************************)
Newest(d, ask, keep) ==
  [unit |-> d, ask |-> ask, back |-> 0, closed |-> FALSE, page |-> 0, keep |-> keep]

Merged(limit) == Newest(1, 3 * limit, limit)

OkxCandles(d, limit) == Newest(d, limit, Every)
BybitCandles(d, limit) == Newest(d, limit, Every)
BitgetCandles(d, limit) == Newest(d, limit, Every)
BinanceCandles(d, limit) == Newest(d, limit, Every)

CoinbaseCandles(d, limit) ==
  LET n == OrElse(limit, CandleDefault)
      window == [Newest(d, n, Every) EXCEPT !.back = d * n, !.closed = TRUE]
  IN IF d = 3 THEN [window EXCEPT !.unit = 1, !.page = CoinbasePage, !.keep = n] ELSE window

KrakenCandles(d, limit) ==
  LET n == OrElse(limit, CandleDefault) IN [Newest(IF d = 3 THEN 1 ELSE d, 0, n) EXCEPT !.back = d * n]

GateioCandles(d, limit) ==
  LET n == OrElse(limit, CandleDefault) IN IF d = 3 THEN Merged(n) ELSE Newest(d, n, Every)

KucoinCandles(d, limit) == Newest(d, 0, OrElse(limit, CandleDefault))

HtxCandles(d, limit) ==
  LET n == OrElse(limit, CandleDefault) IN IF d = 3 THEN Merged(n) ELSE Newest(d, n, Every)

MexcCandles(d, limit) ==
  LET n == OrElse(limit, CandleDefault) IN IF d = 3 THEN Merged(n) ELSE Newest(d, n, Every)

CryptocomCandles(d, limit) ==
  LET n == OrElse(limit, CandleDefault) IN IF d = 3 THEN Merged(n) ELSE Newest(d, n, Every)

KorbitCandles(d, limit) ==
  LET n == OrElse(limit, CandleDefault)
  IN IF d = 3 THEN [Newest(1, 0, n) EXCEPT !.back = 3 * n, !.closed = TRUE, !.page = KorbitPage]
     ELSE Newest(d, n, Every)

CoinoneCandles(d, limit) == Newest(d, limit, Every)
BithumbCandles(d, limit) == Newest(d, limit, Every)
UpbitCandles(d, limit) == Newest(d, limit, Every)

(***************************************************************************)
(* Markets: an entry of the listing is a spot market or not, has the name  *)
(* that the adapter goes by or not, has currencies that can be read or     *)
(* not and that make up its id again or not, and has readable trading      *)
(* rules or not.  Of a page p the adapter makes the listing l so far.      *)
(***************************************************************************)
Entry(name) ==
  [name |-> name, spot |-> TRUE, named |-> TRUE, reads |-> TRUE, fits |-> TRUE, rules |-> TRUE]
Entries ==
  [name : STRING, spot : BOOLEAN, named : BOOLEAN, reads : BOOLEAN, fits : BOOLEAN, rules : BOOLEAN]
NoListing == [status |-> "running", at |-> 0, seen |-> {}, ids |-> {}, listed |-> {}]

Any(e) == TRUE
IsSpot(e) == e.spot
IsNamed(e) == e.named
Readable(e) == e.reads
Fits(e) == e.reads /\ e.fits
HasRules(e) == e.rules

Take(l, items, Want(_), Good(_)) ==
  LET wanted == {items[i] : i \in {j \in DOMAIN items : Want(items[j])}}
  IN IF \A e \in wanted : Good(e)
     THEN [l EXCEPT !.listed = @ \cup wanted, !.ids = @ \cup {e.name : e \in wanted}]
     ELSE [l EXCEPT !.status = "failed"]

Whole(l) == IF l.status = "failed" THEN l ELSE [l EXCEPT !.status = "listed"]

OkxMarkets(l, p) == Whole(Take(l, p.items, Any, Any))

\* Mutant of BybitMarkets: a cursor seen before is followed again.
BybitMarketsAgain(l, p) ==
  LET taken == Take(l, p.items, Any, Any)
  IN IF p.next = 0 THEN Whole(taken) ELSE [taken EXCEPT !.seen = @ \cup {p.next}, !.at = p.next]

BybitMarkets(l, p) ==
  LET taken == Take(l, p.items, Any, Any)
  IN IF p.next = 0 THEN Whole(taken)
     ELSE IF p.next \in l.seen THEN [taken EXCEPT !.status = "failed"]
     ELSE [taken EXCEPT !.seen = @ \cup {p.next}, !.at = p.next]

BitgetMarkets(l, p) == Whole(Take(l, p.items, Any, HasRules))

\* Mutant of BinanceMarkets: markets closed to spot trading are listed too.
BinanceMarketsAll(l, p) == Whole(Take(l, p.items, Any, HasRules))

BinanceMarkets(l, p) == Whole(Take(l, p.items, IsSpot, HasRules))

CoinbaseMarkets(l, p) ==
  LET taken == Take(l, p.items, Any, Readable)
      repeated == \/ \E i \in DOMAIN p.items : p.items[i].name \in l.ids
                  \/ \E i, j \in DOMAIN p.items : i # j /\ p.items[i].name = p.items[j].name
  IN IF repeated \/ taken.status = "failed" THEN [l EXCEPT !.status = "failed"]
     ELSE IF Len(p.items) < MarketPage THEN Whole(taken)
     ELSE [taken EXCEPT !.at = @ + Len(p.items)]

KrakenMarkets(l, p) == Whole(Take(l, p.items, IsNamed, Readable))
GateioMarkets(l, p) == Whole(Take(l, p.items, Any, Fits))
KucoinMarkets(l, p) == Whole(Take(l, p.items, Any, Fits))
HtxMarkets(l, p) == Whole(Take(l, p.items, Any, Fits))
MexcMarkets(l, p) == Whole(Take(l, p.items, Any, LAMBDA e : Fits(e) /\ HasRules(e)))
CryptocomMarkets(l, p) == Whole(Take(l, p.items, IsSpot, Fits))
KorbitMarkets(l, p) == Whole(Take(l, p.items, Any, Readable))
CoinoneMarkets(l, p) == Whole(Take(l, p.items, Any, Readable))
BithumbMarkets(l, p) == Whole(Take(l, p.items, Any, Readable))
UpbitMarkets(l, p) == Whole(Take(l, p.items, Any, Readable))
=============================================================================
