--------------------------- MODULE OrderStatuses ---------------------------
(***************************************************************************)
(* The order states of each exchange and the unified status its adapter    *)
(* reports.  A native order is a word and whether any of it was executed.  *)
(***************************************************************************)
EXTENDS Naturals

\* States of an order at an exchange, and the ones that no longer change.
Live == {"open", "partial"}
Final == {"filled", "canceled", "partly_canceled", "expired", "rejected"}

\* Words of the exchanges for those states.  KuCoin has flags instead of
\* words: active, cancelExist, and neither with all of it dealt.
NativeWords ==
  [binance   |-> [open |-> {"NEW", "PENDING_NEW", "PENDING_CANCEL"}, partial |-> {"PARTIALLY_FILLED"},
                  filled |-> {"FILLED"}, canceled |-> {"CANCELED"}, partly_canceled |-> {"CANCELED"},
                  expired |-> {"EXPIRED", "EXPIRED_IN_MATCH"}, rejected |-> {"REJECTED"}],
   okx       |-> [open |-> {"live"}, partial |-> {"partially_filled"}, filled |-> {"filled"},
                  canceled |-> {"canceled", "mmp_canceled"}, partly_canceled |-> {"canceled", "mmp_canceled"},
                  expired |-> {"canceled"}, rejected |-> {"canceled"}],
   bybit     |-> [open |-> {"Created", "New", "Untriggered", "Triggered"}, partial |-> {"PartiallyFilled"},
                  filled |-> {"Filled"}, canceled |-> {"Cancelled", "Deactivated"},
                  partly_canceled |-> {"PartiallyFilledCanceled"}, expired |-> {"Cancelled"},
                  rejected |-> {"Rejected"}],
   bitget    |-> [open |-> {"live", "new"}, partial |-> {"partially_filled"}, filled |-> {"filled"},
                  canceled |-> {"cancelled"}, partly_canceled |-> {"cancelled"}, expired |-> {"cancelled"},
                  rejected |-> {"cancelled"}],
   coinbase  |-> [open |-> {"PENDING", "QUEUED", "OPEN", "CANCEL_QUEUED", "EDIT_QUEUED"}, partial |-> {"OPEN"},
                  filled |-> {"FILLED"}, canceled |-> {"CANCELLED"}, partly_canceled |-> {"CANCELLED"},
                  expired |-> {"EXPIRED"}, rejected |-> {"FAILED"}],
   kraken    |-> [open |-> {"pending", "open"}, partial |-> {"open"}, filled |-> {"closed"},
                  canceled |-> {"canceled"}, partly_canceled |-> {"canceled"}, expired |-> {"expired"},
                  rejected |-> {"canceled"}],
   gateio    |-> [open |-> {"open"}, partial |-> {"open"}, filled |-> {"closed"}, canceled |-> {"cancelled"},
                  partly_canceled |-> {"cancelled"}, expired |-> {"cancelled"}, rejected |-> {"cancelled"}],
   kucoin    |-> [open |-> {"active"}, partial |-> {"active"}, filled |-> {"dealt"}, canceled |-> {"cancelExist"},
                  partly_canceled |-> {"cancelExist"}, expired |-> {"cancelExist"}, rejected |-> {"none"}],
   htx       |-> [open |-> {"created", "submitted"}, partial |-> {"partial-filled"}, filled |-> {"filled"},
                  canceled |-> {"canceled"}, partly_canceled |-> {"partial-canceled"}, expired |-> {"canceled"},
                  rejected |-> {"rejected"}],
   mexc      |-> [open |-> {"NEW"}, partial |-> {"PARTIALLY_FILLED"}, filled |-> {"FILLED"},
                  canceled |-> {"CANCELED"}, partly_canceled |-> {"PARTIALLY_CANCELED"}, expired |-> {"CANCELED"},
                  rejected |-> {"CANCELED"}],
   cryptocom |-> [open |-> {"PENDING", "NEW", "ACTIVE"}, partial |-> {"ACTIVE"}, filled |-> {"FILLED"},
                  canceled |-> {"CANCELED"}, partly_canceled |-> {"CANCELED"}, expired |-> {"EXPIRED"},
                  rejected |-> {"REJECTED"}],
   korbit    |-> [open |-> {"pending", "open"}, partial |-> {"partiallyFilled"}, filled |-> {"filled"},
                  canceled |-> {"canceled"}, partly_canceled |-> {"partiallyFilledCanceled"},
                  expired |-> {"expired"}, rejected |-> {"canceled"}],
   coinone   |-> [open |-> {"LIVE", "NOT_TRIGGERED", "TRIGGERED"}, partial |-> {"PARTIALLY_FILLED"},
                  filled |-> {"FILLED"},
                  canceled |-> {"CANCELED", "NOT_TRIGGERED_CANCELED", "CANCELED_NO_ORDER",
                                "CANCELED_LIMIT_PRICE_EXCEED", "CANCELED_UNDER_PRODUCT_UNIT"},
                  partly_canceled |-> {"PARTIALLY_CANCELED", "NOT_TRIGGERED_PARTIALLY_CANCELED"},
                  expired |-> {"CANCELED"}, rejected |-> {"CANCELED_LIMIT_PRICE_EXCEED"}],
   bithumb   |-> [open |-> {"wait", "watch"}, partial |-> {"wait"}, filled |-> {"done"}, canceled |-> {"cancel"},
                  partly_canceled |-> {"cancel"}, expired |-> {"cancel"}, rejected |-> {"cancel"}],
   upbit     |-> [open |-> {"wait", "watch"}, partial |-> {"wait"}, filled |-> {"done"}, canceled |-> {"cancel"},
                  partly_canceled |-> {"cancel"}, expired |-> {"cancel"}, rejected |-> {"cancel"}]]

Executed(state) == state \in {"partial", "filled", "partly_canceled"}

\* The status whose words include w.
Lookup(table, w) ==
  IF \E s \in DOMAIN table : w \in table[s]
  THEN CHOOSE s \in DOMAIN table : w \in table[s]
  ELSE "unknown"

\* Exchanges with one word for every live order.
LiveStatus(filled) == IF filled THEN "partially_filled" ELSE "new"

\* Mutant of BinanceStatus: an order being cancelled passes for cancelled.
BinanceStatusEager(w, filled) ==
  Lookup([new |-> {"NEW", "PENDING_NEW"}, partially_filled |-> {"PARTIALLY_FILLED"},
          filled |-> {"FILLED"}, canceled |-> {"CANCELED", "PENDING_CANCEL"}, rejected |-> {"REJECTED"},
          expired |-> {"EXPIRED", "EXPIRED_IN_MATCH"}], w)

BinanceStatus(w, filled) ==
  Lookup([new |-> {"NEW", "PENDING_NEW", "PENDING_CANCEL"}, partially_filled |-> {"PARTIALLY_FILLED"},
          filled |-> {"FILLED"}, canceled |-> {"CANCELED"}, rejected |-> {"REJECTED"},
          expired |-> {"EXPIRED", "EXPIRED_IN_MATCH"}], w)

OkxStatus(w, filled) ==
  Lookup([new |-> {"live"}, partially_filled |-> {"partially_filled"}, filled |-> {"filled"},
          canceled |-> {"canceled", "mmp_canceled"}], w)

BybitStatus(w, filled) ==
  Lookup([new |-> {"Created", "New", "Untriggered", "Triggered"}, partially_filled |-> {"PartiallyFilled"},
          filled |-> {"Filled"}, canceled |-> {"Cancelled", "PartiallyFilledCanceled", "Deactivated"},
          rejected |-> {"Rejected"}], w)

BitgetStatus(w, filled) ==
  Lookup([new |-> {"live", "new"}, partially_filled |-> {"partially_filled"}, filled |-> {"filled"},
          canceled |-> {"cancelled"}], w)

CoinbaseStatus(w, filled) ==
  IF w = "OPEN" THEN LiveStatus(filled)
  ELSE Lookup([new |-> {"PENDING", "QUEUED", "CANCEL_QUEUED", "EDIT_QUEUED"}, filled |-> {"FILLED"},
               canceled |-> {"CANCELLED"}, expired |-> {"EXPIRED"}, rejected |-> {"FAILED"}], w)

KrakenStatus(w, filled) ==
  IF w = "open" THEN LiveStatus(filled)
  ELSE Lookup([new |-> {"pending"}, filled |-> {"closed"}, canceled |-> {"canceled", "cancelled"},
               expired |-> {"expired"}], w)

GateioStatus(w, filled) ==
  IF w = "open" THEN LiveStatus(filled)
  ELSE Lookup([filled |-> {"closed"}, canceled |-> {"cancelled"}], w)

KucoinStatus(w, filled) ==
  IF w = "active" THEN LiveStatus(filled)
  ELSE Lookup([canceled |-> {"cancelExist"}, filled |-> {"dealt"}], w)

HtxStatus(w, filled) ==
  Lookup([new |-> {"created", "submitted"}, partially_filled |-> {"partial-filled"}, filled |-> {"filled"},
          canceled |-> {"partial-canceled", "canceled"}], w)

MexcStatus(w, filled) ==
  Lookup([new |-> {"NEW"}, partially_filled |-> {"PARTIALLY_FILLED"}, filled |-> {"FILLED"},
          canceled |-> {"CANCELED", "PARTIALLY_CANCELED"}], w)

CryptocomStatus(w, filled) ==
  IF w = "ACTIVE" THEN LiveStatus(filled)
  ELSE Lookup([new |-> {"PENDING", "NEW"}, filled |-> {"FILLED"}, canceled |-> {"CANCELED"},
               expired |-> {"EXPIRED"}, rejected |-> {"REJECTED"}], w)

KorbitStatus(w, filled) ==
  Lookup([new |-> {"pending", "open"}, partially_filled |-> {"partiallyFilled"}, filled |-> {"filled"},
          canceled |-> {"canceled", "partiallyFilledCanceled"}, expired |-> {"expired"}], w)

CoinoneStatus(w, filled) ==
  Lookup([new |-> {"LIVE", "NOT_TRIGGERED", "TRIGGERED"}, partially_filled |-> {"PARTIALLY_FILLED"},
          filled |-> {"FILLED"},
          canceled |-> {"PARTIALLY_CANCELED", "CANCELED", "NOT_TRIGGERED_PARTIALLY_CANCELED",
                        "NOT_TRIGGERED_CANCELED", "CANCELED_NO_ORDER", "CANCELED_LIMIT_PRICE_EXCEED",
                        "CANCELED_UNDER_PRODUCT_UNIT"}], w)

BithumbStatus(w, filled) ==
  IF w \in {"wait", "watch"} THEN LiveStatus(filled)
  ELSE Lookup([filled |-> {"done"}, canceled |-> {"cancel"}], w)

UpbitStatus(w, filled) ==
  IF w \in {"wait", "watch"} THEN LiveStatus(filled)
  ELSE Lookup([filled |-> {"done"}, canceled |-> {"cancel"}], w)
=============================================================================
