----------------------------- MODULE StreamBook -----------------------------
(***************************************************************************)
(* LocalOrderBook.Run of the exchanges whose order book channel carries    *)
(* its own snapshots (src/exchange/<name>/local_order_book.go): a          *)
(* processor joins snapshot and updates, and asks the session to reconnect *)
(* when they do not fit, so that the next connection begins with a new     *)
(* snapshot.                                                               *)
(*                                                                         *)
(* The exchanges differ in how an update names its predecessor; venue,     *)
(* fixed in a behaviour, selects the rule.  HTX sends its snapshots only   *)
(* on request, over the same connection: its book keeps the updates in a   *)
(* buffer meanwhile, and asks again instead of reconnecting.               *)
(***************************************************************************)
EXTENDS OrderBook

CONSTANTS
  Venues,         \* the exchanges to be modelled, a subset of AllVenues
  Depth,          \* levels of the subscribed depth, where the channel has one
  ChecksumDepth,  \* levels under Kraken's checksum
  ViewDepth,      \* LocalOrderBookConfig.ViewDepth
  MaxBuffered,    \* LocalOrderBookConfig.MaxBufferedUpdates of HTX
  QueueSize,      \* messages read and not yet handled: consume's results and the reader's
  FirstId,        \* bound: updates before the book is started
  MaxGeneration,  \* bound: connections
  MaxFaults       \* bound: messages lost, repeated or resent

\* okx5 is the books5 channel of OKX, which has no updates.
AllVenues == {"okx", "okx5", "bybit", "bitget", "coinbase", "kraken", "krakenFutures",
              "gateio", "gateioFutures", "kucoin", "kucoinFutures", "cryptocom",
              "upbit", "bithumb", "korbit", "coinone", "htx"}

\* The channel carries whole books only.
FullBook == {"okx5", "upbit", "bithumb", "korbit", "coinone"}

\* The channel is not cut at a depth.
Unbounded == {"bitget", "coinbase", "krakenFutures"}

\* A message may hold several events.
Batching == {"okx", "okx5", "coinbase", "kraken", "cryptocom"}

\* The handler gets a view for every event of a message, not one for the message.
PerEvent == {"okx", "okx5", "kraken", "cryptocom"}

\* The processor has no numbers to compare: it takes a batch that is sent once more.
Blind == {"okx5", "kraken"}

\* Updates may reach back behind the snapshot.
Overlapping == {"bitget", "kucoin", "kucoinFutures"}

ASSUME StreamBookAssumption ==
  /\ Venues \subseteq AllVenues
  /\ Depth \in Nat \ {0} /\ ViewDepth \in 1..Depth /\ ChecksumDepth \in 1..Depth
  /\ MaxBuffered \in Nat \ {0} /\ QueueSize \in Nat \ {0} /\ FirstId \in 1..MaxId
  /\ MaxGeneration \in Nat \ {0} /\ MaxFaults \in Nat

VARIABLES
  venue,
  latest,     \* the exchange's last update id
  conn,       \* the session's generation
  closing,    \* Reconnect has closed the connection
  feed,       \* the channel on this connection: snapshot, last update and message sent,
              \* the snapshot request that waits for an answer, or 0
  faults,
  queue,      \* messages read and not yet handled to their end
  handling,   \* the handler has begun with the first of them
  generation, \* processor.generation
  recovery,   \* recoveryGeneration
  book,       \* processor.state, or NoBook
  syncID, gapCount,
  refresh,    \* HTX: the buffer, snapshotID (0 for none) and the ids used so far
  view,       \* the last view handed to the handler
  run         \* "running" until Run returns

exchangeVars == <<venue, latest, faults>>
processorVars == <<handling, generation, recovery, book, syncID, gapCount, refresh, view>>
streamBookVars == <<exchangeVars, conn, closing, feed, queue, processorVars, run>>
-----------------------------------------------------------------------------
(* What the channel carries. *)

Limit == IF venue \in Unbounded THEN MaxId ELSE Depth

\* The channel's book after update n.
ChannelBook(n) == Top(ExchangeBook(n), Limit)

Event(type, first, final, n) == [type |-> type, first |-> first, final |-> final, n |-> n]
Message(kind, events) == [kind |-> kind, events |-> events]

\* The levels of updates first..final: those they set, and those that come into the
\* depth; a level that falls out of it is not mentioned.
Delta(e) ==
  LET now == ExchangeBook(e.final)
      entered == {p \in DOMAIN ChannelBook(e.final) :
                    \E i \in e.first - 1..e.final : p \notin DOMAIN ChannelBook(i)}
      named == {p \in Touched(e.first, e.final) :
                  p \in DOMAIN ChannelBook(e.final) \/ p \notin DOMAIN now}
  IN [p \in entered \cup named |-> Quantity(now, p)]
-----------------------------------------------------------------------------
(* The book kept by the processor. *)

NoBook == [last |-> 0, n |-> 0, bridged |-> FALSE, levels |-> <<>>]

\* newLocalOrderBookState.
FromSnapshot(e) == [last |-> e.final, n |-> e.n, bridged |-> FALSE, levels |-> ChannelBook(e.final)]

\* Mutant: levels that fall out of the depth are kept.
PrunedNever(levels) == levels

\* pruneLocalOrderBookLevels, where the channel has a depth.
Pruned(levels) == IF venue \in Unbounded THEN levels ELSE Top(levels, Depth)

\* localOrderBookState.apply.
Applied(b, e) ==
  [last |-> e.final, n |-> e.n, bridged |-> TRUE, levels |-> Pruned(ApplyLevels(b.levels, Delta(e)))]

\* spotLocalOrderBookChecksum: equal for equal best levels, and taken to differ otherwise.
Checksum(levels) == Top(levels, ChecksumDepth)
-----------------------------------------------------------------------------
(* What each processor makes of an event for the book b: it takes the      *)
(* snapshot, applies or ignores the update, or sees a gap.  An update      *)
(* without a book to apply it to is a gap.                                 *)

\* prevSeqId must be the book's; equal ids without levels are a heartbeat.
OkxProcess(b, e) ==
  IF e.type = "snapshot" THEN "snapshot"
  ELSE IF b = NoBook \/ e.first - 1 # b.last THEN "gap"
  ELSE IF e.final = e.first - 1 THEN "ignore"
  ELSE "apply"

\* The update ID counts messages, the sequence updates.
BybitProcess(b, e) ==
  IF e.type = "snapshot" THEN "snapshot"
  ELSE IF b = NoBook \/ e.n = 1 THEN "gap"
  ELSE IF e.n = b.n THEN "ignore"
  ELSE IF e.n # b.n + 1 \/ e.final <= b.last THEN "gap"
  ELSE "apply"

\* Until one update has bridged the snapshot, an update may reach back behind it.
BitgetProcess(b, e) ==
  IF e.type = "snapshot" THEN "snapshot"
  ELSE IF e.final <= e.first - 1 \/ b = NoBook THEN "gap"
  ELSE IF ~b.bridged
  THEN IF e.first - 1 > b.last \/ e.final < b.last THEN "gap" ELSE "apply"
  ELSE IF e.first - 1 = 0 \/ e.final < b.last THEN "gap"
  ELSE IF e.final = b.last THEN "ignore"
  ELSE IF e.first - 1 # b.last THEN "gap"
  ELSE "apply"

\* Mutant: an update may come before the snapshot.
CoinbaseProcessEager(b, e) == IF e.type = "snapshot" THEN "snapshot" ELSE "apply"

\* The sequence number is the message's: CoinbaseAdmits.
CoinbaseProcess(b, e) ==
  IF e.type = "snapshot" THEN "snapshot"
  ELSE IF b = NoBook THEN "gap"
  ELSE "apply"

\* Nothing but the checksum of the result tells whether an event fits.
KrakenProcess(b, e) ==
  LET result == IF e.type = "snapshot" THEN FromSnapshot(e) ELSE Applied(b, e)
  IN IF e.type = "update" /\ b = NoBook THEN "gap"
     ELSE IF Checksum(result.levels) # Checksum(ChannelBook(e.final)) THEN "gap"
     ELSE IF e.type = "snapshot" THEN "snapshot"
     ELSE "apply"

KrakenFuturesProcess(b, e) ==
  IF e.type = "snapshot" THEN "snapshot"
  ELSE IF b = NoBook THEN "gap"
  ELSE IF e.final <= b.last THEN "ignore"
  ELSE IF e.final # b.last + 1 THEN "gap"
  ELSE "apply"

GateioProcess(b, e) ==
  IF e.type = "snapshot" THEN "snapshot"
  ELSE IF b = NoBook \/ e.first # b.last + 1 THEN "gap"
  ELSE "apply"

GateioFuturesProcess(b, e) ==
  IF e.type = "snapshot" THEN "snapshot"
  ELSE IF b = NoBook \/ e.first # b.last + 1 THEN "gap"
  ELSE "apply"

\* An update that overlaps the book is applied whole.
KucoinProcess(b, e) ==
  IF e.type = "snapshot" THEN "snapshot"
  ELSE IF b = NoBook THEN "gap"
  ELSE IF e.final <= b.last THEN "ignore"
  ELSE IF e.first > b.last + 1 THEN "gap"
  ELSE "apply"

KucoinFuturesProcess(b, e) ==
  IF e.type = "snapshot" THEN "snapshot"
  ELSE IF b = NoBook THEN "gap"
  ELSE IF e.final <= b.last THEN "ignore"
  ELSE IF e.first > b.last + 1 THEN "gap"
  ELSE "apply"

CryptocomProcess(b, e) ==
  IF e.type = "snapshot" THEN "snapshot"
  ELSE IF b = NoBook \/ e.first - 1 # b.last THEN "gap"
  ELSE IF e.final <= b.last THEN "gap"
  ELSE "apply"

\* Whole books: what is not newer on the same connection is dropped, where the source
\* can tell.
KorbitProcess(b, e) ==
  IF b # NoBook /\ e.final < b.last THEN "ignore"
  ELSE "snapshot"

CoinoneProcess(b, e) ==
  IF b # NoBook /\ e.final <= b.last THEN "ignore"
  ELSE "snapshot"

UpbitProcess(b, e) == "snapshot"
BithumbProcess(b, e) == "snapshot"

\* The processor of the venue.
Verdict(b, e) ==
  CASE venue \in {"okx", "okx5"} -> OkxProcess(b, e)
    [] venue = "bybit" -> BybitProcess(b, e)
    [] venue = "bitget" -> BitgetProcess(b, e)
    [] venue = "coinbase" -> CoinbaseProcess(b, e)
    [] venue = "kraken" -> KrakenProcess(b, e)
    [] venue = "krakenFutures" -> KrakenFuturesProcess(b, e)
    [] venue = "gateio" -> GateioProcess(b, e)
    [] venue = "gateioFutures" -> GateioFuturesProcess(b, e)
    [] venue = "kucoin" -> KucoinProcess(b, e)
    [] venue = "kucoinFutures" -> KucoinFuturesProcess(b, e)
    [] venue = "cryptocom" -> CryptocomProcess(b, e)
    [] venue = "korbit" -> KorbitProcess(b, e)
    [] venue = "coinone" -> CoinoneProcess(b, e)
    [] venue = "upbit" -> UpbitProcess(b, e)
    [] venue = "bithumb" -> BithumbProcess(b, e)
-----------------------------------------------------------------------------
(* The handler Run gives to the stream. *)

Running == run = "running"

\* What the handler of each exchange does with a message that is no data of its
\* channel: most end Run when a subscription is refused; OKX reconnects on a notice of
\* maintenance; Kraken's two look at nothing but data. Data that does not pass the
\* validation (levels, texts, timestamps, a crossed book) ends Run everywhere.
EndsOn(kinds, kind) == IF kind \in kinds THEN "error" ELSE "ignore"

OkxRun(kind) == IF kind = "notice" THEN "reconnect" ELSE EndsOn({"refused", "malformed"}, kind)
BybitRun(kind) == EndsOn({"refused", "malformed"}, kind)
BitgetRun(kind) == EndsOn({"refused", "malformed"}, kind)
CoinbaseRun(kind) == EndsOn({"refused", "malformed"}, kind)
GateioRun(kind) == EndsOn({"refused", "malformed"}, kind)
GateioFuturesRun(kind) == EndsOn({"refused", "malformed"}, kind)
KucoinRun(kind) == EndsOn({"refused", "malformed"}, kind)
KucoinFuturesRun(kind) == EndsOn({"refused", "malformed"}, kind)
CryptocomRun(kind) == EndsOn({"refused", "malformed"}, kind)
UpbitRun(kind) == EndsOn({"refused", "malformed"}, kind)
BithumbRun(kind) == EndsOn({"refused", "malformed"}, kind)
KorbitRun(kind) == EndsOn({"refused", "malformed"}, kind)
CoinoneRun(kind) == EndsOn({"refused", "malformed"}, kind)
HtxRun(kind) == EndsOn({"refused", "malformed"}, kind)
KrakenRun(kind) == EndsOn({"malformed"}, kind)
KrakenFuturesRun(kind) == EndsOn({"malformed"}, kind)

Control(kind) ==
  CASE venue \in {"okx", "okx5"} -> OkxRun(kind)
    [] venue = "bybit" -> BybitRun(kind)
    [] venue = "bitget" -> BitgetRun(kind)
    [] venue = "coinbase" -> CoinbaseRun(kind)
    [] venue = "gateio" -> GateioRun(kind)
    [] venue = "gateioFutures" -> GateioFuturesRun(kind)
    [] venue = "kucoin" -> KucoinRun(kind)
    [] venue = "kucoinFutures" -> KucoinFuturesRun(kind)
    [] venue = "cryptocom" -> CryptocomRun(kind)
    [] venue = "upbit" -> UpbitRun(kind)
    [] venue = "bithumb" -> BithumbRun(kind)
    [] venue = "korbit" -> KorbitRun(kind)
    [] venue = "coinone" -> CoinoneRun(kind)
    [] venue = "kraken" -> KrakenRun(kind)
    [] venue = "krakenFutures" -> KrakenFuturesRun(kind)
    [] venue = "htx" -> HtxRun(kind)

\* Coinbase numbers messages: an old one is dropped, a missing one is a gap.
CoinbaseAdmits(b, e) ==
  IF b = NoBook THEN "process"
  ELSE IF e.n <= b.n THEN "ignore" ELSE IF e.n # b.n + 1 THEN "gap" ELSE "process"

\* Bitget and Crypto.com drop what is left of a connection they have given up.
Guarded == {"bitget", "cryptocom"}

\* Mutant: the messages left over count as gaps once more.
DroppedNever == FALSE

Dropped == venue \in Guarded /\ recovery = conn

\* Mutant: the book outlives its connection.
CurrentBookStale == book

\* The book when a message arrives: a new generation has none.
CurrentBook == IF generation = conn THEN book ELSE NoBook

\* What a message leads to: what Run does next, the book and the two counters.
Result(out, b, sync, gaps) == [out |-> out, book |-> b, sync |-> sync, gaps |-> gaps]

\* sequenceGap, recoverFromGap, checksumGap.
Gap(acc) == Result("reconnect", NoBook, acc.sync, acc.gaps + 1)

\* The outcome of a message: the events in order, until one asks to reconnect.
OnEvent(acc, e) ==
  IF acc.out = "reconnect" THEN acc
  ELSE LET what == Verdict(acc.book, e)
       IN CASE what = "ignore" -> acc
            [] what = "gap" -> Gap(acc)
            [] what = "snapshot" -> Result("publish", FromSnapshot(e), acc.sync + 1, acc.gaps)
            [] what = "apply" -> Result("publish", Applied(acc.book, e), acc.sync, acc.gaps)

Outcome(m) ==
  LET start == Result("ignore", CurrentBook, syncID, gapCount)
      after[i \in 0..Len(m.events)] ==
        IF i = 0 THEN start ELSE OnEvent(after[i - 1], m.events[i])
      admits == IF venue = "coinbase" THEN CoinbaseAdmits(start.book, Head(m.events)) ELSE "process"
  IN CASE Dropped \/ admits = "ignore" -> start
       [] ~Dropped /\ admits = "gap" -> Gap(start)
       [] ~Dropped /\ admits = "process" -> after[Len(m.events)]

\* Mutant: the gap is noted and nobody reconnects.
ReconnectForgotten == UNCHANGED <<closing, run>>

\* session.Reconnect closes the connection; an error of Close goes to the handler's caller.
Reconnect == closing' = TRUE /\ run' \in {"running", "returned"}

\* What the handler takes of a message at a time.
InHand(m) == IF venue \in PerEvent THEN Message("data", <<Head(m.events)>>) ELSE m

\* The events of a message that the handler has still to take.
Rest(m) == Message("data", Tail(m.events))

\* The handler, for data of its channel: the whole message, or its next event.  The
\* events after one that asks to reconnect are dropped.
HandleData ==
  /\ Running /\ queue # <<>> /\ Head(queue).kind = "data" /\ venue # "htx"
  /\ \E o \in {Outcome(InHand(Head(queue)))} :
        /\ handling' = (venue \in PerEvent /\ Len(Head(queue).events) > 1 /\ ~Dropped
                          /\ o.out # "reconnect")
        /\ queue' = IF handling' THEN [queue EXCEPT ![1] = Rest(@)] ELSE Tail(queue)
        /\ generation' = conn
        /\ book' = o.book /\ syncID' = o.sync /\ gapCount' = o.gaps
        /\ recovery' = IF venue \in Guarded /\ o.out = "reconnect" THEN conn
                       ELSE IF generation # conn THEN 0 ELSE recovery
        /\ view' = IF o.out = "publish"
                   THEN [generation |-> conn, sync |-> o.sync, gaps |-> o.gaps,
                         last |-> o.book.last, levels |-> Top(o.book.levels, ViewDepth)]
                   ELSE view
        /\ CASE o.out = "ignore" -> UNCHANGED <<closing, run>>
             [] o.out = "publish" -> run' \in {"running", "returned"} /\ UNCHANGED closing
             [] o.out = "reconnect" -> Reconnect
  /\ UNCHANGED <<exchangeVars, conn, feed, refresh>>

-----------------------------------------------------------------------------
(* HTX: updates wait in the buffer until the snapshot asked for has come. *)

NoRefresh == [buffer |-> <<>>, id |-> 0, ids |-> 0]

\* A new generation has no buffer and waits for no snapshot.
CurrentRefresh ==
  IF generation = conn THEN refresh ELSE [buffer |-> <<>>, id |-> 0, ids |-> refresh.ids]

HtxResult(out, b, sync, gaps, buffer, id) ==
  [out |-> out, book |-> b, sync |-> sync, gaps |-> gaps, buffer |-> buffer, id |-> id]

HtxStart ==
  HtxResult("ignore", CurrentBook, syncID, gapCount, CurrentRefresh.buffer, CurrentRefresh.id)

\* localMBPProcessor.processUpdate.
HtxUpdate(e) ==
  LET s == HtxStart
      next == IF Len(s.buffer) = MaxBuffered THEN "error" ELSE IF s.id = 0 THEN "request" ELSE "ignore"
      sync == IF s.book.bridged THEN s.sync ELSE s.sync + 1
  IN CASE s.book = NoBook -> HtxResult(next, NoBook, s.sync, s.gaps, Append(s.buffer, e), s.id)
       [] s.book # NoBook /\ e.final <= s.book.last -> s
       [] s.book # NoBook /\ e.final > s.book.last /\ e.first - 1 # s.book.last ->
            HtxResult("request", NoBook, s.sync, s.gaps + 1, <<e>>, 0)
       [] s.book # NoBook /\ e.final > s.book.last /\ e.first - 1 = s.book.last ->
            HtxResult("publish", Applied(s.book, e), sync, s.gaps, s.buffer, s.id)

\* Mutant: the buffered updates are not compared with each other.
MissingInNever(updates, last) == 0

\* The first buffered update that does not follow its predecessor, or 0.
MissingIn(updates, last) ==
  LET before(i) == IF i = 1 THEN last ELSE updates[i - 1].final
      missing == {i \in DOMAIN updates : updates[i].first - 1 # before(i)}
  IN IF missing = {} THEN 0 ELSE Min(missing)

\* The snapshot with the buffered updates applied; the depth is cut once, at the end.
Replayed(e, updates) ==
  LET last == updates[Len(updates)]
      levels[i \in 0..Len(updates)] ==
        IF i = 0 THEN ChannelBook(e.final) ELSE ApplyLevels(levels[i - 1], Delta(updates[i]))
  IN [last |-> last.final, n |-> last.n, bridged |-> TRUE, levels |-> Pruned(levels[Len(updates)])]

\* localMBPProcessor.processSnapshot.  A snapshot that comes too early for the buffer
\* is asked for again without counting a gap.
HtxSnapshot(e) ==
  LET s == HtxStart
      newer == {i \in DOMAIN s.buffer : s.buffer[i].final > e.final}
      later == IF newer = {} THEN <<>> ELSE SubSeq(s.buffer, Min(newer), Len(s.buffer))
      missing == MissingIn(later, e.final)
  IN CASE generation # conn \/ s.id = 0 \/ s.id # e.n -> s
       [] generation = conn /\ s.id # 0 /\ s.id = e.n ->
            CASE later = <<>> -> HtxResult("ignore", FromSnapshot(e), s.sync, s.gaps, <<>>, 0)
              [] later # <<>> /\ missing = 1 ->
                   HtxResult("request", s.book, s.sync, s.gaps, later, 0)
              [] later # <<>> /\ missing > 1 ->
                   HtxResult("request", s.book, s.sync, s.gaps + 1,
                             SubSeq(later, missing, Len(later)), 0)
              [] later # <<>> /\ missing = 0 ->
                   HtxResult("publish", Replayed(e, later), s.sync + 1, s.gaps, <<>>, 0)

HtxOutcome(e) == IF e.type = "refresh" THEN HtxSnapshot(e) ELSE HtxUpdate(e)

\* requestSnapshot: the id is kept when the request could be written; otherwise the
\* stream reconnects.
RequestSnapshot(buffer) ==
  \/ /\ ~closing
     /\ refresh' = [buffer |-> buffer, id |-> refresh.ids + 1, ids |-> refresh.ids + 1]
     /\ feed' = [feed EXCEPT !.asked = refresh.ids + 1]
     /\ UNCHANGED <<closing, run>>
  \/ /\ refresh' = [buffer |-> buffer, id |-> 0, ids |-> refresh.ids]
     /\ Reconnect
     /\ UNCHANGED feed

\* The handler Run gives to the MBP stream, for data of its channel.
HtxHandle ==
  /\ Running /\ queue # <<>> /\ Head(queue).kind = "data" /\ venue = "htx"
  /\ queue' = Tail(queue)
  /\ \E e \in {Head(Head(queue).events)} : \E o \in {HtxOutcome(e)} :
        /\ generation' = IF e.type = "refresh" THEN generation ELSE conn
        /\ book' = o.book /\ syncID' = o.sync /\ gapCount' = o.gaps
        /\ view' = IF o.out = "publish"
                   THEN [generation |-> conn, sync |-> o.sync, gaps |-> o.gaps,
                         last |-> o.book.last, levels |-> Top(o.book.levels, ViewDepth)]
                   ELSE view
        /\ IF o.out = "request" THEN RequestSnapshot(o.buffer)
           ELSE /\ refresh' = [buffer |-> o.buffer, id |-> o.id, ids |-> refresh.ids]
                /\ run' \in CASE o.out = "ignore" -> {"running"}
                              [] o.out = "error" -> {"returned"}
                              [] o.out = "publish" -> {"running", "returned"}
                /\ UNCHANGED <<closing, feed>>
  /\ UNCHANGED <<exchangeVars, conn, handling, recovery>>
-----------------------------------------------------------------------------
\* What Run does with any other message: the books that drop what is left of a
\* connection do so before they look whether it is damaged.
OnControl(kind) == IF Dropped /\ kind = "malformed" THEN "ignore" ELSE Control(kind)

\* The handler, for any other message.
HandleControl ==
  /\ Running /\ queue # <<>> /\ Head(queue).kind # "data"
  /\ queue' = Tail(queue)
  /\ LET out == OnControl(Head(queue).kind)
     IN CASE out = "ignore" -> UNCHANGED <<closing, run>>
          [] out = "error" -> run' = "returned" /\ UNCHANGED closing
          [] out = "reconnect" -> Reconnect
  /\ UNCHANGED <<exchangeVars, conn, feed, processorVars>>
-----------------------------------------------------------------------------
(* The session and the exchange. *)

Feed(snapshot, pos, n, recent, asked) ==
  [snapshot |-> snapshot, pos |-> pos, n |-> n, recent |-> recent, asked |-> asked]

NoFeed == Feed("none", 0, 0, <<>>, 0)

\* Session: the first connection, or another one after an error or Reconnect. What
\* the old one had left unhandled goes with it only when a ping failed; otherwise it
\* is handled first.
Connect ==
  /\ Running /\ ~handling /\ conn < MaxGeneration
  /\ conn' = conn + 1
  /\ closing' = FALSE
  /\ feed' = NoFeed
  /\ queue' = <<>>
  /\ UNCHANGED <<exchangeVars, processorVars, run>>

\* The message in the handler is no longer one of those that wait.
Room == IF handling THEN QueueSize + 1 ELSE QueueSize

Open == Running /\ conn # 0 /\ ~closing /\ Len(queue) < Room

Put(m) == queue' = Append(queue, m)

\* The exchange's book changes.
Update ==
  /\ latest < MaxId
  /\ latest' = latest + 1
  /\ UNCHANGED <<venue, faults, conn, closing, feed, queue, processorVars, run>>

\* The subscription begins with the book as it is; updates go on from pos.
SendSnapshot(pos) ==
  /\ Open /\ feed.snapshot = "none" /\ venue # "htx"
  /\ pos = latest \/ venue \in Overlapping
  /\ LET m == Message("data", <<Event("snapshot", latest, latest, 1)>>)
     IN feed' = Feed("sent", pos, 1, <<m>>, 0) /\ Put(m)
  /\ UNCHANGED <<exchangeVars, conn, closing, processorVars, run>>

\* The MBP channel of HTX begins with nothing but updates.
HtxSubscribed ==
  /\ Open /\ feed.snapshot = "none" /\ venue = "htx"
  /\ feed' = Feed("sent", latest, 0, <<>>, 0)
  /\ UNCHANGED <<exchangeVars, conn, closing, queue, processorVars, run>>

\* HTX answers a request with the book after update n: what it has announced or
\* later, or, as a fault, an older one.
SendRefresh(n) ==
  /\ Open /\ feed.asked # 0
  /\ faults' = IF n >= feed.pos THEN faults ELSE faults + 1
  /\ faults' <= MaxFaults
  /\ LET m == Message("data", <<Event("refresh", n, n, feed.asked)>>)
     IN feed' = Feed(feed.snapshot, feed.pos, feed.n, <<m>>, 0) /\ Put(m)
  /\ UNCHANGED <<venue, latest, conn, closing, processorVars, run>>

\* The request or its answer is lost.
LoseRefresh ==
  /\ Running /\ feed.asked # 0 /\ ~closing /\ faults < MaxFaults
  /\ faults' = faults + 1
  /\ feed' = [feed EXCEPT !.asked = 0]
  /\ UNCHANGED <<venue, latest, conn, closing, queue, processorVars, run>>

\* The next message of the channel has the updates up to n: an update, or the book.
DataEvent(after, n) ==
  IF venue \in FullBook THEN Event("snapshot", n, n, feed.n + 1)
  ELSE Event("update", after + 1, n, feed.n + 1)

Sent(events, n) ==
  Feed(feed.snapshot, n, feed.n + 1, <<Message("data", events)>>, feed.asked)

Send(n) ==
  /\ Open /\ feed.snapshot # "none"
  /\ venue = "krakenFutures" => n = feed.pos + 1
  /\ LET events == <<DataEvent(feed.pos, n)>>
     IN feed' = Sent(events, n) /\ Put(Message("data", events))
  /\ UNCHANGED <<exchangeVars, conn, closing, processorVars, run>>

\* Two events in one message.
SendBatch(k, n) ==
  /\ Open /\ feed.snapshot # "none" /\ venue \in Batching
  /\ LET events == <<DataEvent(feed.pos, k), DataEvent(k, n)>>
     IN feed' = Sent(events, n) /\ Put(Message("data", events))
  /\ UNCHANGED <<exchangeVars, conn, closing, processorVars, run>>

\* OKX sends an update without levels when nothing has changed.
SendHeartbeat ==
  /\ Open /\ feed.snapshot # "none" /\ venue = "okx"
  /\ feed.n < MaxId
  /\ Put(Message("data", <<DataEvent(feed.pos, feed.pos)>>))
  /\ feed' = [feed EXCEPT !.n = @ + 1]
  /\ UNCHANGED <<exchangeVars, conn, closing, processorVars, run>>

SendControl(kind) ==
  /\ Open /\ faults < MaxFaults
  /\ faults' = faults + 1
  /\ Put(Message(kind, <<>>))
  /\ UNCHANGED <<venue, latest, conn, closing, feed, processorVars, run>>

\* The snapshot, or the message with the updates up to n, never arrives.
Lose(n) ==
  /\ Running /\ conn # 0 /\ ~closing /\ faults < MaxFaults
  /\ venue = "htx" => feed.snapshot # "none"
  /\ faults' = faults + 1
  /\ feed' = IF feed.snapshot = "none"
             THEN Feed("lost", latest, 1, <<>>, 0)
             ELSE Feed(feed.snapshot, n, feed.n + 1, <<>>, feed.asked)
  /\ UNCHANGED <<venue, latest, conn, closing, queue, processorVars, run>>

\* The last message arrives once more.
Repeat ==
  /\ Open /\ faults < MaxFaults /\ feed.recent # <<>>
  /\ faults' = faults + 1
  /\ Put(Head(feed.recent))
  /\ UNCHANGED <<venue, latest, conn, closing, feed, processorVars, run>>

\* A whole book that is older than the last one.
SendOld(n) ==
  /\ Open /\ faults < MaxFaults /\ venue \in {"korbit", "coinone"}
  /\ faults' = faults + 1
  /\ Put(Message("data", <<Event("snapshot", n, n, feed.n)>>))
  /\ UNCHANGED <<venue, latest, conn, closing, feed, processorVars, run>>

\* The context ends, or Close; a handler that has begun comes to its end first.
Leave ==
  /\ Running /\ ~handling
  /\ run' = "returned"
  /\ UNCHANGED <<exchangeVars, conn, closing, feed, queue, processorVars>>

StreamBookInit ==
  /\ venue \in Venues
  /\ latest = FirstId /\ faults = 0
  /\ conn = 0 /\ closing = FALSE /\ feed = NoFeed /\ queue = <<>> /\ handling = FALSE
  /\ generation = 0 /\ recovery = 0 /\ book = NoBook
  /\ syncID = 0 /\ gapCount = 0 /\ refresh = NoRefresh
  /\ view = [generation |-> 0, sync |-> 0, gaps |-> 0, last |-> 0, levels |-> <<>>]
  /\ run = "running"

Returned == ~Running /\ UNCHANGED streamBookVars

Handle == HandleData \/ HtxHandle \/ HandleControl

\* A step of Handle, told from the others by what it does to the queue.
Consumes ==
  /\ Running /\ queue # <<>> /\ conn' = conn
  /\ \/ queue' = Tail(queue)
     \/ Len(Head(queue).events) > 1 /\ queue' = [queue EXCEPT ![1] = Rest(@)]

SendSome == \E n \in feed.pos + 1..latest : Send(n)

StreamBookNext ==
  \/ Handle \/ Connect \/ Update \/ Leave
  \/ \E pos \in FirstId..latest : SendSnapshot(pos)
  \/ SendSome \/ \E n \in feed.pos + 2..latest : \E k \in feed.pos + 1..n - 1 : SendBatch(k, n)
  \/ SendHeartbeat
  \/ \E kind \in {"refused", "notice", "malformed", "other"} : SendControl(kind)
  \/ \E n \in feed.pos + 1..latest : Lose(n)
  \/ Lose(latest) /\ feed.snapshot = "none"
  \/ HtxSubscribed \/ LoseRefresh \/ \E n \in FirstId..latest : SendRefresh(n)
  \/ Repeat \/ \E n \in FirstId..feed.pos - 1 : SendOld(n)
  \/ Returned

StreamBookSpec == StreamBookInit /\ [][StreamBookNext]_streamBookVars

\* The session handles what it has read and connects again after Reconnect; the
\* exchange sends the snapshot and the updates it has.
StreamBookFairSpec ==
  /\ StreamBookSpec
  /\ WF_queue(Consumes)
  /\ WF_conn(Connect /\ (closing \/ conn = 0))
  /\ WF_feed(SendSnapshot(latest) \/ HtxSubscribed)
  /\ WF_feed(SendRefresh(latest))
  /\ WF_feed(SendSome)
-----------------------------------------------------------------------------
(* Properties. *)

StreamBookTypeOK ==
  /\ venue \in Venues /\ latest \in FirstId..MaxId
  /\ conn \in 0..MaxGeneration /\ generation \in 0..conn /\ recovery \in {0, generation}
  /\ closing \in BOOLEAN /\ run \in {"running", "returned"}
  /\ feed.snapshot \in {"none", "sent", "lost"} /\ feed.pos \in 0..latest
  /\ handling \in BOOLEAN /\ Len(queue) <= Room
  /\ book.last \in 0..latest
  /\ Cardinality(DOMAIN book.levels) <= Limit
  /\ view.generation <= generation /\ view.sync <= syncID /\ view.gaps <= gapCount

\* The levels the venue's channel lets the SDK verify.
Verified(levels) == IF venue = "kraken" THEN Checksum(levels) ELSE levels

\* The local book is the exchange's book at the update it has reached, whatever was
\* lost, repeated or batched on the way; with Kraken, as far as the checksum reaches.
StreamBookIsExchangeBook ==
  book # NoBook => Verified(book.levels) = Verified(ChannelBook(book.last))

\* The views handed out, for a message or for each of its events, also for those before
\* a gap: the views of one connection never go back, and views with one
\* SynchronizationID come from one connection with no gap between them.  Where the
\* processor has nothing to tell a batch that is sent once more from a new one, the
\* first holds as long as nothing was lost or sent again.
StreamViewsAdvance ==
  [][view' # view =>
       /\ view'.sync >= view.sync
       /\ view'.generation = view.generation =>
            (view'.last >= view.last \/ (venue \in Blind /\ faults # 0))
       /\ view'.sync = view.sync =>
            view'.generation = view.generation /\ view'.gaps = view.gaps]_streamBookVars

\* GapCount counts the gaps that made the book reconnect: at most one a connection.
GapsCauseReconnects == gapCount <= conn

\* The books that drop what is left of a connection they have given up count each
\* reconnection once.
GuardedCountOnce == venue \in Guarded => GapsCauseReconnects

\* The book is right, and so is the number of gaps reported with it.
StreamBookIsSound == StreamBookTypeOK /\ StreamBookIsExchangeBook /\ GuardedCountOnce

\* A book without state gets a new one, unless Run returns or the market falls silent
\* after the snapshot itself was lost; with HTX, when no request is open.
Resynchronizes ==
  conn # 0 /\ book = NoBook ~>
    \/ book # NoBook \/ ~Running
    \/ conn = MaxGeneration /\ closing
    \/ feed.snapshot = "lost" /\ feed.pos = latest /\ queue = <<>>
    \/ venue = "htx" /\ feed.asked = 0 /\ feed.pos = latest /\ queue = <<>>
=============================================================================
