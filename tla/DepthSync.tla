----------------------------- MODULE DepthSync -----------------------------
(***************************************************************************)
(* LocalOrderBook.Run: a local copy of an exchange's order book, kept from *)
(* WebSocket deltas and a REST snapshot that race each other               *)
(* (src/exchange/binance, binance/usdm and mexc, local_order_book.go).     *)
(*                                                                         *)
(* The three exchanges share the event loop and differ in how update ids   *)
(* join a delta to a snapshot and to its predecessor; venue, fixed in a    *)
(* behaviour, selects them.                                                *)
(***************************************************************************)
EXTENDS OrderBook

CONSTANTS
  Venues,             \* the exchanges to be modelled
  MaxBufferedEvents,  \* LocalOrderBookConfig.MaxBufferedEvents
  SnapshotLimit,      \* LocalOrderBookConfig.SnapshotLimit, in levels
  ViewDepth,          \* LocalOrderBookConfig.ViewDepth, in levels
  FirstId,            \* bound: updates before the book is started
  MaxGeneration,      \* bound: connections
  MaxLost             \* bound: events lost on a connection

ASSUME DepthAssumption ==
  /\ Venues \subseteq {"binance", "usdm", "mexc"}
  /\ MaxBufferedEvents \in Nat \ {0}
  /\ SnapshotLimit \in Nat \ {0} /\ ViewDepth \in 1..SnapshotLimit
  /\ FirstId \in 1..MaxId
  /\ MaxGeneration \in Nat \ {0} /\ MaxLost \in Nat

VARIABLES
  venue,
  latest,     \* the exchange's last update id
  conn, pos,  \* the session: generation, and last update id it has sent
  lost,       \* events lost so far
  inputs,     \* channel from the stream's handler to runInputs
  streamDone, \* market.Run has returned
  buffer,     \* runInputs: deltas kept for synchronisation
  generation, \* runInputs: currentGeneration
  state,      \* runInputs: the synchronised book, or NoBook
  pending,    \* runInputs: last update id of pendingSnapshot, 0 if there is none
  fetch,      \* the snapshot goroutine and snapshotResults
  retry,      \* the retry timer is set
  syncID, gapCount,
  view,       \* the last view handed to the handler
  run         \* "running" until runInputs returns

streamVars == <<venue, latest, conn, pos, lost, inputs, streamDone>>
bookVars == <<buffer, generation, state, pending, retry, syncID, gapCount>>
depthVars == <<streamVars, bookVars, fetch, view, run>>
-----------------------------------------------------------------------------
(* Books. *)

\* The levels of a delta: what its updates leave of each price they set.
Delta(e) == [p \in Touched(e.first, e.final) |-> Quantity(ExchangeBook(e.final), p)]

NoBook == [last |-> 0, levels |-> <<>>]

\* newLocalDepthState: the book of a snapshot, which has SnapshotLimit levels.
FromSnapshot(id) == [last |-> id, levels |-> Top(ExchangeBook(id), SnapshotLimit)]
-----------------------------------------------------------------------------
(* How update ids join, per exchange. *)

\* A buffered delta that the snapshot already contains.
SpotStale(e, id) == e.final <= id
UsdmStale(e, id) == e.final < id
MexcStale(e, id) == e.final < id

\* The first delta that is left continues the snapshot.
SpotBridges(e, id) == e.first <= id + 1
UsdmBridges(e, id) == e.first <= id /\ e.final >= id
MexcBridges(e, id) == e.first <= id /\ e.final >= id

\* What apply makes of a delta on a book whose last update is id.
SpotApply(e, id) ==
  CASE e.final <= id -> "skip" [] e.final > id /\ e.first > id + 1 -> "gap" [] OTHER -> "apply"
UsdmApply(e, id) ==
  CASE e.final <= id -> "skip" [] e.final > id /\ e.prev # id -> "gap" [] OTHER -> "apply"
MexcApply(e, id) == IF e.first # id + 1 THEN "gap" ELSE "apply"

Stale(e, id) ==
  CASE venue = "binance" -> SpotStale(e, id)
    [] venue = "usdm" -> UsdmStale(e, id)
    [] venue = "mexc" -> MexcStale(e, id)

\* Mutant: the snapshot may be older than the first delta.
BridgesAnything(e, id) == TRUE

Bridges(e, id) ==
  CASE venue = "binance" -> SpotBridges(e, id)
    [] venue = "usdm" -> UsdmBridges(e, id)
    [] venue = "mexc" -> MexcBridges(e, id)

Verdict(e, id) ==
  CASE venue = "binance" -> SpotApply(e, id)
    [] venue = "usdm" -> UsdmApply(e, id)
    [] venue = "mexc" -> MexcApply(e, id)

\* The book after a delta.
Applied(b, e) == [last |-> e.final, levels |-> ApplyLevels(b.levels, Delta(e))]

\* apply for the i-th delta of a sequence; gap is the index of the first one that does
\* not fit, 0 while there is none.
Follow(acc, e, i) ==
  IF acc.gap # 0 THEN acc
  ELSE CASE Verdict(e, acc.book.last) = "apply" -> [book |-> Applied(acc.book, e), gap |-> 0]
         [] Verdict(e, acc.book.last) = "skip" -> acc
         [] Verdict(e, acc.book.last) = "gap" -> [book |-> acc.book, gap |-> i]

\* The candidate book from a snapshot and the deltas that follow it: the first one
\* bridges, the others follow.
Candidate(id, events) ==
  LET after[i \in 1..Len(events)] ==
        IF i = 1 THEN [book |-> Applied(FromSnapshot(id), events[1]), gap |-> 0]
        ELSE Follow(after[i - 1], events[i], i)
  IN after[Len(events)]
-----------------------------------------------------------------------------
(* The event loop of runInputs. *)

Running == run = "running"
Fetching == fetch.state # "none"
NotFetching == [state |-> "none", id |-> 0]

\* publish: the handler gets the view; it may fail, which ends Run.
Publish(b, g, s, gaps) ==
  /\ view' = [generation |-> g, sync |-> s, gaps |-> gaps, last |-> b.last,
              levels |-> Top(b.levels, ViewDepth)]
  /\ run' \in {"running", "returned"}

\* startSnapshot, unless one is being fetched.
StartSnapshot == IF Fetching THEN UNCHANGED fetch ELSE fetch' = [state |-> "loading", id |-> 0]

\* Mutant: a snapshot that does not fit is kept.
GiveUpSnapshotKeepsIt(id) == pending' = id /\ retry' = TRUE

\* Mutant: nobody comes back to the synchronisation.
GiveUpSnapshotForGood(id) == pending' = 0 /\ UNCHANGED retry

\* The snapshot does not fit: another one is fetched after the retry interval.
GiveUpSnapshot(id) == pending' = 0 /\ retry' = TRUE

\* Mutant: a resynchronised book passes for the one before.
NextSyncUnchanged == syncID

\* The SynchronizationID of the next synchronisation.
NextSync == syncID + 1

\* trySynchronize with snapshot id and buffered deltas.
TrySynchronize(id, events, g, gaps) ==
  LET stale == {i \in DOMAIN events : ~Stale(events[i], id)}
      left == IF stale = {} THEN <<>> ELSE SubSeq(events, Min(stale), Len(events))
      c == Candidate(id, left)
  IN CASE left = <<>> ->
            /\ buffer' = <<>>
            /\ pending' = id
            /\ UNCHANGED <<state, retry, syncID, view, run>>
            /\ gapCount' = gaps
       [] left # <<>> /\ ~Bridges(Head(left), id) ->
            /\ buffer' = left
            /\ GiveUpSnapshot(id)
            /\ gapCount' = gaps
            /\ UNCHANGED <<state, syncID, view, run>>
       [] left # <<>> /\ Bridges(Head(left), id) /\ c.gap # 0 ->
            /\ buffer' = SubSeq(left, c.gap, Len(left))
            /\ GiveUpSnapshot(id)
            /\ gapCount' = gaps + 1
            /\ UNCHANGED <<state, syncID, view, run>>
       [] OTHER ->
            /\ buffer' = <<>>
            /\ pending' = 0
            /\ state' = c.book
            /\ syncID' = NextSync
            /\ gapCount' = gaps
            /\ UNCHANGED retry
            /\ Publish(c.book, g, NextSync, gaps)

\* The retry timer fires.
RetryFires ==
  /\ Running /\ retry
  /\ retry' = FALSE
  /\ StartSnapshot
  /\ UNCHANGED <<streamVars, buffer, generation, state, pending, syncID, gapCount, view, run>>

\* The snapshot request failed.
SnapshotFailed ==
  /\ Running /\ fetch.state = "failed"
  /\ fetch' = NotFetching
  /\ retry' = TRUE
  /\ UNCHANGED <<streamVars, buffer, generation, state, pending, syncID, gapCount, view, run>>

\* A snapshot arrives.
SnapshotLoaded ==
  /\ Running /\ fetch.state = "loaded"
  /\ fetch' = NotFetching
  /\ TrySynchronize(fetch.id, buffer, generation, gapCount)
  /\ UNCHANGED <<streamVars, generation>>

\* A delta of a newer connection.
NewGeneration(input) == generation = 0 \/ input.generation > generation

\* A delta for a synchronised book.
ApplyInput(input) ==
  LET what == Verdict(input, state.last)
      b == Applied(state, input)
  IN /\ inputs' = Tail(inputs)
     /\ CASE what = "skip" -> UNCHANGED <<bookVars, fetch, view, run>>
          [] what = "gap" ->
               /\ gapCount' = gapCount + 1
               /\ state' = NoBook
               /\ pending' = 0
               /\ buffer' = <<input>>
               /\ StartSnapshot
               /\ retry' = (Fetching /\ retry)
               /\ UNCHANGED <<generation, syncID, view, run>>
          [] what = "apply" ->
               /\ state' = b
               /\ Publish(b, generation, syncID, gapCount)
               /\ UNCHANGED <<buffer, generation, pending, fetch, retry, syncID, gapCount>>

\* Nothing is under way that will bring a snapshot.
Idle(fetching) == state' = NoBook /\ pending' = 0 /\ ~fetching /\ ~retry'

\* Mutant: the limit is off by one.
OverflowsLate(events) == Len(events) > MaxBufferedEvents + 1

\* More deltas than the buffer may hold.
Overflows(events) == Len(events) > MaxBufferedEvents

\* A delta to be buffered: kept holds the deltas of its connection so far, id the
\* snapshot that waits for one.
BufferInput(input, kept, id) ==
  /\ inputs' = Tail(inputs)
  /\ generation' = input.generation
  /\ LET events == Append(kept, input)
     IN CASE Overflows(events) ->
               /\ run' = "returned"
               /\ buffer' = events /\ pending' = id
               /\ state' = NoBook
               /\ UNCHANGED <<retry, syncID, gapCount, view, fetch>>
          [] ~Overflows(events) /\ id # 0 ->
               /\ TrySynchronize(id, events, input.generation, gapCount)
               /\ IF run' = "running" /\ Idle(Fetching) THEN StartSnapshot ELSE UNCHANGED fetch
          [] OTHER ->
               /\ buffer' = events /\ pending' = 0
               /\ state' = NoBook
               /\ UNCHANGED <<retry, syncID, gapCount, view, run>>
               /\ IF Idle(Fetching) THEN StartSnapshot ELSE UNCHANGED fetch

\* runInputs receives a delta; one of an older connection is dropped.
HandleInput ==
  /\ Running /\ inputs # <<>>
  /\ LET input == Head(inputs)
     IN IF NewGeneration(input) THEN BufferInput(input, <<>>, 0)
        ELSE IF input.generation < generation
        THEN inputs' = Tail(inputs) /\ UNCHANGED <<bookVars, fetch, view, run>>
        ELSE IF state # NoBook THEN ApplyInput(input)
        ELSE BufferInput(input, buffer, pending)
  /\ UNCHANGED <<venue, latest, conn, pos, lost, streamDone>>

\* The stream or the context has ended.
Leave ==
  /\ Running
  /\ run' = "returned"
  /\ UNCHANGED <<streamVars, bookVars, fetch, view>>
-----------------------------------------------------------------------------
(* The snapshot goroutine, the stream and the exchange. *)

\* loadSnapshot returns the book at some update, which may be an old one.
LoadSnapshot(id) ==
  /\ Running /\ fetch.state = "loading"
  /\ fetch' = [state |-> "loaded", id |-> id]
  /\ UNCHANGED <<streamVars, bookVars, view, run>>

LoadFails ==
  /\ Running /\ fetch.state = "loading"
  /\ fetch' = [state |-> "failed", id |-> 0]
  /\ UNCHANGED <<streamVars, bookVars, view, run>>

\* The exchange's book changes.
Update ==
  /\ latest < MaxId
  /\ latest' = latest + 1
  /\ UNCHANGED <<venue, conn, pos, lost, inputs, streamDone, bookVars, fetch, view, run>>

\* The handler of the stream: a delta with the updates pos+1..n goes to the channel, or
\* ends the stream when the channel is full.
Deliver(n) ==
  /\ Running /\ ~streamDone /\ conn # 0
  /\ pos' = n
  /\ IF Len(inputs) < MaxBufferedEvents
     THEN /\ inputs' = Append(inputs, [generation |-> conn, first |-> pos + 1, final |-> n, prev |-> pos])
          /\ UNCHANGED streamDone
     ELSE streamDone' = TRUE /\ UNCHANGED inputs
  /\ UNCHANGED <<venue, latest, conn, lost, bookVars, fetch, view, run>>

\* A delta never arrives.
Lose(n) ==
  /\ Running /\ ~streamDone /\ conn # 0 /\ lost < MaxLost
  /\ pos' = n
  /\ lost' = lost + 1
  /\ UNCHANGED <<venue, latest, conn, inputs, streamDone, bookVars, fetch, view, run>>

\* The session connects, or connects anew: deltas begin with the next update.
Connect ==
  /\ Running /\ ~streamDone /\ conn < MaxGeneration
  /\ conn' = conn + 1
  /\ pos' = latest
  /\ UNCHANGED <<venue, latest, lost, inputs, streamDone, bookVars, fetch, view, run>>

DepthInit ==
  /\ venue \in Venues
  /\ latest = FirstId
  /\ conn = 0 /\ pos = 0 /\ lost = 0 /\ inputs = <<>> /\ streamDone = FALSE
  /\ buffer = <<>> /\ generation = 0 /\ state = NoBook /\ pending = 0
  /\ fetch = NotFetching /\ retry = FALSE
  /\ syncID = 0 /\ gapCount = 0
  /\ view = [generation |-> 0, sync |-> 0, gaps |-> 0, last |-> 0, levels |-> <<>>]
  /\ run = "running"

Returned == ~Running /\ UNCHANGED depthVars
Quiet == latest = MaxId /\ pos = latest /\ inputs = <<>> /\ UNCHANGED depthVars

LoopStep == RetryFires \/ SnapshotFailed \/ SnapshotLoaded \/ HandleInput

DepthNext ==
  \/ LoopStep \/ Leave
  \/ LoadFails \/ \E id \in 1..latest : LoadSnapshot(id)
  \/ Update \/ \E n \in pos + 1..latest : Deliver(n) \/ Lose(n)
  \/ Connect
  \/ Returned \/ Quiet

DepthSpec == DepthInit /\ [][DepthNext]_depthVars

\* SnapshotFailed or SnapshotLoaded, and HandleInput, told by what they take.
Answers == Running /\ fetch.state \in {"failed", "loaded"} /\ fetch' = NotFetching
Receives == Running /\ inputs # <<>> /\ inputs' = Tail(inputs)

\* The loop and the session run, requests and timers end, deltas that exist are
\* delivered, and a snapshot that is asked for again and again is fresh some time.
DepthFairSpec ==
  /\ DepthSpec
  /\ WF_retry(RetryFires)
  /\ WF_fetch(Answers)
  /\ WF_inputs(Receives)
  /\ WF_pos(\E n \in pos + 1..latest : Deliver(n))
  /\ WF_fetch(LoadFails \/ \E id \in 1..latest : LoadSnapshot(id))
  /\ SF_fetch(LoadSnapshot(latest))
-----------------------------------------------------------------------------
(* Properties. *)

Events == [generation : Nat, first : Nat, final : Nat, prev : Nat]

\* A delta that was delivered on one of g connections, up to update n; its updates follow
\* its predecessor's.
Delivered(e, g, n) ==
  e.generation \in 1..g /\ e.first = e.prev + 1 /\ e.first <= e.final /\ e.final <= n

StreamTypeOK ==
  /\ venue \in Venues
  /\ latest \in FirstId..MaxId /\ conn \in 0..MaxGeneration /\ pos \in 0..latest
  /\ lost \in 0..MaxLost /\ streamDone \in BOOLEAN
  /\ inputs \in Seq(Events) /\ Len(inputs) <= MaxBufferedEvents
  /\ \A i \in 1..Len(inputs) : Delivered(inputs[i], conn, pos)

LoopTypeOK ==
  /\ buffer \in Seq(Events)
  /\ Running => Len(buffer) <= MaxBufferedEvents
  /\ \A i \in 1..Len(buffer) : Delivered(buffer[i], conn, pos)
  /\ generation \in 0..conn
  /\ state.last \in 0..pos
  /\ pending \in 0..latest
  /\ fetch.state \in {"none", "loading", "loaded", "failed"} /\ fetch.id \in 0..latest
  /\ retry \in BOOLEAN
  /\ syncID \in Nat /\ gapCount \in Nat
  /\ run \in {"running", "returned"}

DepthTypeOK == StreamTypeOK /\ LoopTypeOK

\* The snapshots hold all levels there are.
Untruncated == Cardinality({Change[i].price : i \in DOMAIN Change}) <= SnapshotLimit

\* The local book is the exchange's book at the update id it claims, whatever the
\* order of snapshots, deltas, losses and reconnects; a book that began with a
\* truncated snapshot may lack levels, but has none that is wrong.
BookIsExchangeBook ==
  state # NoBook =>
    LET book == ExchangeBook(state.last)
    IN /\ DOMAIN state.levels \subseteq DOMAIN book
       /\ \A p \in DOMAIN state.levels : state.levels[p] = book[p]
       /\ Untruncated => state.levels = book

\* Once a delta has been seen, exactly one thing keeps the loop going: a synchronised
\* book, a snapshot waiting for its delta, a snapshot request, or the retry timer.
\* None would leave the book unsynchronised for ever; two would let an old snapshot
\* replace a newer book.
Drivers == {"book", "snapshot", "request", "timer"}
Drives(d) ==
  CASE d = "book" -> state # NoBook
    [] d = "snapshot" -> pending # 0
    [] d = "request" -> Fetching
    [] d = "timer" -> retry
OneDriver ==
  Running /\ generation # 0 =>
    \E d \in Drivers : Drives(d) /\ \A other \in Drivers \ {d} : ~Drives(other)

\* The loop is within its bounds and is driven by exactly one thing.
LoopIsDriven == DepthTypeOK /\ OneDriver

\* Views only move forward in update ids, across gaps and reconnects too, and views
\* with one SynchronizationID come from one connection and have no gap between them.
ViewsAdvance ==
  [][view' # view =>
       /\ view'.last > view.last
       /\ view'.sync = view.sync =>
            view'.generation = view.generation /\ view'.gaps = view.gaps]_depthVars

\* A book that has seen a delta gets synchronised, unless the market falls silent
\* first, Run returns, or the stream has ended.
Synchronizes ==
  generation # 0 ~>
    \/ state # NoBook \/ ~Running \/ streamDone
    \/ pending # 0 /\ buffer = <<>> /\ inputs = <<>> /\ pos = latest
=============================================================================
