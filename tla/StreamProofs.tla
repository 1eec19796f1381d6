---------------------------- MODULE StreamProofs ----------------------------
(***************************************************************************)
(* Proofs about StreamBook, for every history of the exchange, every depth *)
(* of the channel, every number of connections and every fault.            *)
(***************************************************************************)
EXTENDS StreamBook, SharedFacts

(* Books and the updates between them. *)

Events == [type : {"snapshot", "update", "refresh"}, first : Nat, final : 1..MaxId, n : Nat]
Messages == [kind : {"data", "refused", "notice", "malformed", "other"}, events : Seq(Events)]
Feeds == [snapshot : {"none", "sent", "lost"}, pos : 0..MaxId, n : Nat, recent : Seq(Messages),
          asked : Nat]

\* The book is of the exchange, as far as the venue lets the SDK verify it.
RightBook(b) ==
  /\ b.last \in 0..MaxId /\ b.n \in Nat /\ b.bridged \in BOOLEAN
  /\ DOMAIN b.levels \subseteq Prices
  /\ Cardinality(DOMAIN b.levels) <= Limit
  /\ b # NoBook => b.last # 0 /\ Verified(b.levels) = Verified(ChannelBook(b.last))

\* Levels that are cut too late: the channel's book, and worse levels of the exchange's.
Loose(levels, n) ==
  /\ DOMAIN levels \subseteq DOMAIN ExchangeBook(n)
  /\ \A p \in DOMAIN ChannelBook(n) : p \in DOMAIN levels /\ levels[p] = ExchangeBook(n)[p]

LEMMA LimitType == Limit \in Nat /\ MaxId \in Nat
<1>1. MaxId \in Nat
  BY ChangeAssumption DEF MaxId
<1>2. QED
  BY <1>1, StreamBookAssumption DEF Limit

\* The channel's book is the best part of the exchange's.
LEMMA ChannelBookFacts ==
  ASSUME NEW n \in 0..MaxId
  PROVE  /\ DOMAIN ExchangeBook(n) \subseteq Prices
         /\ DOMAIN ChannelBook(n) = Best(DOMAIN ExchangeBook(n), Limit)
         /\ DOMAIN ChannelBook(n) \subseteq DOMAIN ExchangeBook(n)
         /\ \A p \in DOMAIN ChannelBook(n) : ChannelBook(n)[p] = ExchangeBook(n)[p]
         /\ ChannelBook(n) = [p \in DOMAIN ChannelBook(n) |-> ExchangeBook(n)[p]]
         /\ Cardinality(DOMAIN ChannelBook(n)) <= Limit
         /\ venue \in Unbounded => DOMAIN ChannelBook(n) = DOMAIN ExchangeBook(n)
<1> DEFINE now == ExchangeBook(n)
           D == DOMAIN now
<1>1. D \in SUBSET Prices
  BY BookPrices
<1>2. /\ ChannelBook(n) = [p \in Best(D, Limit) |-> now[p]]
      /\ DOMAIN ChannelBook(n) = Best(D, Limit)
      /\ Best(D, Limit) \subseteq D
  BY TopIsBest DEF ChannelBook
<1> HIDE DEF now, D
<1>3. IsFiniteSet(D) /\ D \subseteq Nat /\ Cardinality(D) <= Cardinality(Prices) /\ Cardinality(D) \in Nat
  BY <1>1, PricesAreFinite, FS_Subset, FS_CardinalityType
<1>4. Cardinality(Best(D, Limit)) <= Limit
  BY <1>3, LimitType, BestAreFew
<1>5. venue \in Unbounded => Best(D, Limit) = D
  <2>1. SUFFICES ASSUME venue \in Unbounded PROVE Best(D, Limit) = D
    OBVIOUS
  <2>2. Limit = MaxId
    BY <2>1 DEF Limit
  <2>3. Cardinality(D) <= Limit
    BY <1>3, <2>2, PricesAreFinite, LimitType
  <2>4. QED
    BY <1>3, <2>3, LimitType, FewAreBest
<1>6. QED
  BY <1>1, <1>2, <1>4, <1>5 DEF now, D

\* What an update carries.
LEMMA DeltaFacts ==
  ASSUME NEW e, e.first \in Nat \ {0}, e.final \in 0..MaxId
  PROVE  /\ \A p \in DOMAIN Delta(e) : Delta(e)[p] = Quantity(ExchangeBook(e.final), p)
         /\ \A p : p \in DOMAIN Delta(e) <=>
              \/ /\ p \in DOMAIN ChannelBook(e.final)
                 /\ \E i \in e.first - 1..e.final : p \notin DOMAIN ChannelBook(i)
              \/ /\ p \in Touched(e.first, e.final)
                 /\ p \in DOMAIN ChannelBook(e.final) \/ p \notin DOMAIN ExchangeBook(e.final)
         /\ DOMAIN Delta(e) \subseteq Prices
<1>1. \A p : p \in DOMAIN Delta(e) <=>
              \/ /\ p \in DOMAIN ChannelBook(e.final)
                 /\ \E i \in e.first - 1..e.final : p \notin DOMAIN ChannelBook(i)
              \/ /\ p \in Touched(e.first, e.final)
                 /\ p \in DOMAIN ChannelBook(e.final) \/ p \notin DOMAIN ExchangeBook(e.final)
  BY Zenon DEF Delta
<1>2. \A p \in DOMAIN Delta(e) : Delta(e)[p] = Quantity(ExchangeBook(e.final), p)
  BY Zenon DEF Delta
<1>3. DOMAIN ChannelBook(e.final) \subseteq Prices
  BY ChannelBookFacts
<1>4. Touched(e.first, e.final) \subseteq Prices
  <2>1. MaxId \in Nat /\ DOMAIN Change = 1..MaxId
    BY ChangeAssumption DEF MaxId
  <2>2. QED
    BY <2>1 DEF Touched, Prices
<1>5. QED
  BY <1>1, <1>2, <1>3, <1>4

\* An update that begins at or before the update after the book's, and does not end
\* before the book, takes the book to its end.
LEMMA DeltaIsSound ==
  ASSUME NEW e, e.first \in Nat \ {0}, e.final \in 0..MaxId,
         NEW levels, NEW m \in 0..MaxId, Loose(levels, m), e.first <= m + 1, m <= e.final
  PROVE  Loose(ApplyLevels(levels, Delta(e)), e.final)
<1> DEFINE n == e.final
           after(p) == IF p \in DOMAIN Delta(e) THEN Delta(e)[p] ELSE levels[p]
           new == ApplyLevels(levels, Delta(e))
<1>1. /\ DOMAIN new = {q \in DOMAIN levels \cup DOMAIN Delta(e) : after(q) # 0}
      /\ \A p \in DOMAIN new : new[p] = after(p)
  BY DEF ApplyLevels
<1>2. /\ \A p \in DOMAIN Delta(e) : Delta(e)[p] = Quantity(ExchangeBook(n), p)
      /\ \A p : p \in DOMAIN Delta(e) <=>
           \/ /\ p \in DOMAIN ChannelBook(n)
              /\ \E i \in e.first - 1..n : p \notin DOMAIN ChannelBook(i)
           \/ /\ p \in Touched(e.first, n)
              /\ p \in DOMAIN ChannelBook(n) \/ p \notin DOMAIN ExchangeBook(n)
  BY DeltaFacts
<1>3. \A p : p \notin Touched(e.first, n) =>
        /\ p \in DOMAIN ExchangeBook(m) <=> p \in DOMAIN ExchangeBook(n)
        /\ p \in DOMAIN ExchangeBook(m) => ExchangeBook(m)[p] = ExchangeBook(n)[p]
  BY Untouched
<1>4. /\ DOMAIN levels \subseteq DOMAIN ExchangeBook(m)
      /\ \A p \in DOMAIN ChannelBook(m) : p \in DOMAIN levels /\ levels[p] = ExchangeBook(m)[p]
  BY DEF Loose
<1>5. \A p \in DOMAIN ExchangeBook(n) : ExchangeBook(n)[p] # 0
  BY NoEmptyLevel
<1>6. /\ DOMAIN ChannelBook(n) \subseteq DOMAIN ExchangeBook(n)
      /\ DOMAIN ChannelBook(m) \subseteq DOMAIN ExchangeBook(m)
  BY ChannelBookFacts
<1>7. m \in e.first - 1..n
  OBVIOUS
<1> HIDE DEF n, new
<1>8. ASSUME NEW p \in DOMAIN new PROVE p \in DOMAIN ExchangeBook(n)
  <2>1. CASE p \in DOMAIN Delta(e)
    BY <1>1, <1>2, <2>1 DEF Quantity
  <2>2. CASE p \notin DOMAIN Delta(e)
    BY <1>1, <1>2, <1>3, <1>4, <2>2
  <2>3. QED
    BY <2>1, <2>2
<1>9. ASSUME NEW p \in DOMAIN ChannelBook(n)
      PROVE  p \in DOMAIN new /\ new[p] = ExchangeBook(n)[p]
  <2>1. p \in DOMAIN ExchangeBook(n) /\ ExchangeBook(n)[p] # 0
    BY <1>5, <1>6
  <2>2. CASE p \in DOMAIN Delta(e)
    <3>1. after(p) = ExchangeBook(n)[p]
      BY <1>2, <2>1, <2>2 DEF Quantity
    <3>2. QED
      BY <1>1, <2>1, <2>2, <3>1
  <2>3. CASE p \notin DOMAIN Delta(e)
    <3>1. p \notin Touched(e.first, n) /\ p \in DOMAIN ChannelBook(m)
      BY <1>2, <1>7, <2>3
    <3>2. p \in DOMAIN levels /\ levels[p] = ExchangeBook(n)[p]
      BY <1>3, <1>4, <1>6, <3>1
    <3>3. QED
      BY <1>1, <2>1, <2>3, <3>2
  <2>4. QED
    BY <2>2, <2>3
<1>10. QED
  BY <1>8, <1>9 DEF Loose, new, n

\* Cut to the depth, they are the channel's book.
LEMMA PrunedIsChannel ==
  ASSUME NEW n \in 0..MaxId, NEW levels, Loose(levels, n),
         levels = [p \in DOMAIN levels |-> levels[p]]
  PROVE  Pruned(levels) = ChannelBook(n)
<1> DEFINE now == ExchangeBook(n)
           D == DOMAIN levels
<1>1. /\ D \subseteq DOMAIN now
      /\ \A p \in DOMAIN ChannelBook(n) : p \in D /\ levels[p] = now[p]
  BY DEF Loose
<1>2. /\ DOMAIN now \in SUBSET Prices
      /\ DOMAIN ChannelBook(n) = Best(DOMAIN now, Limit)
      /\ ChannelBook(n) = [p \in DOMAIN ChannelBook(n) |-> now[p]]
      /\ venue \in Unbounded => DOMAIN ChannelBook(n) = DOMAIN now
  BY ChannelBookFacts
<1> HIDE DEF now
<1>3. CASE venue \in Unbounded
  <2>1. Pruned(levels) = levels
    BY <1>3 DEF Pruned
  <2>2. DOMAIN ChannelBook(n) = D
    BY <1>1, <1>2, <1>3
  <2>3. QED
    BY <1>1, <1>2, <2>1, <2>2
<1>4. CASE venue \notin Unbounded
  <2>1. Pruned(levels) = Top(levels, Limit)
    BY <1>4 DEF Pruned, Limit
  <2>2. Top(levels, Limit) = [p \in Best(D, Limit) |-> levels[p]]
    BY TopIsBest
  <2>3. DOMAIN now \subseteq Nat /\ IsFiniteSet(DOMAIN now)
    BY <1>2, PricesAreFinite, FS_Subset
  <2> HIDE DEF D
  <2>4. Best(DOMAIN now, Limit) \subseteq D
    BY <1>1, <1>2
  <2>5. Best(D, Limit) = Best(DOMAIN now, Limit)
    BY <1>1, <2>3, <2>4, LimitType, BestOfBest
  <2>6. QED
    BY <1>1, <1>2, <2>1, <2>2, <2>5
<1>5. QED
  BY <1>3, <1>4

\* A book cut too late and pruned is right.
LEMMA LooseIsRight ==
  ASSUME NEW b, b.last \in 1..MaxId, b.n \in Nat, b.bridged \in BOOLEAN,
         b.levels = ChannelBook(b.last)
  PROVE  RightBook(b)
<1>1. b.last \in 0..MaxId
  OBVIOUS
<1>2. DOMAIN b.levels \subseteq Prices /\ Cardinality(DOMAIN b.levels) <= Limit
  BY <1>1, ChannelBookFacts
<1>3. Verified(b.levels) = Verified(ChannelBook(b.last))
  OBVIOUS
<1>4. QED
  BY <1>1, <1>2, <1>3, LimitType DEF RightBook

\* So is the book of a snapshot.
LEMMA SnapshotIsRight ==
  ASSUME NEW e, e.final \in 1..MaxId, e.n \in Nat
  PROVE  /\ RightBook(FromSnapshot(e)) /\ FromSnapshot(e) # NoBook
         /\ FromSnapshot(e).last = e.final /\ FromSnapshot(e).n = e.n
         /\ ~FromSnapshot(e).bridged
<1> DEFINE b == FromSnapshot(e)
<1>1. /\ b.last = e.final /\ b.n = e.n /\ b.bridged = FALSE
      /\ b.levels = ChannelBook(e.final)
  BY DEF FromSnapshot
<1>2. b # NoBook
  <2>1. NoBook.last = 0
    BY DEF NoBook
  <2>2. QED
    BY <1>1, <2>1
<1> HIDE DEF b
<1>3. RightBook(b)
  BY <1>1, LooseIsRight
<1>4. QED
  BY <1>1, <1>2, <1>3 DEF b

\* And the book after an update that follows it; with Kraken, if the checksum agrees.
LEMMA AppliedIsRight ==
  ASSUME NEW b, RightBook(b), NEW e \in Events, e.first # 0,
         IF venue = "kraken"
         THEN Checksum(Applied(b, e).levels) = Checksum(ChannelBook(e.final))
         ELSE b # NoBook /\ e.first <= b.last + 1 /\ b.last <= e.final
  PROVE  /\ RightBook(Applied(b, e)) /\ Applied(b, e) # NoBook
         /\ Applied(b, e).last = e.final /\ Applied(b, e).n = e.n
         /\ Applied(b, e).bridged
<1> DEFINE new == ApplyLevels(b.levels, Delta(e))
           c == Applied(b, e)
<1>1. /\ c.last = e.final /\ c.n = e.n /\ c.bridged = TRUE
      /\ c.levels = Pruned(new)
  BY DEF Applied
<1>2. e.first \in Nat \ {0} /\ e.final \in 1..MaxId /\ e.final \in 0..MaxId /\ e.n \in Nat
  BY DEF Events
<1>3. c # NoBook
  <2>1. NoBook.last = 0
    BY DEF NoBook
  <2>2. QED
    BY <1>1, <1>2, <2>1
<1>4. new = [p \in DOMAIN new |-> new[p]] /\ DOMAIN new \subseteq DOMAIN b.levels \cup DOMAIN Delta(e)
  BY DEF ApplyLevels
<1>5. CASE venue = "kraken"
  <2>1. DOMAIN new \subseteq Prices
    BY <1>2, <1>4, DeltaFacts DEF RightBook
  <2>2. c.levels = Top(new, Depth) /\ Limit = Depth /\ Depth \in Nat
    BY <1>1, <1>5, StreamBookAssumption DEF Pruned, Unbounded, Limit
  <2>3. DOMAIN c.levels = Best(DOMAIN new, Depth) /\ DOMAIN c.levels \subseteq DOMAIN new
    BY <2>2, TopIsBest
  <2>4. Verified(c.levels) = Verified(ChannelBook(c.last))
    BY <1>1, <1>5 DEF Verified
  <2> HIDE DEF new, c
  <2>5. DOMAIN new \in SUBSET Prices
    BY <2>1
  <2>6. IsFiniteSet(DOMAIN new) /\ DOMAIN new \subseteq Nat
    BY <2>5, PricesAreFinite, FS_Subset
  <2>7. Cardinality(DOMAIN c.levels) <= Limit
    BY <2>2, <2>3, <2>6, BestAreFew
  <2>8. DOMAIN c.levels \subseteq Prices
    BY <2>1, <2>3
  <2>9. RightBook(c)
    <3>1. c.last \in 0..MaxId /\ c.last # 0 /\ c.n \in Nat
      BY <1>1, <1>2
    <3>2. c.bridged \in BOOLEAN
      BY <1>1, Zenon
    <3>3. QED
      BY <2>4, <2>7, <2>8, <3>1, <3>2 DEF RightBook
  <2>10. QED
    BY <1>1, <1>3, <2>9 DEF c
<1>6. CASE venue # "kraken"
  <2>1. b.last \in 0..MaxId /\ b # NoBook /\ e.first <= b.last + 1 /\ b.last <= e.final
    BY <1>6 DEF RightBook
  <2>2. b.levels = ChannelBook(b.last)
    BY <1>6, <2>1 DEF RightBook, Verified
  <2>3. Loose(b.levels, b.last)
    BY <2>1, <2>2, ChannelBookFacts DEF Loose
  <2>4. Loose(new, e.final)
    BY <1>2, <2>1, <2>3, DeltaIsSound
  <2> HIDE DEF new, c
  <2>5. c.levels = ChannelBook(c.last)
    BY <1>1, <1>2, <1>4, <2>4, PrunedIsChannel
  <2>6. RightBook(c)
    BY <1>1, <1>2, <2>5, LooseIsRight
  <2>7. QED
    BY <1>1, <1>3, <2>6 DEF c
<1>7. QED
  BY <1>5, <1>6

-----------------------------------------------------------------------------
(* What the processors make of an event. *)

\* The number of a message, and the update it ends with.
Number(m) == m.events[1].n
Kind(m) == m.events[1].type
End(m) == m.events[Len(m.events)].final

\* The update its first event ends with.
First(m) == m.events[1].final

\* What the venue's channel can carry.
GoodEvent(v, top, e) ==
  /\ e.final <= top
  /\ e.type = "update" => e.first \in 1..e.final + 1 /\ v \notin FullBook
  /\ e.type = "update" /\ v = "krakenFutures" => e.first = e.final
  /\ e.type = "refresh" => v = "htx"
  /\ v = "htx" => e.type # "snapshot"

GoodMessage(v, top, m) ==
  /\ m.events # <<>> /\ (Len(m.events) = 1 \/ v \in Batching)
  /\ \A i \in DOMAIN m.events :
       /\ GoodEvent(v, top, m.events[i])
       /\ m.events[i].n = Number(m)
       /\ i # 1 /\ m.events[i].type = "update" => m.events[i].first = m.events[i - 1].final + 1
       /\ Len(m.events) # 1 /\ v \notin FullBook => m.events[i].type = "update"
       /\ \A k \in DOMAIN m.events : i <= k => m.events[i].final <= m.events[k].final

\* Where messages have numbers, the next number has the next updates.
Numbered == {"bybit", "coinbase"}
Chain(n, last, m) == Number(m) = n + 1 /\ Kind(m) = "update" => m.events[1].first = last + 1

\* The venues whose processor itself sees that the book does not go back.
Comparing == Overlapping \cup {"korbit", "coinone"}

\* The venues whose processor sees it of each update of a message.
Chained == {"okx", "cryptocom"}

\* An update is applied only to a book it follows; and where one connection may
\* bring an older book, only what is newer is taken.
LEMMA VerdictFacts ==
  ASSUME venue \in Venues, venue # "htx", latest \in 0..MaxId,
         NEW b, RightBook(b), NEW e \in Events, GoodEvent(venue, latest, e),
         venue \in Numbered /\ b # NoBook /\ e.type = "update" /\ (venue = "bybit" => e.n = b.n + 1)
           => e.first = b.last + 1
  PROVE  /\ Verdict(b, e) \in {"ignore", "gap", "snapshot", "apply"}
         /\ Verdict(b, e) = "apply" =>
              /\ e.type = "update" /\ e.first # 0 /\ b # NoBook
              /\ IF venue = "kraken"
                 THEN Checksum(Applied(b, e).levels) = Checksum(ChannelBook(e.final))
                 ELSE b # NoBook /\ e.first <= b.last + 1 /\ b.last <= e.final
         /\ Verdict(b, e) = "ignore" =>
              /\ b # NoBook /\ venue # "coinbase"
              /\ venue \in Batching => e.final = b.last
         /\ Verdict(b, e) = "gap" => venue \notin FullBook
         /\ Verdict(b, e) = "snapshot" => 
              /\ e.type = "snapshot"
              /\ venue \in {"korbit", "coinone"} /\ b # NoBook => b.last <= e.final
<1>1. /\ b.last \in Nat /\ b.n \in Nat /\ e.first \in Nat /\ e.final \in Nat /\ e.n \in Nat
      /\ e.type \in {"snapshot", "update", "refresh"}
  BY LimitType DEF RightBook, Events
<1>2. /\ e.type = "update" => e.first # 0 /\ e.first <= e.final + 1 /\ venue \notin FullBook
      /\ e.type = "update" /\ venue = "krakenFutures" => e.first = e.final
      /\ e.type # "refresh"
  BY DEF GoodEvent
<1>3. CASE venue \in {"okx", "okx5"}
  BY <1>1, <1>2, <1>3 DEF Verdict, OkxProcess, FullBook, Numbered, Batching
<1>4. CASE venue = "bybit"
  BY <1>1, <1>2, <1>4 DEF Verdict, BybitProcess, FullBook, Numbered, Batching
<1>5. CASE venue = "bitget"
  BY <1>1, <1>2, <1>5 DEF Verdict, BitgetProcess, FullBook, Numbered, Batching
<1>6. CASE venue = "coinbase"
  BY <1>1, <1>2, <1>6 DEF Verdict, CoinbaseProcess, FullBook, Numbered, Batching
<1>7. CASE venue = "kraken"
  BY <1>1, <1>2, <1>7 DEF Verdict, KrakenProcess, FullBook, Numbered, Batching
<1>8. CASE venue = "krakenFutures"
  BY <1>1, <1>2, <1>8 DEF Verdict, KrakenFuturesProcess, FullBook, Numbered, Batching
<1>9. CASE venue = "gateio"
  BY <1>1, <1>2, <1>9 DEF Verdict, GateioProcess, FullBook, Numbered, Batching
<1>10. CASE venue = "gateioFutures"
  BY <1>1, <1>2, <1>10 DEF Verdict, GateioFuturesProcess, FullBook, Numbered, Batching
<1>11. CASE venue = "kucoin"
  BY <1>1, <1>2, <1>11 DEF Verdict, KucoinProcess, FullBook, Numbered, Batching
<1>12. CASE venue = "kucoinFutures"
  BY <1>1, <1>2, <1>12 DEF Verdict, KucoinFuturesProcess, FullBook, Numbered, Batching
<1>13. CASE venue = "cryptocom"
  BY <1>1, <1>2, <1>13 DEF Verdict, CryptocomProcess, FullBook, Numbered, Batching
<1>14. CASE venue = "korbit"
  BY <1>1, <1>2, <1>14 DEF Verdict, KorbitProcess, FullBook, Numbered, Batching
<1>15. CASE venue = "coinone"
  BY <1>1, <1>2, <1>15 DEF Verdict, CoinoneProcess, FullBook, Numbered, Batching
<1>16. CASE venue = "upbit"
  BY <1>1, <1>2, <1>16 DEF Verdict, UpbitProcess, FullBook, Numbered, Batching
<1>17. CASE venue = "bithumb"
  BY <1>1, <1>2, <1>17 DEF Verdict, BithumbProcess, FullBook, Numbered, Batching
<1>18. QED
  BY <1>3, <1>4, <1>5, <1>6, <1>7, <1>8, <1>9, <1>10, <1>11, <1>12, <1>13, <1>14, <1>15,
     <1>16, <1>17, StreamBookAssumption DEF AllVenues

\* What is known after i events of the message m.
Handled(r, m, i) ==
  /\ r.out \in {"ignore", "publish", "reconnect"}
  /\ RightBook(r.book) /\ r.book.last <= latest
  /\ r.sync \in Nat /\ r.sync >= syncID
  /\ r.out = "ignore" => r.book = CurrentBook /\ r.sync = syncID /\ r.gaps = gapCount
  /\ r.out = "publish" =>
       /\ i # 0 /\ r.book # NoBook /\ r.gaps = gapCount
       /\ r.book.last = m.events[i].final /\ r.book.n = Number(m)
       /\ r.sync = syncID => CurrentBook # NoBook
       /\ venue \in Comparing /\ CurrentBook # NoBook /\ (venue \in Overlapping => Kind(m) = "update")
            => CurrentBook.last <= r.book.last
       /\ venue \in Overlapping /\ Kind(m) = "update" => CurrentBook # NoBook
       /\ i = 1 /\ venue \in Chained /\ Kind(m) = "update" =>
            CurrentBook # NoBook /\ CurrentBook.last <= r.book.last
  /\ r.out = "reconnect" =>
       r.book = NoBook /\ r.gaps = gapCount + 1 /\ venue \notin FullBook

\* The first event follows the book, where the processor does not look.
Linked(m) ==
  venue \in Numbered /\ CurrentBook # NoBook /\ Kind(m) = "update"
    /\ (venue = "bybit" => Number(m) = CurrentBook.n + 1)
    => m.events[1].first = CurrentBook.last + 1

NoBookIsRight == RightBook(NoBook) /\ NoBook.last = 0

\* A book without levels is right.
LEMMA NoBookFacts == NoBookIsRight
<1>1. NoBook.last = 0 /\ NoBook.n = 0 /\ NoBook.levels = <<>>
  BY DEF NoBook
<1>2. NoBook.bridged \in BOOLEAN
  BY Zenon DEF NoBook
<1>3. DOMAIN NoBook.levels = {}
  BY <1>1
<1>4. Cardinality(DOMAIN NoBook.levels) = 0
  BY <1>3, FS_EmptySet
<1>5. QED
  BY <1>1, <1>2, <1>3, <1>4, LimitType DEF RightBook, NoBookIsRight

LEMMA EventStep ==
  ASSUME venue \in Venues, venue # "htx", latest \in 0..MaxId, syncID \in Nat, gapCount \in Nat,
         RightBook(CurrentBook), CurrentBook.last <= latest,
         NEW m, m.events \in Seq(Events), GoodMessage(venue, latest, m), Linked(m),
         NEW i \in 0..(Len(m.events) - 1), NEW r, Handled(r, m, i),
         venue = "coinbase" /\ i # 0 => r.out # "ignore"
  PROVE  /\ Handled(OnEvent(r, m.events[i + 1]), m, i + 1)
         /\ venue = "coinbase" => OnEvent(r, m.events[i + 1]).out # "ignore"
<1> DEFINE e == m.events[i + 1]
           s == OnEvent(r, e)
           what == Verdict(r.book, e)
<1>1. Len(m.events) \in Nat /\ i + 1 \in 1..Len(m.events) /\ DOMAIN m.events = 1..Len(m.events) /\ i \in Nat
  OBVIOUS
<1>2. e \in Events
  <2> DEFINE E == Events
  <2>1. m.events \in Seq(E)
    OBVIOUS
  <2> HIDE DEF E
  <2>2. m.events[i + 1] \in E
    BY <1>1, <2>1
  <2>3. QED
    BY <2>2 DEF E
<1>3. /\ GoodEvent(venue, latest, e) /\ e.n = Number(m)
      /\ i + 1 # 1 /\ e.type = "update" => e.first = m.events[i].final + 1
      /\ Len(m.events) = 1 \/ venue \in Batching
      /\ i = 0 => e.type = Kind(m)
  <2>1. \A k \in DOMAIN m.events :
          /\ GoodEvent(venue, latest, m.events[k])
          /\ m.events[k].n = Number(m)
          /\ k # 1 /\ m.events[k].type = "update" => m.events[k].first = m.events[k - 1].final + 1
    BY DEF GoodMessage
  <2>2. (i + 1) - 1 = i
    BY <1>1
  <2>3. QED
    BY <1>1, <2>1, <2>2 DEF GoodMessage, Kind
<1>4. e.final \in 1..MaxId /\ e.n \in Nat /\ e.final <= latest /\ e.first \in Nat
  BY <1>2, <1>3 DEF Events, GoodEvent
<1>5. venue \notin Batching => i = 0
  BY <1>1, <1>3
<1>6. CASE r.out = "reconnect"
  <2>1. s = r
    BY <1>6 DEF OnEvent
  <2>2. QED
    BY <1>6, <2>1 DEF Handled
<1>7. CASE r.out # "reconnect"
  <2>1. r.out \in {"ignore", "publish"} /\ RightBook(r.book) /\ r.book.last <= latest
        /\ r.sync \in Nat /\ r.sync >= syncID /\ r.gaps = gapCount
    BY <1>7 DEF Handled
  <2>2. r.out = "ignore" => r.book = CurrentBook /\ r.sync = syncID
    BY DEF Handled
  <2>3. r.out = "publish" =>
          /\ i # 0 /\ r.book # NoBook /\ r.book.last = m.events[i].final /\ r.book.n = Number(m)
          /\ r.sync = syncID => CurrentBook # NoBook
    BY DEF Handled
  <2>4. venue \in Numbered /\ r.book # NoBook /\ e.type = "update" /\ (venue = "bybit" => e.n = r.book.n + 1)
          => e.first = r.book.last + 1
    <3>1. CASE i = 0
      BY <1>3, <2>1, <2>2, <2>3, <3>1 DEF Linked, Kind
    <3>2. CASE i # 0 /\ venue # "bybit"
      BY <1>1, <1>3, <2>1, <2>2, <2>3, <3>2 DEF Numbered
    <3>3. CASE i # 0 /\ venue = "bybit"
      BY <1>1, <1>3, <3>3 DEF Batching
    <3>4. QED
      BY <3>1, <3>2, <3>3
  <2>5. /\ what \in {"ignore", "gap", "snapshot", "apply"}
        /\ what = "apply" =>
              /\ e.type = "update" /\ e.first # 0 /\ r.book # NoBook
              /\ IF venue = "kraken"
                 THEN Checksum(Applied(r.book, e).levels) = Checksum(ChannelBook(e.final))
                 ELSE r.book # NoBook /\ e.first <= r.book.last + 1 /\ r.book.last <= e.final
        /\ what = "ignore" =>
              /\ r.book # NoBook /\ venue # "coinbase"
              /\ venue \in Batching => e.final = r.book.last
        /\ what = "gap" => venue \notin FullBook
        /\ what = "snapshot" =>
              /\ e.type = "snapshot"
              /\ venue \in {"korbit", "coinone"} /\ r.book # NoBook => r.book.last <= e.final
    BY <1>2, <1>3, <2>1, <2>4, VerdictFacts
  <2>6. s = CASE what = "ignore" -> r
              [] what = "gap" -> Gap(r)
              [] what = "snapshot" -> Result("publish", FromSnapshot(e), r.sync + 1, r.gaps)
              [] what = "apply" -> Result("publish", Applied(r.book, e), r.sync, r.gaps)
    BY <1>7 DEF OnEvent
  <2>7. venue \in Comparing => i = 0 /\ r.out = "ignore" /\ venue # "kraken"
    BY <1>5, <2>1, <2>3 DEF Comparing, Overlapping, Batching
  <2> HIDE DEF e, s, what
  <2>8. CASE what = "ignore"
    <3>1. s = r
      BY <2>6, <2>8
    <3>2. r.out = "publish" => r.book.last = e.final
      BY <1>5, <2>3, <2>5, <2>8
    <3>3. i + 1 # 0 /\ (r.out = "publish" => i + 1 # 1)
      BY <1>1, <2>3
    <3>4. QED
      BY <2>1, <2>5, <2>8, <3>1, <3>2, <3>3 DEF Handled, e, s
  <2>9. CASE what = "gap"
    <3>1. s = Gap(r)
      BY <2>6, <2>9
    <3>2. s.out = "reconnect" /\ s.book = NoBook /\ s.sync = r.sync /\ s.gaps = gapCount + 1
      BY <2>1, <3>1 DEF Gap, Result
    <3>3. RightBook(NoBook) /\ NoBook.last <= latest
      BY NoBookFacts DEF NoBookIsRight
    <3>4. QED
      BY <2>1, <2>5, <2>9, <3>2, <3>3 DEF Handled, e, s
  <2>10. CASE what = "snapshot"
    <3> DEFINE b == FromSnapshot(e)
    <3>1. s = Result("publish", b, r.sync + 1, r.gaps)
      BY <2>6, <2>10
    <3>2. RightBook(b) /\ b # NoBook /\ b.last = e.final /\ b.n = e.n
      BY <1>4, SnapshotIsRight
    <3> HIDE DEF b
    <3>3. s.out = "publish" /\ s.book = b /\ s.sync = r.sync + 1 /\ s.gaps = gapCount
      BY <2>1, <3>1 DEF Result
    <3>4. s.sync \in Nat /\ s.sync > syncID /\ i + 1 # 0
      BY <1>1, <2>1, <3>3
    <3>5. venue \in Comparing /\ CurrentBook # NoBook /\ (venue \in Overlapping => Kind(m) = "update")
            => CurrentBook.last <= b.last
      BY <1>3, <2>2, <2>5, <2>7, <2>10, <3>2 DEF Comparing
    <3>6. venue \in Overlapping \/ i + 1 = 1 => Kind(m) # "update"
      BY <1>1, <1>3, <2>2, <2>5, <2>7, <2>10 DEF Comparing, Kind, e
    <3>7. QED
      BY <1>3, <1>4, <3>2, <3>3, <3>4, <3>5, <3>6 DEF Handled, e, s
  <2>11. CASE what = "apply"
    <3> DEFINE b == Applied(r.book, e)
    <3>1. s = Result("publish", b, r.sync, r.gaps)
      BY <2>6, <2>11
    <3>2. RightBook(b) /\ b # NoBook /\ b.last = e.final /\ b.n = e.n
      BY <1>2, <2>1, <2>5, <2>11, AppliedIsRight DEF e
    <3> HIDE DEF b
    <3>3. s.out = "publish" /\ s.book = b /\ s.sync = r.sync /\ s.gaps = gapCount
      BY <2>1, <3>1 DEF Result
    <3>4. i + 1 # 0
      BY <1>1
    <3>5. venue \in Comparing => CurrentBook.last <= b.last
      BY <2>2, <2>5, <2>7, <2>11, <3>2
    <3>6. r.sync = syncID => CurrentBook # NoBook
      BY <2>1, <2>2, <2>3, <2>5, <2>11
    <3>7. venue \in Overlapping => CurrentBook # NoBook
      BY <2>2, <2>5, <2>7, <2>11 DEF Comparing
    <3>8. i + 1 = 1 /\ venue \in Chained => CurrentBook # NoBook /\ CurrentBook.last <= b.last
      <4>1. i + 1 = 1 => r.book = CurrentBook
        BY <1>1, <2>1, <2>2, <2>3
      <4>2. venue \in Chained => venue # "kraken"
        BY DEF Chained
      <4>3. QED
        BY <2>5, <2>11, <3>2, <4>1, <4>2
    <3>9. QED
      BY <1>3, <1>4, <2>1, <3>2, <3>3, <3>4, <3>5, <3>6, <3>7, <3>8 DEF Handled, e, s
  <2>12. QED
    BY <2>5, <2>8, <2>9, <2>10, <2>11
<1>8. QED
  BY <1>6, <1>7

\* What a message leads to.
LEMMA OutcomeFacts ==
  ASSUME venue \in Venues, venue # "htx", latest \in 0..MaxId, syncID \in Nat, gapCount \in Nat,
         RightBook(CurrentBook), CurrentBook.last <= latest,
         NEW m, m.events \in Seq(Events), GoodMessage(venue, latest, m),
         venue \in Numbered /\ CurrentBook # NoBook => Chain(CurrentBook.n, CurrentBook.last, m)
  PROVE  /\ Handled(Outcome(m), m, Len(m.events))
         /\ Dropped => Outcome(m).out = "ignore"
<1> DEFINE len == Len(m.events)
           start == Result("ignore", CurrentBook, syncID, gapCount)
           admits == IF venue = "coinbase" THEN CoinbaseAdmits(start.book, Head(m.events)) ELSE "process"
           Rec(f, n) == f = [i \in 0..n |-> IF i = 0 THEN start ELSE OnEvent(f[i - 1], m.events[i])]
           h == CHOOSE h : Rec(h, len)
           T == {n \in 0..len : ~ \E f : Rec(f, n)}
<1>1. len \in Nat \ {0}
  BY DEF GoodMessage
<1>2. Outcome(m) = CASE Dropped \/ admits = "ignore" -> start
                     [] ~Dropped /\ admits = "gap" -> Gap(start)
                     [] ~Dropped /\ admits = "process" -> h[len]
  BY Zenon DEF Outcome
<1>3. start.out = "ignore" /\ start.book = CurrentBook /\ start.sync = syncID /\ start.gaps = gapCount
  BY DEF Result
<1>4. T \subseteq 0..len /\ T \subseteq Nat /\ \A n \in 0..len : n \in T <=> ~ \E f : Rec(f, n)
  <2>1. T \subseteq 0..len /\ \A n \in 0..len : n \in T <=> ~ \E f : Rec(f, n)
    BY Zenon
  <2>2. 0..len \subseteq Nat
    OBVIOUS
  <2>3. QED
    BY <2>1, <2>2, Zenon
<1> HIDE DEF T, start, len
<1>5. T = {}
  <2>1. SUFFICES ASSUME T # {} PROVE FALSE
    OBVIOUS
  <2>2. PICK n \in T : \A k \in T : n <= k
    BY <1>4, <2>1, LeastNumber
  <2>3. n # 0
    <3> DEFINE z == [i \in 0..0 |-> start]
    <3>1. Rec(z, 0)
      OBVIOUS
    <3>2. 0 \in 0..len
      BY <1>1
    <3>3. QED
      BY <1>4, <3>1, <3>2
  <2>4. n - 1 \in 0..len /\ n - 1 \notin T /\ n \in 0..len /\ n \in Nat
    BY <1>1, <1>4, <2>2, <2>3
  <2>5. PICK f : Rec(f, n - 1)
    BY <1>4, <2>4
  <2> DEFINE g == [i \in 0..n |-> IF i = n THEN OnEvent(f[n - 1], m.events[n]) ELSE f[i]]
  <2>6. \A i \in 0..(n - 1) : f[i] = IF i = 0 THEN start ELSE OnEvent(f[i - 1], m.events[i])
    BY <2>5, Zenon
  <2>7. \A i \in 0..n : g[i] = IF i = 0 THEN start ELSE OnEvent(g[i - 1], m.events[i])
    BY <2>3, <2>4, <2>6
  <2>8. Rec(g, n)
    BY <2>7
  <2> HIDE DEF g, Rec
  <2>9. QED
    BY <1>4, <2>2, <2>4, <2>8
<1>6. \E f : Rec(f, len)
  <2>1. len \in 0..len /\ len \notin T
    BY <1>1, <1>5
  <2>2. QED
    BY <1>4, <2>1, Zenon
<1>7. Rec(h, len)
  BY <1>6, Zenon
<1> HIDE DEF h
<1>8. \A i \in 0..len : h[i] = IF i = 0 THEN start ELSE OnEvent(h[i - 1], m.events[i])
  BY <1>7, Zenon
<1> HIDE DEF Rec
<1>9. \A i : Handled(start, m, i)
  BY <1>3 DEF Handled
<1>10. Head(m.events) = m.events[1]
  BY <1>1 DEF len
<1>11. CASE Dropped \/ admits = "ignore"
  <2>1. Outcome(m) = start
    BY <1>2, <1>11
  <2>2. QED
    BY <1>3, <1>9, <2>1
<1>12. CASE ~Dropped /\ admits = "gap"
  <2>1. Outcome(m) = Gap(start)
    BY <1>2, <1>12
  <2>2. /\ Gap(start).out = "reconnect" /\ Gap(start).book = NoBook
        /\ Gap(start).sync = syncID /\ Gap(start).gaps = gapCount + 1
    BY <1>3 DEF Gap, Result
  <2>3. RightBook(NoBook) /\ NoBook.last <= latest
    BY NoBookFacts DEF NoBookIsRight
  <2>4. venue \notin FullBook
    BY <1>12 DEF FullBook
  <2>5. QED
    BY <1>12, <2>1, <2>2, <2>3, <2>4 DEF Handled
<1>13. CASE ~Dropped /\ admits = "process"
  <2>1. Outcome(m) = h[len]
    BY <1>2, <1>13
  <2>2. Linked(m)
    <3>1. venue = "coinbase" /\ CurrentBook # NoBook => Number(m) = CurrentBook.n + 1
      BY <1>3, <1>10, <1>13 DEF CoinbaseAdmits, Number
    <3>2. QED
      BY <3>1 DEF Linked, Chain, Numbered
  <2> DEFINE Fine(i) == Handled(h[i], m, i) /\ (venue = "coinbase" /\ i # 0 => h[i].out # "ignore")
             U == {i \in 0..len : ~Fine(i)}
  <2>3. U \subseteq 0..len /\ U \subseteq Nat /\ \A i \in 0..len : i \in U <=> ~Fine(i)
    BY <1>1
  <2> HIDE DEF U
  <2>4. U = {}
    <3>1. SUFFICES ASSUME U # {} PROVE FALSE
      OBVIOUS
    <3>2. PICK n \in U : \A k \in U : n <= k
      BY <2>3, <3>1, LeastNumber
    <3>3. n # 0
      BY <1>1, <1>8, <1>9, <2>3, <3>2
    <3>4. n - 1 \in 0..(len - 1) /\ n \in 0..len /\ n - 1 \in 0..len /\ n - 1 \notin U
          /\ (n - 1) + 1 = n
      BY <1>1, <2>3, <3>2, <3>3
    <3>5. Fine(n - 1)
      BY <2>3, <3>4
    <3>6. h[n] = OnEvent(h[n - 1], m.events[n])
      BY <1>8, <3>3, <3>4
    <3>7. Fine(n)
      <4> DEFINE i == n - 1
      <4>1. i \in 0..(Len(m.events) - 1) /\ Handled(h[i], m, i)
            /\ (venue = "coinbase" /\ i # 0 => h[i].out # "ignore") /\ i + 1 = n
        BY <3>4, <3>5 DEF len
      <4> HIDE DEF i
      <4>2. /\ Handled(OnEvent(h[i], m.events[i + 1]), m, i + 1)
            /\ venue = "coinbase" => OnEvent(h[i], m.events[i + 1]).out # "ignore"
        BY <2>2, <4>1, EventStep
      <4>3. QED
        BY <3>6, <4>1, <4>2 DEF i
    <3>8. QED
      BY <2>3, <3>2, <3>4, <3>7
  <2>5. Fine(len)
    BY <1>1, <2>3, <2>4
  <2>6. QED
    BY <1>13, <2>1, <2>5 DEF len
<1>14. admits \in {"ignore", "gap", "process"}
  BY DEF CoinbaseAdmits
<1>15. QED
  BY <1>11, <1>12, <1>13, <1>14

-----------------------------------------------------------------------------
(* What HTX's processor makes of an update or a snapshot. *)

\* Buffered updates that are in order take the snapshot to the last of them.
LEMMA ReplayedIsRight ==
  ASSUME latest \in 0..MaxId, NEW e, e.final \in 1..MaxId, NEW updates \in Seq(Events), updates # <<>>,
         \A i \in DOMAIN updates : updates[i].type = "update" /\ GoodEvent(venue, latest, updates[i]),
         MissingIn(updates, e.final) = 0
  PROVE  LET b == Replayed(e, updates)
         IN RightBook(b) /\ b # NoBook /\ b.bridged /\ b.last = updates[Len(updates)].final
<1> DEFINE len == Len(updates)
           b == Replayed(e, updates)
           last == updates[len]
           Rec(f, n) == f = [i \in 0..n |-> IF i = 0 THEN ChannelBook(e.final)
                                             ELSE ApplyLevels(f[i - 1], Delta(updates[i]))]
           h == CHOOSE h : Rec(h, len)
           T == {n \in 0..len : ~ \E f : Rec(f, n)}
           at(i) == IF i = 0 THEN e.final ELSE updates[i].final
<1>1. len \in Nat \ {0} /\ DOMAIN updates = 1..len
  OBVIOUS
<1>2. b = [last |-> last.final, n |-> last.n, bridged |-> TRUE, levels |-> Pruned(h[len])]
  BY Zenon DEF Replayed
<1>3. \A i \in 1..len : updates[i] \in Events
  <2> DEFINE E == Events
  <2>1. updates \in Seq(E)
    OBVIOUS
  <2> HIDE DEF E
  <2>2. \A i \in 1..len : updates[i] \in E
    BY <1>1, <2>1
  <2>3. QED
    BY <2>2 DEF E
<1>4. \A i \in 1..len : /\ updates[i].final \in 1..MaxId /\ updates[i].first \in Nat \ {0}
                         /\ updates[i].first <= updates[i].final + 1 /\ updates[i].n \in Nat
  <2>1. SUFFICES ASSUME NEW i \in 1..len, NEW u, u = updates[i]
                 PROVE  /\ u.final \in 1..MaxId /\ u.first \in Nat \ {0}
                        /\ u.first <= u.final + 1 /\ u.n \in Nat
    OBVIOUS
  <2>2. u \in Events /\ u.type = "update" /\ GoodEvent(venue, latest, u)
    BY <1>1, <1>3, <2>1
  <2>3. QED
    BY <2>2 DEF GoodEvent, Events
<1>5. \A i \in 1..len : updates[i].first - 1 = at(i - 1)
  <2> DEFINE before(i) == IF i = 1 THEN e.final ELSE updates[i - 1].final
             missing == {i \in DOMAIN updates : updates[i].first - 1 # before(i)}
  <2>1. MissingIn(updates, e.final) = IF missing = {} THEN 0 ELSE Min(missing)
    BY DEF MissingIn
  <2>2. missing \subseteq 1..len /\ \A i \in 1..len : i \notin missing => updates[i].first - 1 = before(i)
    BY <1>1
  <2> HIDE DEF missing, before
  <2>3. missing = {}
    <3>1. SUFFICES ASSUME missing # {} PROVE FALSE
      OBVIOUS
    <3>2. missing \subseteq Nat
      BY <1>1, <2>2
    <3>3. Min(missing) \in missing
      BY <3>1, <3>2, MinIsLeast
    <3>4. Min(missing) = 0
      BY <2>1, <3>1
    <3> HIDE DEF len
    <3>5. Min(missing) \in 1..len /\ len \in Nat
      BY <1>1, <2>2, <3>3, Zenon
    <3>6. QED
      BY <3>4, <3>5
  <2>4. \A i \in 1..len : before(i) = at(i - 1)
    BY <1>1 DEF before
  <2>5. QED
    BY <2>2, <2>3, <2>4
<1>6. T \subseteq 0..len /\ T \subseteq Nat /\ \A n \in 0..len : n \in T <=> ~ \E f : Rec(f, n)
  <2>1. T \subseteq 0..len /\ \A n \in 0..len : n \in T <=> ~ \E f : Rec(f, n)
    BY Zenon
  <2>2. 0..len \subseteq Nat
    OBVIOUS
  <2>3. QED
    BY <2>1, <2>2, Zenon
<1> HIDE DEF T, len, b, last
<1>7. T = {}
  <2>1. SUFFICES ASSUME T # {} PROVE FALSE
    OBVIOUS
  <2>2. PICK n \in T : \A k \in T : n <= k
    BY <1>6, <2>1, LeastNumber
  <2>3. n # 0
    <3> DEFINE z == [i \in 0..0 |-> ChannelBook(e.final)]
    <3>1. Rec(z, 0)
      OBVIOUS
    <3>2. 0 \in 0..len
      BY <1>1
    <3> HIDE DEF z, Rec
    <3>3. QED
      BY <1>6, <3>1, <3>2
  <2>4. n - 1 \in 0..len /\ n - 1 \notin T /\ n \in 0..len /\ n \in Nat
    BY <1>1, <1>6, <2>2, <2>3
  <2>5. PICK f : Rec(f, n - 1)
    BY <1>6, <2>4
  <2> DEFINE g == [i \in 0..n |-> IF i = n THEN ApplyLevels(f[n - 1], Delta(updates[n])) ELSE f[i]]
  <2>6. \A i \in 0..(n - 1) : f[i] = IF i = 0 THEN ChannelBook(e.final)
                                      ELSE ApplyLevels(f[i - 1], Delta(updates[i]))
    BY <2>5, Zenon
  <2>7. \A i \in 0..n : g[i] = IF i = 0 THEN ChannelBook(e.final)
                                ELSE ApplyLevels(g[i - 1], Delta(updates[i]))
    BY <2>3, <2>4, <2>6
  <2>8. Rec(g, n)
    BY <2>7
  <2> HIDE DEF g, Rec
  <2>9. QED
    BY <1>6, <2>2, <2>4, <2>8
<1>8. \E f : Rec(f, len)
  <2>1. len \in 0..len /\ len \notin T
    BY <1>1, <1>7
  <2>2. QED
    BY <1>6, <2>1, Zenon
<1>9. Rec(h, len)
  BY <1>8, Zenon
<1> HIDE DEF h
<1>10. \A i \in 0..len : h[i] = IF i = 0 THEN ChannelBook(e.final)
                                 ELSE ApplyLevels(h[i - 1], Delta(updates[i]))
  BY <1>9, Zenon
<1> HIDE DEF Rec
<1> DEFINE Fine(i) == Loose(h[i], at(i))
           U == {i \in 0..len : ~Fine(i)}
<1>11. U \subseteq 0..len /\ U \subseteq Nat /\ \A i \in 0..len : i \in U <=> ~Fine(i)
  BY <1>1
<1>12. Loose(ChannelBook(e.final), e.final)
  BY ChannelBookFacts DEF Loose
<1> HIDE DEF U
<1>13. U = {}
  <2>1. SUFFICES ASSUME U # {} PROVE FALSE
    OBVIOUS
  <2>2. PICK n \in U : \A k \in U : n <= k
    BY <1>11, <2>1, LeastNumber
  <2>3. n # 0
    BY <1>1, <1>10, <1>11, <1>12, <2>2
  <2>4. n \in 1..len /\ n \in 0..len /\ n - 1 \in 0..len /\ n - 1 \notin U
    BY <1>1, <1>11, <2>2, <2>3
  <2>5. Loose(h[n - 1], at(n - 1)) /\ h[n] = ApplyLevels(h[n - 1], Delta(updates[n]))
    BY <1>10, <1>11, <2>3, <2>4
  <2>6. /\ updates[n].final \in 0..MaxId /\ updates[n].first \in Nat \ {0}
        /\ updates[n].first - 1 = at(n - 1) /\ updates[n].first <= updates[n].final + 1
    BY <1>4, <1>5, <2>4
  <2>7. at(n - 1) \in 0..MaxId
    BY <1>1, <1>4, <2>4
  <2>8. at(n) = updates[n].final
    BY <2>3
  <2> HIDE DEF at
  <2>9. updates[n].first <= at(n - 1) + 1 /\ at(n - 1) <= updates[n].final
    BY <2>6, <2>7
  <2>10. Loose(h[n], at(n))
    BY <2>5, <2>6, <2>7, <2>8, <2>9, DeltaIsSound
  <2>11. QED
    BY <1>11, <2>2, <2>4, <2>10
<1>14. Fine(len)
  BY <1>1, <1>11, <1>13
<1>15. /\ h[len] = ApplyLevels(h[len - 1], Delta(updates[len])) /\ Loose(h[len], last.final)
       /\ last.final \in 1..MaxId /\ last.final \in 0..MaxId /\ last.n \in Nat
  BY <1>1, <1>4, <1>10, <1>14 DEF last
<1>16. h[len] = [p \in DOMAIN h[len] |-> h[len][p]]
  BY <1>15 DEF ApplyLevels
<1>17. Pruned(h[len]) = ChannelBook(last.final)
  BY <1>15, <1>16, PrunedIsChannel
<1>18. b.last = last.final /\ b.n = last.n /\ b.levels = ChannelBook(b.last)
  BY <1>2, <1>17
<1>19. b.bridged = TRUE
  BY <1>2, Zenon
<1>20. b.bridged \in BOOLEAN /\ b.bridged
  BY <1>19, Zenon
<1>21. RightBook(b)
  BY <1>15, <1>18, <1>20, LooseIsRight
<1>22. b # NoBook
  BY <1>15, <1>18, NoBookFacts DEF NoBookIsRight
<1>23. QED
  BY <1>18, <1>20, <1>21, <1>22 DEF b, last, len

\* What is known of the buffer.
BufferFits ==
  /\ CurrentRefresh.buffer \in Seq(Events) /\ CurrentRefresh.id \in Nat
  /\ \A i \in DOMAIN CurrentRefresh.buffer :
       CurrentRefresh.buffer[i].type = "update" /\ GoodEvent(venue, latest, CurrentRefresh.buffer[i])
  /\ CurrentRefresh.id # 0 => CurrentRefresh.buffer # <<>>
  /\ CurrentBook # NoBook => CurrentRefresh.buffer = <<>> /\ CurrentRefresh.id = 0

\* What is known after the event e.
HtxHandled(r, e) ==
  /\ r.out \in {"ignore", "error", "request", "publish"}
  /\ RightBook(r.book) /\ r.book.last <= latest
  /\ r.sync \in Nat /\ r.sync >= syncID /\ r.gaps \in Nat /\ r.gaps >= gapCount
  /\ r.buffer \in Seq(Events) /\ r.id \in Nat
  /\ \A k \in DOMAIN r.buffer :
       \/ e.type = "update" /\ r.buffer[k] = e
       \/ \E j \in DOMAIN CurrentRefresh.buffer : r.buffer[k] = CurrentRefresh.buffer[j]
  /\ r.id # 0 \/ r.out = "request" => r.buffer # <<>> /\ r.book = NoBook
  /\ r.book # NoBook => r.buffer = <<>> /\ r.gaps = gapCount
  /\ r.out = "publish" =>
       /\ r.book # NoBook /\ r.book.bridged
       /\ r.sync = syncID => CurrentBook # NoBook /\ CurrentBook.bridged
       /\ \/ e.type = "update" /\ CurrentBook # NoBook /\ r.book.last = e.final /\ CurrentBook.last <= e.final
          \/ /\ e.type # "update" /\ generation = conn
             /\ \E j \in DOMAIN CurrentRefresh.buffer : r.book.last = CurrentRefresh.buffer[j].final
  /\ r.out # "publish" /\ r.book # NoBook =>
       \/ r.book = CurrentBook
       \/ /\ e.type # "update" /\ ~r.book.bridged /\ generation = conn
          /\ \E j \in DOMAIN CurrentRefresh.buffer : CurrentRefresh.buffer[j].final <= r.book.last

LEMMA HtxUpdateFacts ==
  ASSUME venue = "htx", latest \in 0..MaxId, syncID \in Nat, gapCount \in Nat,
         RightBook(CurrentBook), CurrentBook.last <= latest, BufferFits,
         NEW e \in Events, GoodEvent(venue, latest, e), e.type = "update"
  PROVE  HtxHandled(HtxUpdate(e), e)
<1> DEFINE s == HtxStart
           r == HtxUpdate(e)
           B == CurrentRefresh.buffer
           E == Events
           next == IF Len(s.buffer) = MaxBuffered THEN "error" ELSE IF s.id = 0 THEN "request" ELSE "ignore"
           sync == IF s.book.bridged THEN s.sync ELSE s.sync + 1
<1>1. /\ s.out = "ignore" /\ s.book = CurrentBook /\ s.sync = syncID /\ s.gaps = gapCount
      /\ s.buffer = B /\ s.id = CurrentRefresh.id
  BY DEF HtxStart, HtxResult
<1>2. /\ e.first \in Nat \ {0} /\ e.final \in 1..MaxId /\ e.n \in Nat /\ e.final <= latest
      /\ e.first <= e.final + 1 /\ e.first # 0
  BY DEF GoodEvent, Events
<1>3. CurrentBook.last \in Nat
  BY LimitType DEF RightBook
<1>4. /\ B \in Seq(E) /\ CurrentRefresh.id \in Nat
      /\ CurrentRefresh.id # 0 => B # <<>>
      /\ CurrentBook # NoBook => B = <<>> /\ CurrentRefresh.id = 0
  BY DEF BufferFits
<1>5. r = CASE s.book = NoBook -> HtxResult(next, NoBook, s.sync, s.gaps, Append(s.buffer, e), s.id)
            [] s.book # NoBook /\ e.final <= s.book.last -> s
            [] s.book # NoBook /\ e.final > s.book.last /\ e.first - 1 # s.book.last ->
                 HtxResult("request", NoBook, s.sync, s.gaps + 1, <<e>>, 0)
            [] s.book # NoBook /\ e.final > s.book.last /\ e.first - 1 = s.book.last ->
                 HtxResult("publish", Applied(s.book, e), sync, s.gaps, s.buffer, s.id)
  BY Zenon DEF HtxUpdate
<1>6. RightBook(NoBook) /\ NoBook.last <= latest
  BY NoBookFacts DEF NoBookIsRight
<1>7. e \in E
  OBVIOUS
<1> HIDE DEF s, r, B, E
<1>8. CASE s.book = NoBook
  <2>1. r = HtxResult(next, NoBook, s.sync, s.gaps, Append(s.buffer, e), s.id)
    BY <1>5, <1>8
  <2>2. next \in {"error", "request", "ignore"}
    OBVIOUS
  <2> HIDE DEF next
  <2>3. /\ r.out = next /\ r.book = NoBook /\ r.sync = syncID /\ r.gaps = gapCount
        /\ r.buffer = Append(B, e) /\ r.id = CurrentRefresh.id
    BY <1>1, <2>1 DEF HtxResult
  <2>4. r.buffer \in Seq(E) /\ r.buffer # <<>>
    BY <1>4, <1>7, <2>3
  <2>5. \A k \in DOMAIN r.buffer : r.buffer[k] = e \/ \E j \in DOMAIN B : r.buffer[k] = B[j]
    BY <1>4, <1>7, <2>3
  <2>6. QED
    BY <1>4, <1>6, <2>2, <2>3, <2>4, <2>5 DEF HtxHandled, r, B, E
<1>9. CASE s.book # NoBook /\ e.final <= s.book.last
  <2>1. r = s
    BY <1>1, <1>2, <1>3, <1>5, <1>9
  <2>2. B = <<>> /\ CurrentRefresh.id = 0
    BY <1>1, <1>4, <1>9
  <2>3. /\ r.out = "ignore" /\ r.book = CurrentBook /\ r.sync = syncID /\ r.gaps = gapCount
        /\ r.buffer = <<>> /\ r.id = 0
    BY <1>1, <2>1, <2>2
  <2>4. r.buffer \in Seq(E) /\ DOMAIN r.buffer = {}
    BY <2>3
  <2>5. QED
    BY <2>3, <2>4 DEF HtxHandled, r, B, E
<1>10. CASE s.book # NoBook /\ e.final > s.book.last /\ e.first - 1 # s.book.last
  <2>1. r = HtxResult("request", NoBook, s.sync, s.gaps + 1, <<e>>, 0)
    BY <1>1, <1>2, <1>3, <1>5, <1>10
  <2>2. /\ r.out = "request" /\ r.book = NoBook /\ r.sync = syncID /\ r.gaps = gapCount + 1
        /\ r.buffer = <<e>> /\ r.id = 0
    BY <1>1, <2>1 DEF HtxResult
  <2>3. r.buffer \in Seq(E) /\ r.buffer # <<>> /\ \A k \in DOMAIN r.buffer : r.buffer[k] = e
    BY <1>7, <2>2
  <2>4. QED
    BY <1>6, <2>2, <2>3 DEF HtxHandled, r, B, E
<1>11. CASE s.book # NoBook /\ e.final > s.book.last /\ e.first - 1 = s.book.last
  <2> DEFINE b == Applied(CurrentBook, e)
  <2>1. r = HtxResult("publish", b, sync, s.gaps, s.buffer, s.id)
    BY <1>1, <1>2, <1>3, <1>5, <1>11
  <2>2. sync \in Nat /\ sync >= syncID /\ (sync = syncID => CurrentBook.bridged)
    BY <1>1
  <2>3. RightBook(b) /\ b # NoBook /\ b.last = e.final /\ b.bridged
    BY <1>1, <1>2, <1>3, <1>11, AppliedIsRight
  <2> HIDE DEF sync, b
  <2>4. /\ r.out = "publish" /\ r.book = b /\ r.sync = sync /\ r.gaps = gapCount
        /\ r.buffer = <<>> /\ r.id = 0
    BY <1>1, <1>4, <1>11, <2>1 DEF HtxResult
  <2>5. r.buffer \in Seq(E) /\ DOMAIN r.buffer = {}
    BY <2>4
  <2>6. CurrentBook.last <= e.final
    BY <1>1, <1>2, <1>3, <1>11
  <2>7. QED
    BY <1>1, <1>2, <1>11, <2>2, <2>3, <2>4, <2>5, <2>6 DEF HtxHandled, r, B, E
<1>12. QED
  BY <1>1, <1>2, <1>3, <1>8, <1>9, <1>10, <1>11

\* The end of a sequence.
Suffix(q, a) == SubSeq(q, a, Len(q))

LEMMA SuffixFacts ==
  ASSUME NEW S, NEW q \in Seq(S), NEW a \in 1..Len(q)
  PROVE  /\ Suffix(q, a) \in Seq(S) /\ Len(Suffix(q, a)) \in Nat \ {0}
         /\ DOMAIN Suffix(q, a) = 1..Len(Suffix(q, a))
         /\ \A k \in DOMAIN Suffix(q, a) : \E j \in DOMAIN q : Suffix(q, a)[k] = q[j]
<1> DEFINE t == Suffix(q, a)
<1>1. Len(q) \in Nat /\ a \in Nat /\ DOMAIN q = 1..Len(q) /\ a <= Len(q)
  OBVIOUS
<1>2. t = [k \in 1..(Len(q) - a + 1) |-> q[a + k - 1]]
  BY <1>1 DEF Suffix
<1> HIDE DEF t
<1>3. \A k \in 1..(Len(q) - a + 1) :
        a + k - 1 \in 1..Len(q) /\ q[a + k - 1] \in S /\ k + a - 1 = a + k - 1
  BY <1>1
<1>4. t \in Seq(S) /\ Len(t) = Len(q) - a + 1 /\ DOMAIN t = 1..(Len(q) - a + 1)
  BY <1>1, <1>2, <1>3
<1>5. Len(t) # 0
  BY <1>1, <1>4
<1>6. \A k \in DOMAIN t : \E j \in DOMAIN q : t[k] = q[j]
  <2>1. ASSUME NEW k \in DOMAIN t PROVE \E j \in DOMAIN q : t[k] = q[j]
    <3>1. t[k] = q[a + k - 1] /\ a + k - 1 \in DOMAIN q
      BY <1>1, <1>2, <1>3, <1>4
    <3>2. QED
      BY <3>1
  <2>2. QED
    BY <2>1
<1>7. Len(t) \in Nat \ {0} /\ DOMAIN t = 1..Len(t)
  BY <1>4, <1>5
<1>8. QED
  BY <1>4, <1>6, <1>7 DEF t

LEMMA HtxSnapshotFacts ==
  ASSUME venue = "htx", latest \in 0..MaxId, syncID \in Nat, gapCount \in Nat,
         RightBook(CurrentBook), CurrentBook.last <= latest, BufferFits,
         NEW e \in Events, GoodEvent(venue, latest, e), e.type = "refresh"
  PROVE  HtxHandled(HtxSnapshot(e), e)
<1> DEFINE s == HtxStart
           r == HtxSnapshot(e)
           B == CurrentRefresh.buffer
           E == Events
           newer == {i \in DOMAIN s.buffer : s.buffer[i].final > e.final}
           later == IF newer = {} THEN <<>> ELSE SubSeq(s.buffer, Min(newer), Len(s.buffer))
           missing == MissingIn(later, e.final)
           id == CurrentRefresh.id
<1>1. /\ s.out = "ignore" /\ s.book = CurrentBook /\ s.sync = syncID /\ s.gaps = gapCount
      /\ s.buffer = B /\ s.id = id
  BY DEF HtxStart, HtxResult
<1>2. e.final \in 1..MaxId /\ e.n \in Nat /\ e.final <= latest
  BY DEF GoodEvent, Events
<1>3. RightBook(NoBook) /\ NoBook.last <= latest
  BY NoBookFacts DEF NoBookIsRight
<1>4. /\ B \in Seq(E) /\ id \in Nat
      /\ \A i \in DOMAIN B : B[i].type = "update" /\ GoodEvent(venue, latest, B[i])
      /\ id # 0 => B # <<>> /\ CurrentBook = NoBook
      /\ CurrentBook # NoBook => B = <<>>
  BY DEF BufferFits
<1>5. r = CASE generation # conn \/ s.id = 0 \/ s.id # e.n -> s
            [] generation = conn /\ s.id # 0 /\ s.id = e.n ->
                 CASE later = <<>> -> HtxResult("ignore", FromSnapshot(e), s.sync, s.gaps, <<>>, 0)
                   [] later # <<>> /\ missing = 1 ->
                        HtxResult("request", s.book, s.sync, s.gaps, later, 0)
                   [] later # <<>> /\ missing > 1 ->
                        HtxResult("request", s.book, s.sync, s.gaps + 1,
                                  SubSeq(later, missing, Len(later)), 0)
                   [] later # <<>> /\ missing = 0 ->
                        HtxResult("publish", Replayed(e, later), s.sync + 1, s.gaps, <<>>, 0)
  BY Zenon DEF HtxSnapshot
<1>6. newer = {i \in DOMAIN B : B[i].final > e.final}
  BY <1>1
<1>7. \A i \in DOMAIN B : B[i] \in Events
  <2>1. \A i \in DOMAIN B : B[i] \in E
    <3> HIDE DEF B, E
    <3>1. QED
      BY <1>4
  <2>2. QED
    BY <2>1
<1> HIDE DEF s, r, B, E, id
<1>8. CASE generation # conn \/ id = 0 \/ id # e.n
  <2>1. r = s
    BY <1>1, <1>5, <1>8
  <2>2. /\ r.out = "ignore" /\ r.book = CurrentBook /\ r.sync = syncID /\ r.gaps = gapCount
        /\ r.buffer = B /\ r.id = id
    BY <1>1, <2>1
  <2>3. \A k \in DOMAIN r.buffer : \E j \in DOMAIN B : r.buffer[k] = B[j]
    BY <2>2
  <2>4. QED
    BY <1>4, <2>2, <2>3 DEF HtxHandled, r, B, E, id
<1>9. CASE generation = conn /\ id # 0 /\ id = e.n
  <2>1. r = CASE later = <<>> -> HtxResult("ignore", FromSnapshot(e), s.sync, s.gaps, <<>>, 0)
              [] later # <<>> /\ missing = 1 -> HtxResult("request", s.book, s.sync, s.gaps, later, 0)
              [] later # <<>> /\ missing > 1 ->
                   HtxResult("request", s.book, s.sync, s.gaps + 1, SubSeq(later, missing, Len(later)), 0)
              [] later # <<>> /\ missing = 0 ->
                   HtxResult("publish", Replayed(e, later), s.sync + 1, s.gaps, <<>>, 0)
    <3> HIDE DEF later, missing
    <3>1. QED
      BY <1>1, <1>5, <1>9
  <2>2. newer \subseteq DOMAIN B /\ newer \subseteq Nat /\ \A i \in DOMAIN B : i \notin newer => ~(B[i].final > e.final)
    BY <1>4, <1>6
  <2>3. later = IF newer = {} THEN <<>> ELSE SubSeq(B, Min(newer), Len(B))
    BY <1>1
  <2> HIDE DEF newer, later
  <2>4. CASE newer = {}
    <3> DEFINE b == FromSnapshot(e)
    <3>1. r = HtxResult("ignore", b, s.sync, s.gaps, <<>>, 0)
      BY <2>1, <2>3, <2>4
    <3>2. RightBook(b) /\ b # NoBook /\ b.last = e.final /\ ~b.bridged
      BY <1>2, SnapshotIsRight
    <3> HIDE DEF b
    <3>3. /\ r.out = "ignore" /\ r.book = b /\ r.sync = syncID /\ r.gaps = gapCount
          /\ r.buffer = <<>> /\ r.id = 0
      BY <1>1, <3>1 DEF HtxResult
    <3>4. r.buffer \in Seq(E) /\ DOMAIN r.buffer = {}
      BY <3>3
    <3>5. \E j \in DOMAIN B : B[j].final <= e.final
      <4>1. 1 \in DOMAIN B
        BY <1>4, <1>9
      <4>2. B[1].final \in Nat /\ ~(B[1].final > e.final)
        BY <1>7, <2>2, <2>4, <4>1 DEF Events
      <4>3. QED
        BY <1>2, <4>1, <4>2
    <3>6. QED
      BY <1>2, <1>9, <3>2, <3>3, <3>4, <3>5 DEF HtxHandled, r, B, E
  <2>5. CASE newer # {}
    <3> DEFINE a == Min(newer)
    <3>1. a \in newer /\ a \in 1..Len(B) /\ Len(B) \in Nat
      BY <1>4, <2>2, <2>5, MinIsLeast
    <3>2. later = Suffix(B, a)
      BY <2>3, <2>5 DEF Suffix
    <3> HIDE DEF a
    <3>3. /\ later \in Seq(E) /\ Len(later) \in Nat \ {0} /\ DOMAIN later = 1..Len(later)
          /\ \A k \in DOMAIN later : \E j \in DOMAIN B : later[k] = B[j]
      BY <1>4, <3>1, <3>2, SuffixFacts
    <3>4. DOMAIN later = 1..Len(later) /\ Len(later) \in Nat \ {0} /\ later # <<>>
      BY <3>3
    <3>5. \A k \in DOMAIN later : \E j \in DOMAIN B : later[k] = B[j]
      BY <3>3
    <3>6. missing \in 0..Len(later)
      <4> DEFINE before(i) == IF i = 1 THEN e.final ELSE later[i - 1].final
                 gone == {i \in DOMAIN later : later[i].first - 1 # before(i)}
      <4>1. missing = IF gone = {} THEN 0 ELSE Min(gone)
        BY DEF MissingIn
      <4>2. gone \subseteq 1..Len(later) /\ gone \subseteq Nat
        BY <3>4
      <4> HIDE DEF gone, missing
      <4>3. gone # {} => Min(gone) \in 1..Len(later)
        BY <4>2, MinIsLeast
      <4>4. QED
        BY <3>4, <4>1, <4>3
    <3>7. CASE missing = 1
      <4>1. r = HtxResult("request", s.book, s.sync, s.gaps, later, 0)
        BY <2>1, <3>4, <3>7
      <4>2. /\ r.out = "request" /\ r.book = NoBook /\ r.sync = syncID /\ r.gaps = gapCount
            /\ r.buffer = later /\ r.id = 0
        BY <1>1, <1>4, <1>9, <4>1 DEF HtxResult
      <4>3. QED
        BY <1>3, <3>3, <3>4, <3>5, <4>2 DEF HtxHandled, r, B, E
    <3>8. CASE missing > 1
      <4> DEFINE rest == SubSeq(later, missing, Len(later))
      <4> HIDE DEF missing
      <4>1. r = HtxResult("request", s.book, s.sync, s.gaps + 1, rest, 0)
        BY <2>1, <3>4, <3>6, <3>8
      <4>2. /\ rest \in Seq(E) /\ Len(rest) \in Nat \ {0}
            /\ \A k \in DOMAIN rest : \E j \in DOMAIN later : rest[k] = later[j]
        <5>1. missing \in 1..Len(later)
          BY <3>4, <3>6, <3>8
        <5>2. rest = Suffix(later, missing)
          BY DEF Suffix
        <5> HIDE DEF rest
        <5>3. later \in Seq(E)
          BY <3>3
        <5> HIDE DEF later
        <5>4. /\ Suffix(later, missing) \in Seq(E) /\ Len(Suffix(later, missing)) \in Nat \ {0}
              /\ \A k \in DOMAIN Suffix(later, missing) :
                   \E j \in DOMAIN later : Suffix(later, missing)[k] = later[j]
          BY <5>1, <5>3, SuffixFacts
        <5>5. QED
          BY <5>2, <5>4, Zenon
      <4> HIDE DEF rest
      <4>3. rest # <<>> /\ \A k \in DOMAIN rest : \E j \in DOMAIN B : rest[k] = B[j]
        BY <3>5, <4>2
      <4>4. /\ r.out = "request" /\ r.book = NoBook /\ r.sync = syncID /\ r.gaps = gapCount + 1
            /\ r.buffer = rest /\ r.id = 0
        BY <1>1, <1>4, <1>9, <4>1 DEF HtxResult
      <4>5. QED
        BY <1>3, <4>2, <4>3, <4>4 DEF HtxHandled, r, B, E
    <3>9. CASE missing = 0
      <4> DEFINE b == Replayed(e, later)
      <4>1. r = HtxResult("publish", b, s.sync + 1, s.gaps, <<>>, 0)
        BY <2>1, <3>4, <3>9
      <4>2. \A k \in DOMAIN later : later[k].type = "update" /\ GoodEvent(venue, latest, later[k])
        BY <1>4, <3>5
      <4>3. later \in Seq(Events)
        BY <3>3 DEF E
      <4>4. RightBook(b) /\ b # NoBook /\ b.bridged /\ b.last = later[Len(later)].final
        BY <1>2, <3>4, <3>9, <4>2, <4>3, ReplayedIsRight
      <4> HIDE DEF b
      <4>5. PICK j \in DOMAIN B : later[Len(later)] = B[j]
        BY <3>4, <3>5
      <4>6. b.last = B[j].final /\ b.last <= latest
        BY <1>4, <4>4, <4>5 DEF GoodEvent
      <4>7. /\ r.out = "publish" /\ r.book = b /\ r.sync = syncID + 1 /\ r.gaps = gapCount
            /\ r.buffer = <<>> /\ r.id = 0
        BY <1>1, <4>1 DEF HtxResult
      <4>8. r.buffer \in Seq(E) /\ DOMAIN r.buffer = {}
        BY <4>7
      <4>9. QED
        BY <1>9, <4>4, <4>6, <4>7, <4>8 DEF HtxHandled, r, B, E
    <3>10. QED
      BY <3>6, <3>7, <3>8, <3>9
  <2>6. QED
    BY <2>4, <2>5
<1>10. QED
  BY <1>8, <1>9

-----------------------------------------------------------------------------
(* The inductive invariant. *)

TypedInv ==
  /\ venue \in Venues /\ latest \in FirstId..MaxId
  /\ conn \in 0..MaxGeneration /\ generation \in 0..conn /\ recovery \in {0, generation}
  /\ closing \in BOOLEAN /\ run \in {"running", "returned"}
  /\ feed \in Feeds /\ feed.pos <= latest /\ Len(feed.recent) <= 1
  /\ queue \in Seq(Messages) /\ Len(queue) <= Room
  /\ handling \in BOOLEAN /\ faults \in Nat
  /\ syncID \in Nat /\ gapCount \in Nat
  /\ refresh \in [buffer : Seq(Events), id : Nat, ids : Nat]
  /\ view.generation \in 0..generation /\ view.sync \in 0..syncID /\ view.gaps \in 0..gapCount
  /\ view.last \in Nat

BookInv == RightBook(book) /\ book.last <= latest

\* The data not yet handled, and what may be repeated.
Data(q) == {i \in DOMAIN q : q[i].kind = "data"}
Pending(q, f) == {q[i] : i \in Data(q)} \cup {f.recent[i] : i \in DOMAIN f.recent}

ChannelInv == \A m \in Pending(queue, feed) : m.kind = "data" /\ GoodMessage(venue, latest, m)

\* Before the subscription is answered nothing has come from this connection.
FreshInv ==
  /\ queue # <<>> => conn # 0
  /\ feed.snapshot = "none" =>
       feed = NoFeed /\ Data(queue) = {} /\ (conn = 0 \/ generation # conn)
  /\ feed.snapshot # "none" => feed.pos # 0
  /\ feed.asked # 0 => venue = "htx"
  /\ conn = 0 => feed.snapshot = "none" /\ book = NoBook /\ view.last = 0

\* The numbers and the book.
NumberInv ==
  venue \in Numbered =>
    /\ \A m \in Pending(queue, feed) :
         /\ Number(m) <= feed.n /\ (Number(m) = feed.n => End(m) = feed.pos)
         /\ \A x \in Pending(queue, feed) : Chain(Number(x), End(x), m)
         /\ CurrentBook # NoBook => Chain(CurrentBook.n, CurrentBook.last, m)
    /\ CurrentBook # NoBook =>
         CurrentBook.n <= feed.n /\ (CurrentBook.n = feed.n => CurrentBook.last = feed.pos)

\* The messages that come in the order of the updates: where updates may reach back
\* behind the snapshot, the snapshots; of whole books sent in any order, none.
Counted(v, m) ==
  IF v \in Overlapping THEN Kind(m) = "snapshot"
  ELSE v \notin {"korbit", "coinone"} /\ Kind(m) # "refresh"

Ahead(v, last, m) == Counted(v, m) => last <= End(m)
Follows(v, x, m) ==
  /\ Counted(v, m) /\ v \in Overlapping => Counted(v, x)
  /\ Counted(v, x) => Ahead(v, End(x), m)

OrderInv ==
  /\ \A i, j \in Data(queue) : i < j => Follows(venue, queue[i], queue[j])
  /\ \A i \in Data(queue) : \A k \in DOMAIN feed.recent : Follows(venue, queue[i], feed.recent[k])
  /\ \A m \in Pending(queue, feed) : venue \notin Overlapping /\ Counted(venue, m) => End(m) <= feed.pos
  /\ \A k \in DOMAIN feed.recent :
       venue \notin Overlapping /\ Counted(venue, feed.recent[k]) => End(feed.recent[k]) = feed.pos

\* The last view of this connection is not ahead of what is to come.
ViewInv ==
  view.generation = conn =>
    /\ \A m \in Pending(queue, feed) : Ahead(venue, view.last, m)
    /\ venue \notin Overlapping \cup {"korbit", "coinone"} => view.last <= feed.pos

\* Where a processor has nothing to compare, and nothing was lost or sent again: each
\* message begins where the one before it ends.
BlindInv ==
  venue \in Blind /\ faults = 0 =>
    /\ \A i, j \in Data(queue) : i < j => End(queue[i]) <= First(queue[j])
    /\ view.generation = conn => \A i \in Data(queue) : view.last <= First(queue[i])

\* The handler has seen the book.
SeenInv ==
  /\ CurrentBook # NoBook =>
       /\ venue # "htx" \/ CurrentBook.bridged =>
            view.generation = conn /\ view.last = CurrentBook.last /\ view.gaps = gapCount
       /\ view.generation = conn => view.last <= CurrentBook.last
  /\ venue \in FullBook /\ view.generation = conn /\ conn # 0 => CurrentBook # NoBook

\* HTX's buffer lies between the last view and what is to come.
BufferInv ==
  /\ venue # "htx" => refresh.buffer = <<>> /\ refresh.id = 0
  /\ \A i \in DOMAIN CurrentRefresh.buffer :
       LET u == CurrentRefresh.buffer[i]
       IN /\ u.type = "update" /\ GoodEvent(venue, latest, u)
          /\ u.final <= feed.pos
          /\ \A m \in Pending(queue, feed) : Ahead(venue, u.final, m)
          /\ view.generation = conn => view.last <= u.final
  /\ CurrentRefresh.id # 0 => CurrentRefresh.buffer # <<>>
  /\ CurrentBook # NoBook => CurrentRefresh.buffer = <<>> /\ CurrentRefresh.id = 0

\* A connection that was given up is counted.
GapInv ==
  IF venue \in Guarded THEN gapCount <= IF recovery = conn THEN conn ELSE conn - 1
  ELSE recovery = 0

StreamInv ==
  /\ TypedInv /\ BookInv /\ ChannelInv /\ FreshInv /\ NumberInv /\ OrderInv
  /\ ViewInv /\ BlindInv /\ SeenInv /\ BufferInv /\ GapInv
-----------------------------------------------------------------------------
(* Steps that leave the processor alone. *)

LEMMA KeptBook == venue' = venue /\ RightBook(book') => RightBook(book)'
  BY DEF RightBook, Verified, Checksum, ChannelBook, Limit, NoBook

LEMMA KeptProcessor ==
  UNCHANGED <<venue, conn, processorVars>> =>
    /\ CurrentBook' = CurrentBook /\ CurrentRefresh' = CurrentRefresh
    /\ RightBook(book) => RightBook(book)'
<1>1. UNCHANGED <<venue, conn, processorVars>> => CurrentBook' = CurrentBook /\ CurrentRefresh' = CurrentRefresh
  BY DEF CurrentBook, CurrentRefresh, processorVars, NoBook
<1>2. UNCHANGED <<venue, conn, processorVars>> => venue' = venue /\ book' = book
  BY DEF processorVars
<1>3. QED
  BY <1>1, <1>2, KeptBook

\* A message is put at the end of the queue.
Appended(q2, q, m) == q2 = Append(q, m)

LEMMA AppendFacts ==
  ASSUME NEW q \in Seq(Messages), NEW m \in Messages, NEW q2, Appended(q2, q, m)
  PROVE  /\ q2 \in Seq(Messages) /\ Len(q2) = Len(q) + 1 /\ q2 # <<>> /\ Len(q) \in Nat
         /\ \A i \in Data(q) : i \in Data(q2) /\ q2[i] = q[i] /\ i \in 1..Len(q)
         /\ \A i \in Data(q2) :
              (i \in Data(q) /\ q2[i] = q[i]) \/ (i = Len(q) + 1 /\ q2[i] = m /\ m.kind = "data")
<1> DEFINE M == Messages
<1>1. q \in Seq(M) /\ m \in M
  OBVIOUS
<1> HIDE DEF M
<1>2. /\ q2 \in Seq(M) /\ Len(q2) = Len(q) + 1 /\ Len(q) \in Nat
      /\ DOMAIN q = 1..Len(q) /\ DOMAIN q2 = 1..(Len(q) + 1)
      /\ q2[Len(q) + 1] = m /\ \A i \in 1..Len(q) : q2[i] = q[i]
  BY <1>1 DEF Appended
<1>3. q2 # <<>>
  BY <1>2
<1>4. \A i \in 1..(Len(q) + 1) : i \in 1..Len(q) \/ i = Len(q) + 1
  BY <1>2
<1>5. \A i \in 1..Len(q) : i \in 1..(Len(q) + 1)
  BY <1>2
<1>6. \A i \in Data(q2) :
              (i \in Data(q) /\ q2[i] = q[i]) \/ (i = Len(q) + 1 /\ q2[i] = m /\ m.kind = "data")
  BY <1>2, <1>4 DEF Data
<1>7. \A i \in Data(q) : i \in Data(q2) /\ q2[i] = q[i] /\ i \in 1..Len(q)
  BY <1>2, <1>5 DEF Data
<1>8. QED
  BY <1>2, <1>3, <1>6, <1>7 DEF M

\* The first message is taken from the queue.
LEMMA TailFacts ==
  ASSUME NEW q \in Seq(Messages), q # <<>>, NEW q2, q2 = Tail(q)
  PROVE  /\ q2 \in Seq(Messages) /\ Len(q2) = Len(q) - 1 /\ Len(q) \in Nat \ {0}
         /\ Head(q) \in Messages /\ Head(q) = q[1] /\ 1 \in DOMAIN q
         /\ \A i \in Data(q2) : i + 1 \in Data(q) /\ q2[i] = q[i + 1] /\ i \in Nat \ {0}
<1> DEFINE M == Messages
<1>1. q \in Seq(M)
  OBVIOUS
<1> HIDE DEF M
<1>2. Len(q) \in Nat \ {0} /\ DOMAIN q = 1..Len(q)
  BY <1>1
<1>3. /\ q2 \in Seq(M) /\ Len(q2) = Len(q) - 1 /\ DOMAIN q2 = 1..(Len(q) - 1)
      /\ \A i \in 1..(Len(q) - 1) : q2[i] = q[i + 1]
  BY <1>1, <1>2
<1>4. Head(q) \in M /\ Head(q) = q[1] /\ 1 \in DOMAIN q
  BY <1>1, <1>2
<1>5. \A i \in 1..(Len(q) - 1) : i + 1 \in 1..Len(q) /\ i \in Nat \ {0}
  BY <1>2
<1>6. \A i \in Data(q2) : i + 1 \in Data(q) /\ q2[i] = q[i + 1] /\ i \in Nat \ {0}
  BY <1>2, <1>3, <1>5 DEF Data
<1>7. QED
  BY <1>2, <1>3, <1>4, <1>6 DEF M

\* The last update of an event is a number.
LEMMA EventsIn ==
  ASSUME NEW q \in Seq(Events)
  PROVE  \A i \in DOMAIN q : q[i] \in Events /\ q[i].final \in Nat
<1> DEFINE E == Events
<1>1. \A e \in E : e.final \in Nat
  BY LimitType DEF Events
<1>2. q \in Seq(E)
  OBVIOUS
<1> HIDE DEF E
<1>3. \A i \in DOMAIN q : q[i] \in E
  BY <1>2
<1>4. QED
  BY <1>1, <1>3 DEF E

\* What is known of a pending message.
LEMMA PendingFacts ==
  ASSUME queue \in Seq(Messages), feed \in Feeds, ChannelInv
  PROVE  \A m \in Pending(queue, feed) :
           /\ m \in Messages /\ m.kind = "data" /\ GoodMessage(venue, latest, m)
           /\ End(m) \in 1..MaxId /\ Number(m) \in Nat /\ Kind(m) \in {"snapshot", "update", "refresh"}
<1> DEFINE M == Messages
           E == Events
<1>1. SUFFICES ASSUME NEW m \in Pending(queue, feed)
               PROVE  /\ m \in Messages /\ m.kind = "data" /\ GoodMessage(venue, latest, m)
                      /\ End(m) \in 1..MaxId /\ Number(m) \in Nat
                      /\ Kind(m) \in {"snapshot", "update", "refresh"}
  OBVIOUS
<1>2. queue \in Seq(M) /\ feed.recent \in Seq(M)
  BY DEF Feeds
<1> HIDE DEF M
<1>3. m \in M
  BY <1>1, <1>2 DEF Pending, Data
<1>4. m.kind = "data" /\ GoodMessage(venue, latest, m)
  BY <1>1 DEF ChannelInv
<1>5. m.events \in Seq(E)
  BY <1>3 DEF M, E, Messages
<1> HIDE DEF E
<1>6. m.events # <<>>
  BY <1>4 DEF GoodMessage
<1>7. m.events[1] \in E /\ m.events[Len(m.events)] \in E
  BY <1>5, <1>6
<1>8. QED
  BY <1>3, <1>4, <1>7 DEF M, E, Events, End, Number, Kind

\* Nothing but data is lost, and the order stays.
Kept(q2, q) ==
  /\ \A i \in Data(q2) : \E k \in Data(q) : q2[i] = q[k]
  /\ \A i, j \in Data(q2) : i < j => \E k, l \in Data(q) : k < l /\ q2[i] = q[k] /\ q2[j] = q[l]

\* No data comes.
Quiet ==
  /\ Kept(queue', queue) /\ queue' \in Seq(Messages) /\ Len(queue') <= Room
  /\ queue' # <<>> => conn # 0
  /\ faults' \in Nat /\ (faults' = 0 => faults = 0)
  /\ latest' \in latest..MaxId
  /\ feed' \in Feeds /\ feed'.pos \in feed.pos..latest' /\ Len(feed'.recent) <= 1
  /\ \/ (feed'.recent = feed.recent /\ feed'.pos = feed.pos /\ feed'.n = feed.n)
     \/ (feed'.recent = <<>> /\ (venue \in Numbered => feed'.n > feed.n))
  /\ feed' = feed \/ (conn # 0 /\ feed'.snapshot # "none" /\ feed'.pos # 0)
  /\ feed'.asked \in {0, feed.asked}
  /\ closing' \in BOOLEAN /\ run' \in {"running", "returned"}
  /\ UNCHANGED <<venue, conn, processorVars>>

\* The exchange goes on.
LEMMA GoodLater ==
  ASSUME NEW v, NEW a \in Nat, NEW b \in Nat, a <= b, NEW m \in Messages, GoodMessage(v, a, m)
  PROVE  GoodMessage(v, b, m)
<1>1. \A i \in DOMAIN m.events : m.events[i].final \in Nat
  BY EventsIn DEF Messages
<1>2. QED
  BY <1>1 DEF GoodMessage, GoodEvent

LEMMA QuietStep == StreamInv /\ Quiet => StreamInv'
<1> SUFFICES ASSUME StreamInv, Quiet PROVE StreamInv'
  OBVIOUS
<1> DEFINE P == Pending(queue, feed)
           Q == Pending(queue', feed')
           f == feed'
<1>1. /\ TypedInv /\ BookInv /\ ChannelInv /\ FreshInv /\ NumberInv /\ OrderInv
      /\ ViewInv /\ BlindInv /\ SeenInv /\ BufferInv /\ GapInv
  BY DEF StreamInv
<1>2. UNCHANGED <<venue, conn, processorVars>>
  BY DEF Quiet
<1>3. /\ UNCHANGED <<venue, conn, handling, generation, recovery, book, syncID, gapCount, refresh, view>>
      /\ Room' = Room
  BY <1>2 DEF processorVars, Room
<1>4. CurrentBook' = CurrentBook /\ CurrentRefresh' = CurrentRefresh /\ (RightBook(book) => RightBook(book)')
  BY <1>2, KeptProcessor
<1>5. \A m \in P : /\ m \in Messages /\ m.kind = "data" /\ GoodMessage(venue, latest, m)
                   /\ End(m) \in Nat /\ Number(m) \in Nat
  BY <1>1, PendingFacts DEF TypedInv
<1>6. /\ latest \in Nat /\ latest' \in Nat /\ latest <= latest' /\ latest' \in FirstId..MaxId
      /\ feed.pos \in Nat /\ feed'.pos \in Nat /\ feed.pos <= feed'.pos /\ feed'.pos <= latest'
      /\ feed.n \in Nat /\ feed'.n \in Nat
  BY <1>1, LimitType, StreamBookAssumption DEF TypedInv, Quiet, Feeds
<1>7. Q \subseteq P
  BY DEF Quiet, Kept, Pending
<1> HIDE DEF P, Q
<1>8. TypedInv'
  BY <1>1, <1>3, <1>6 DEF TypedInv, Quiet
<1>9. BookInv'
  <2>1. book.last \in Nat
    BY <1>1, LimitType DEF BookInv, RightBook
  <2>2. QED
    BY <1>1, <1>3, <1>4, <1>6, <2>1 DEF BookInv
<1>10. ChannelInv'
  <2>1. \A m \in Q : m.kind = "data" /\ GoodMessage(venue, latest', m)
    BY <1>5, <1>6, <1>7, GoodLater
  <2>2. QED
    BY <1>3, <2>1 DEF ChannelInv, Q
<1>11. FreshInv'
  <2>1. Data(queue) = {} => Data(queue') = {}
    BY DEF Quiet, Kept
  <2>2. QED
    BY <1>1, <1>3, <2>1 DEF FreshInv, Quiet
<1>12. NumberInv'
  <2>1. SUFFICES ASSUME venue \in Numbered
                 PROVE  /\ \A m \in Q :
                             /\ Number(m) <= f.n /\ (Number(m) = f.n => End(m) = f.pos)
                             /\ \A x \in Q : Chain(Number(x), End(x), m)
                             /\ CurrentBook # NoBook => Chain(CurrentBook.n, CurrentBook.last, m)
                        /\ CurrentBook # NoBook =>
                             CurrentBook.n <= f.n /\ (CurrentBook.n = f.n => CurrentBook.last = f.pos)
    BY <1>3, <1>4 DEF NumberInv, Q, NoBook
  <2>2. feed.n <= f.n /\ (feed.n = f.n => f.pos = feed.pos)
    BY <1>6, <2>1 DEF Quiet
  <2>3. CurrentBook # NoBook => CurrentBook.n \in Nat
    BY <1>1 DEF CurrentBook, BookInv, RightBook
  <2>4. \A m \in Q : Number(m) <= f.n /\ (Number(m) = f.n => End(m) = f.pos)
    BY <1>1, <1>5, <1>6, <1>7, <2>1, <2>2 DEF NumberInv, P
  <2>5. CurrentBook # NoBook =>
          CurrentBook.n <= f.n /\ (CurrentBook.n = f.n => CurrentBook.last = f.pos)
    BY <1>1, <1>6, <2>1, <2>2, <2>3 DEF NumberInv
  <2>6. QED
    BY <1>1, <1>7, <2>1, <2>4, <2>5 DEF NumberInv, P
<1>13. OrderInv'
  <2>1. \A i, j \in Data(queue') : i < j => Follows(venue, queue'[i], queue'[j])
    BY <1>1 DEF OrderInv, Quiet, Kept
  <2>2. \A i \in Data(queue') : \A k \in DOMAIN f.recent : Follows(venue, queue'[i], f.recent[k])
    BY <1>1 DEF OrderInv, Quiet, Kept
  <2>3. \A m \in Q : venue \notin Overlapping /\ Counted(venue, m) => End(m) <= f.pos
    BY <1>1, <1>5, <1>6, <1>7 DEF OrderInv, P
  <2>4. \A k \in DOMAIN f.recent :
          venue \notin Overlapping /\ Counted(venue, f.recent[k]) => End(f.recent[k]) = f.pos
    BY <1>1 DEF OrderInv, Quiet
  <2>5. QED
    BY <1>3, <2>1, <2>2, <2>3, <2>4 DEF OrderInv, Q
<1>14. ViewInv'
  <2>1. view.last \in Nat
    BY <1>1 DEF TypedInv
  <2>2. QED
    BY <1>1, <1>3, <1>6, <1>7, <2>1 DEF ViewInv, P, Q
<1>15. SeenInv'
  BY <1>1, <1>3, <1>4 DEF SeenInv, NoBook
<1>19. BlindInv'
  <2>1. SUFFICES ASSUME venue \in Blind, faults = 0
                 PROVE  /\ \A i, j \in Data(queue') : i < j => End(queue'[i]) <= First(queue'[j])
                        /\ view.generation = conn => \A i \in Data(queue') : view.last <= First(queue'[i])
    BY <1>3 DEF BlindInv, Quiet
  <2>2. QED
    BY <1>1, <2>1 DEF BlindInv, Quiet, Kept
<1>16. BufferInv'
  <2> DEFINE B == CurrentRefresh.buffer
  <2>1. \A i \in DOMAIN B : B[i].final \in Nat
    <3>1. B = refresh.buffer \/ DOMAIN B = {}
      BY DEF CurrentRefresh
    <3>2. QED
      BY <1>1, <3>1, EventsIn DEF TypedInv
  <2>2. \A i \in DOMAIN B :
          /\ B[i].type = "update" /\ GoodEvent(venue, latest', B[i])
          /\ B[i].final <= f.pos
          /\ \A m \in Q : Ahead(venue, B[i].final, m)
          /\ view.generation = conn => view.last <= B[i].final
    BY <1>1, <1>6, <1>7, <2>1 DEF BufferInv, GoodEvent, P
  <2>3. QED
    BY <1>1, <1>3, <1>4, <2>2 DEF BufferInv, Q, NoBook
<1>17. GapInv'
  BY <1>1, <1>3 DEF GapInv
<1>18. QED
  BY <1>8, <1>9, <1>10, <1>11, <1>12, <1>13, <1>14, <1>15, <1>16, <1>17, <1>19 DEF StreamInv

\* The message m may come next, with the channel at f.
Fits(m, f) ==
  /\ GoodMessage(venue, latest, m)
  /\ venue \in Numbered =>
       \/ (m \in Pending(queue, feed) /\ f.n = feed.n /\ f.pos = feed.pos)
       \/ (/\ Number(m) = feed.n + 1 /\ f.n = feed.n + 1 /\ End(m) = f.pos
           /\ Kind(m) = "update" => m.events[1].first = feed.pos + 1)
  /\ \A i \in Data(queue) : Follows(venue, queue[i], m)
  /\ venue \notin Overlapping /\ Counted(venue, m) => End(m) <= f.pos
  /\ view.generation = conn => Ahead(venue, view.last, m)
  /\ \A i \in DOMAIN CurrentRefresh.buffer : Ahead(venue, CurrentRefresh.buffer[i].final, m)
  /\ \/ (f.recent = <<m>> /\ (venue \notin Overlapping /\ Counted(venue, m) => End(m) = f.pos))
     \/ (/\ f.recent = feed.recent /\ f.pos = feed.pos
         /\ \A k \in DOMAIN feed.recent : Follows(venue, m, feed.recent[k]))

\* Data comes.
Delivers(m) ==
  /\ Open /\ m \in Messages /\ m.kind = "data" /\ queue' = Append(queue, m)
  /\ Fits(m, feed')
  /\ faults' \in Nat /\ (faults' = 0 => faults = 0 /\ (venue \in Blind => feed.pos <= First(m)))
  /\ feed' \in Feeds /\ feed'.pos \in feed.pos..latest /\ feed'.snapshot # "none"
  /\ feed'.pos # 0 /\ (feed'.asked # 0 => venue = "htx")
  /\ UNCHANGED <<venue, latest, conn, closing, processorVars, run>>

\* Where a processor has nothing to compare, all that is known lies before the channel's
\* position.
LEMMA BlindFacts ==
  StreamInv /\ venue \in Blind =>
    /\ \A i \in Data(queue) : End(queue[i]) <= feed.pos
    /\ view.generation = conn => view.last <= feed.pos
<1> SUFFICES ASSUME StreamInv, venue \in Blind
             PROVE  /\ \A i \in Data(queue) : End(queue[i]) <= feed.pos
                    /\ view.generation = conn => view.last <= feed.pos
  OBVIOUS
<1>1. TypedInv /\ ChannelInv /\ OrderInv /\ ViewInv
  BY DEF StreamInv
<1>2. venue \notin Overlapping \cup {"korbit", "coinone"} /\ venue # "htx"
  BY DEF Blind, Overlapping
<1>3. \A m \in Pending(queue, feed) : Counted(venue, m)
  <2>1. SUFFICES ASSUME NEW m \in Pending(queue, feed) PROVE Kind(m) # "refresh"
    BY <1>2 DEF Counted
  <2>2. m \in Messages /\ GoodMessage(venue, latest, m)
    BY <1>1, PendingFacts DEF TypedInv
  <2>3. 1 \in DOMAIN m.events
    BY <2>2 DEF GoodMessage, Messages
  <2>4. QED
    BY <1>2, <2>2, <2>3 DEF GoodMessage, GoodEvent, Kind
<1>4. \A i \in Data(queue) : queue[i] \in Pending(queue, feed)
  BY DEF Pending
<1>5. QED
  BY <1>1, <1>2, <1>3, <1>4 DEF OrderInv, ViewInv

LEMMA DeliverStep == StreamInv /\ (\E m \in Messages : Delivers(m)) => StreamInv'
<1> SUFFICES ASSUME StreamInv, NEW m \in Messages, Delivers(m) PROVE StreamInv'
  OBVIOUS
<1> DEFINE P == Pending(queue, feed)
           Q == Pending(queue', feed')
           f == feed'
<1>1. /\ TypedInv /\ BookInv /\ ChannelInv /\ FreshInv /\ NumberInv /\ OrderInv
      /\ ViewInv /\ BlindInv /\ SeenInv /\ BufferInv /\ GapInv
  BY DEF StreamInv
<1>2. UNCHANGED <<venue, conn, processorVars>>
  BY DEF Delivers
<1>3. /\ UNCHANGED <<venue, latest, conn, closing, run, handling, generation, recovery, book, syncID,
                     gapCount, refresh, view>>
      /\ Room' = Room
  BY DEF Delivers, processorVars, Room
<1>4. CurrentBook' = CurrentBook /\ CurrentRefresh' = CurrentRefresh /\ (RightBook(book) => RightBook(book)')
  BY <1>2, KeptProcessor
<1>5. \A x \in P : /\ x \in Messages /\ x.kind = "data" /\ GoodMessage(venue, latest, x)
                   /\ End(x) \in Nat /\ Number(x) \in Nat
  BY <1>1, PendingFacts DEF TypedInv
<1>6. /\ latest \in Nat
      /\ feed.pos \in Nat /\ f.pos \in Nat /\ feed.pos <= f.pos /\ f.pos <= latest
      /\ feed.n \in Nat /\ f.n \in Nat /\ f \in Feeds /\ f.snapshot # "none"
  BY <1>1, LimitType, StreamBookAssumption DEF TypedInv, Delivers, Feeds
<1>7. /\ queue' \in Seq(Messages) /\ Len(queue') = Len(queue) + 1 /\ queue' # <<>> /\ Len(queue) \in Nat
      /\ \A i \in Data(queue) : i \in Data(queue') /\ queue'[i] = queue[i] /\ i \in 1..Len(queue)
      /\ \A i \in Data(queue') :
           (i \in Data(queue) /\ queue'[i] = queue[i]) \/ (i = Len(queue) + 1 /\ queue'[i] = m)
  <2>1. Appended(queue', queue, m) /\ queue \in Seq(Messages)
    BY <1>1 DEF Delivers, TypedInv, Appended
  <2>2. QED
    BY <2>1, AppendFacts
<1>8. Fits(m, f)
  BY DEF Delivers
<1>9. /\ f.recent = <<m>> \/ f.recent = feed.recent
      /\ Len(f.recent) <= 1
  <2>1. f.recent = <<m>> \/ f.recent = feed.recent
    BY <1>8 DEF Fits
  <2>2. f.recent = <<m>> => Len(f.recent) <= 1
    OBVIOUS
  <2>3. f.recent = feed.recent => Len(f.recent) <= 1
    BY <1>1 DEF TypedInv
  <2>4. QED
    BY <2>1, <2>2, <2>3
<1>10. \A k \in DOMAIN f.recent :
         f.recent[k] = m \/ (f.recent = feed.recent /\ k \in DOMAIN feed.recent)
  BY <1>9
<1>11. \A x \in Q : x \in P \/ x = m
  BY <1>7, <1>10 DEF Pending
<1>12. /\ m \in Messages /\ m.kind = "data" /\ GoodMessage(venue, latest, m)
       /\ End(m) \in Nat /\ Number(m) \in Nat
  <2>1. m.events \in Seq(Events) /\ m.events # <<>>
    BY <1>8 DEF Fits, Messages, GoodMessage
  <2>2. Len(m.events) \in Nat /\ 1 \in DOMAIN m.events /\ Len(m.events) \in DOMAIN m.events
    BY <2>1
  <2>3. m.events[1] \in Events /\ m.events[Len(m.events)].final \in Nat
    BY <2>1, <2>2, EventsIn
  <2>4. QED
    BY <1>8, <2>3 DEF Fits, End, Number, Events, Delivers
<1> HIDE DEF P, Q
<1>13. TypedInv'
  <2>1. Len(queue') <= Room
    BY <1>1, <1>7, StreamBookAssumption DEF Delivers, Open, Room
  <2>2. faults' \in Nat
    BY DEF Delivers
  <2>3. QED
    BY <1>1, <1>3, <1>6, <1>7, <1>9, <2>1, <2>2 DEF TypedInv
<1>14. BookInv'
  BY <1>1, <1>3, <1>4 DEF BookInv
<1>15. ChannelInv'
  BY <1>3, <1>5, <1>11, <1>12 DEF ChannelInv, Q
<1>16. FreshInv'
  <2>1. conn # 0 /\ feed'.pos # 0 /\ (feed'.asked # 0 => venue = "htx")
    BY DEF Delivers, Open
  <2>2. QED
    BY <1>3, <1>6, <2>1 DEF FreshInv
<1>17. NumberInv'
  <2>1. SUFFICES ASSUME venue \in Numbered
                 PROVE  /\ \A x \in Q :
                             /\ Number(x) <= f.n /\ (Number(x) = f.n => End(x) = f.pos)
                             /\ \A y \in Q : Chain(Number(y), End(y), x)
                             /\ CurrentBook # NoBook => Chain(CurrentBook.n, CurrentBook.last, x)
                        /\ CurrentBook # NoBook =>
                             CurrentBook.n <= f.n /\ (CurrentBook.n = f.n => CurrentBook.last = f.pos)
    BY <1>3, <1>4 DEF NumberInv, Q, NoBook
  <2>2. /\ \A x \in P :
             /\ Number(x) <= feed.n /\ (Number(x) = feed.n => End(x) = feed.pos)
             /\ \A y \in P : Chain(Number(y), End(y), x)
             /\ CurrentBook # NoBook => Chain(CurrentBook.n, CurrentBook.last, x)
        /\ CurrentBook # NoBook =>
             CurrentBook.n <= feed.n /\ (CurrentBook.n = feed.n => CurrentBook.last = feed.pos)
    BY <1>1, <2>1 DEF NumberInv, P
  <2>3. CASE m \in P /\ f.n = feed.n /\ f.pos = feed.pos
    BY <1>11, <2>2, <2>3
  <2>4. CASE /\ Number(m) = feed.n + 1 /\ f.n = feed.n + 1 /\ End(m) = f.pos
             /\ Kind(m) = "update" => m.events[1].first = feed.pos + 1
    <3>1. CurrentBook # NoBook => CurrentBook.n \in Nat
      BY <1>1 DEF CurrentBook, BookInv, RightBook
    <3>2. \A x \in Q : Number(x) <= f.n /\ (Number(x) = f.n => End(x) = f.pos)
      BY <1>5, <1>6, <1>11, <2>2, <2>4
    <3>3. \A x \in P : Chain(Number(x), End(x), m) /\ Chain(Number(m), End(m), x)
      BY <1>5, <1>6, <2>2, <2>4 DEF Chain
    <3>4. Chain(Number(m), End(m), m)
      BY <1>12 DEF Chain
    <3>5. CurrentBook # NoBook => Chain(CurrentBook.n, CurrentBook.last, m)
      BY <1>6, <2>2, <2>4, <3>1 DEF Chain
    <3>6. CurrentBook # NoBook =>
            CurrentBook.n <= f.n /\ (CurrentBook.n = f.n => CurrentBook.last = f.pos)
      BY <1>6, <2>2, <2>4, <3>1
    <3>7. QED
      BY <1>11, <2>2, <3>2, <3>3, <3>4, <3>5, <3>6
  <2>5. QED
    BY <1>8, <2>1, <2>3, <2>4 DEF Fits, P
<1>18. OrderInv'
  <2>1. Follows(venue, m, m)
    BY <1>12 DEF Follows, Ahead
  <2>2. \A i, j \in Data(queue') : i < j => Follows(venue, queue'[i], queue'[j])
    <3>1. SUFFICES ASSUME NEW i \in Data(queue'), NEW j \in Data(queue'), i < j
                   PROVE  Follows(venue, queue'[i], queue'[j])
      OBVIOUS
    <3>2. i \in Data(queue) /\ queue'[i] = queue[i]
      <4>1. SUFFICES ASSUME i = Len(queue) + 1 PROVE FALSE
        BY <1>7
      <4>2. j \in 1..(Len(queue) + 1)
        BY <1>7
      <4>3. QED
        BY <1>7, <3>1, <4>1, <4>2
    <3>3. QED
      BY <1>1, <1>7, <1>8, <3>1, <3>2 DEF OrderInv, Fits
  <2>3. \A i \in Data(queue') : \A k \in DOMAIN f.recent : Follows(venue, queue'[i], f.recent[k])
    BY <1>1, <1>7, <1>8, <1>10, <2>1 DEF OrderInv, Fits
  <2>4. \A x \in Q : venue \notin Overlapping /\ Counted(venue, x) => End(x) <= f.pos
    <3>1. \A x \in P : venue \notin Overlapping /\ Counted(venue, x) => End(x) <= feed.pos
      BY <1>1 DEF OrderInv, P
    <3>2. venue \notin Overlapping /\ Counted(venue, m) => End(m) <= f.pos
      BY <1>8 DEF Fits
    <3>3. QED
      BY <1>5, <1>6, <1>11, <3>1, <3>2
  <2>5. \A k \in DOMAIN f.recent :
          venue \notin Overlapping /\ Counted(venue, f.recent[k]) => End(f.recent[k]) = f.pos
    BY <1>1, <1>8, <1>10 DEF OrderInv, Fits
  <2>6. QED
    BY <1>3, <2>2, <2>3, <2>4, <2>5 DEF OrderInv, Q
<1>19. ViewInv'
  <2>1. view.last \in Nat
    BY <1>1 DEF TypedInv
  <2>2. view.generation = conn =>
          /\ \A x \in P : Ahead(venue, view.last, x)
          /\ venue \notin Overlapping \cup {"korbit", "coinone"} => view.last <= feed.pos
          /\ Ahead(venue, view.last, m)
    BY <1>1, <1>8 DEF ViewInv, Fits, P
  <2>3. QED
    BY <1>3, <1>6, <1>11, <2>1, <2>2 DEF ViewInv, Q
<1>20. SeenInv'
  BY <1>1, <1>3, <1>4 DEF SeenInv, NoBook
<1>24. BlindInv'
  <2>1. SUFFICES ASSUME venue \in Blind, faults' = 0
                 PROVE  /\ \A i, j \in Data(queue') : i < j => End(queue'[i]) <= First(queue'[j])
                        /\ view.generation = conn => \A i \in Data(queue') : view.last <= First(queue'[i])
    BY <1>3 DEF BlindInv
  <2>2. faults = 0 /\ feed.pos <= First(m)
    BY <2>1 DEF Delivers
  <2>3. /\ \A i \in Data(queue) : End(queue[i]) <= feed.pos
        /\ view.generation = conn => view.last <= feed.pos
    BY <2>1, BlindFacts
  <2>4. First(m) \in Nat
    <3>1. m.events \in Seq(Events) /\ 1 \in DOMAIN m.events
      BY <1>12 DEF Messages, GoodMessage
    <3>2. QED
      BY <3>1, EventsIn DEF First
  <2>5. view.last \in Nat /\ \A i \in Data(queue) : End(queue[i]) \in Nat
    BY <1>1, <1>5 DEF TypedInv, P, Pending
  <2>6. view.generation = conn => \A i \in Data(queue') : view.last <= First(queue'[i])
    BY <1>1, <1>6, <1>7, <2>1, <2>2, <2>3, <2>4, <2>5 DEF BlindInv
  <2>7. ASSUME NEW i \in Data(queue'), NEW j \in Data(queue'), i < j
        PROVE  End(queue'[i]) <= First(queue'[j])
    <3>1. i \in Data(queue) /\ queue'[i] = queue[i]
      <4>1. SUFFICES ASSUME i = Len(queue) + 1 PROVE FALSE
        BY <1>7
      <4>2. j \in 1..(Len(queue) + 1)
        BY <1>7
      <4>3. QED
        BY <1>7, <2>7, <4>1, <4>2
    <3>2. CASE j \in Data(queue) /\ queue'[j] = queue[j]
      BY <1>1, <2>1, <2>2, <2>7, <3>1, <3>2 DEF BlindInv
    <3>3. CASE queue'[j] = m
      BY <1>6, <2>2, <2>3, <2>4, <2>5, <3>1, <3>3
    <3>4. QED
      BY <1>7, <3>2, <3>3
  <2>8. QED
    BY <2>6, <2>7
<1>21. BufferInv'
  <2> DEFINE B == CurrentRefresh.buffer
  <2>1. \A i \in DOMAIN B : B[i].final \in Nat
    <3>1. B = refresh.buffer \/ DOMAIN B = {}
      BY DEF CurrentRefresh
    <3>2. QED
      BY <1>1, <3>1, EventsIn DEF TypedInv
  <2>2. \A i \in DOMAIN B :
          /\ B[i].type = "update" /\ GoodEvent(venue, latest, B[i])
          /\ B[i].final <= f.pos
          /\ \A x \in Q : Ahead(venue, B[i].final, x)
          /\ view.generation = conn => view.last <= B[i].final
    BY <1>1, <1>6, <1>8, <1>11, <2>1 DEF BufferInv, Fits, P
  <2>3. QED
    BY <1>1, <1>3, <1>4, <2>2 DEF BufferInv, Q, NoBook
<1>22. GapInv'
  BY <1>1, <1>3 DEF GapInv
<1>23. QED
  BY <1>13, <1>14, <1>15, <1>16, <1>17, <1>18, <1>19, <1>20, <1>21, <1>22, <1>24 DEF StreamInv

-----------------------------------------------------------------------------
(* The messages of the exchange. *)

LEMMA KeptSame == Kept(queue, queue)
  BY DEF Kept

\* What most steps rest on.
LEMMA UsuallyQuiet ==
  StreamInv =>
    /\ Kept(queue, queue) /\ queue \in Seq(Messages) /\ Len(queue) <= Room /\ faults \in Nat
    /\ queue # <<>> => conn # 0
    /\ latest \in latest..MaxId /\ latest \in 1..MaxId
    /\ feed \in Feeds /\ feed.pos \in feed.pos..latest /\ Len(feed.recent) <= 1
    /\ closing \in BOOLEAN /\ run \in {"running", "returned"}
    /\ feed.pos \in 0..MaxId /\ feed.pos \in Nat /\ feed.n \in Nat /\ feed.asked \in Nat
    /\ feed.snapshot \in {"none", "sent", "lost"}
<1> SUFFICES ASSUME StreamInv
             PROVE  /\ Kept(queue, queue) /\ queue \in Seq(Messages) /\ Len(queue) <= Room /\ faults \in Nat
                    /\ queue # <<>> => conn # 0
                    /\ latest \in latest..MaxId /\ latest \in 1..MaxId
                    /\ feed \in Feeds /\ feed.pos \in feed.pos..latest /\ Len(feed.recent) <= 1
                    /\ closing \in BOOLEAN /\ run \in {"running", "returned"}
                    /\ feed.pos \in 0..MaxId /\ feed.pos \in Nat /\ feed.n \in Nat /\ feed.asked \in Nat
                    /\ feed.snapshot \in {"none", "sent", "lost"}
  OBVIOUS
<1>1. TypedInv /\ FreshInv
  BY DEF StreamInv
<1>2. /\ queue \in Seq(Messages) /\ Len(queue) <= Room /\ faults \in Nat
      /\ feed \in Feeds /\ Len(feed.recent) <= 1
      /\ closing \in BOOLEAN /\ run \in {"running", "returned"} /\ feed.pos <= latest
      /\ latest \in FirstId..MaxId
  BY <1>1 DEF TypedInv
<1>3. /\ feed.pos \in 0..MaxId /\ feed.pos \in Nat /\ feed.n \in Nat /\ feed.asked \in Nat
      /\ feed.snapshot \in {"none", "sent", "lost"}
  BY <1>2, LimitType DEF Feeds
<1>4. latest \in latest..MaxId /\ latest \in 1..MaxId /\ feed.pos \in feed.pos..latest
  BY <1>2, <1>3, LimitType, StreamBookAssumption
<1>5. queue # <<>> => conn # 0
  BY <1>1 DEF FreshInv
<1>6. QED
  BY <1>2, <1>3, <1>4, <1>5, KeptSame

\* What goes on from the channel's position is ahead of everything that is known.
LEMMA NewMessage ==
  ASSUME StreamInv, conn # 0, NEW m \in Messages, End(m) \in Nat,
         feed.snapshot = "none" \/ (Counted(venue, m) => venue \notin Overlapping /\ feed.pos <= End(m))
  PROVE  /\ \A i \in Data(queue) : Follows(venue, queue[i], m)
         /\ view.generation = conn => Ahead(venue, view.last, m)
         /\ \A i \in DOMAIN CurrentRefresh.buffer : Ahead(venue, CurrentRefresh.buffer[i].final, m)
<1>1. TypedInv /\ ChannelInv /\ FreshInv /\ OrderInv /\ ViewInv /\ BufferInv
  BY DEF StreamInv
<1>2. CASE feed.snapshot = "none"
  <2>1. Data(queue) = {} /\ generation # conn
    BY <1>1, <1>2 DEF FreshInv
  <2>2. view.generation # conn
    BY <1>1, <2>1, StreamBookAssumption DEF TypedInv
  <2>3. DOMAIN CurrentRefresh.buffer = {}
    BY <2>1 DEF CurrentRefresh
  <2>4. QED
    BY <2>1, <2>2, <2>3
<1>3. CASE Counted(venue, m) => venue \notin Overlapping /\ feed.pos <= End(m)
  <2>1. feed.pos \in Nat /\ view.last \in Nat
    BY <1>1, LimitType DEF TypedInv, Feeds
  <2>2. \A i \in Data(queue) : queue[i] \in Pending(queue, feed)
    BY DEF Pending
  <2>3. \A x \in Pending(queue, feed) : End(x) \in Nat
    BY <1>1, PendingFacts DEF TypedInv
  <2>4. \A i \in DOMAIN CurrentRefresh.buffer : CurrentRefresh.buffer[i].final \in Nat
    <3>1. CurrentRefresh.buffer = refresh.buffer \/ DOMAIN CurrentRefresh.buffer = {}
      BY DEF CurrentRefresh
    <3>2. QED
      BY <1>1, <3>1, EventsIn DEF TypedInv
  <2>5. \A i \in Data(queue) : Follows(venue, queue[i], m)
    BY <1>1, <1>3, <2>1, <2>2, <2>3 DEF OrderInv, Follows, Ahead
  <2>6. view.generation = conn => Ahead(venue, view.last, m)
    <3>1. Counted(venue, m) => venue \notin Overlapping \cup {"korbit", "coinone"}
      BY <1>3 DEF Counted
    <3>2. QED
      BY <1>1, <1>3, <2>1, <3>1 DEF ViewInv, Ahead
  <2>7. \A i \in DOMAIN CurrentRefresh.buffer : Ahead(venue, CurrentRefresh.buffer[i].final, m)
    BY <1>1, <1>3, <2>1, <2>4 DEF BufferInv, Ahead
  <2>8. QED
    BY <2>5, <2>6, <2>7
<1>4. QED
  BY <1>2, <1>3

\* A message of one event.
LEMMA OneEvent ==
  ASSUME NEW e \in Events
  PROVE  LET m == Message("data", <<e>>)
         IN /\ m \in Messages /\ m.kind = "data" /\ m.events[1] = e /\ m.events = <<e>>
            /\ End(m) = e.final /\ First(m) = e.final /\ Number(m) = e.n /\ Kind(m) = e.type
            /\ GoodEvent(venue, latest, e) => GoodMessage(venue, latest, m)
<1> DEFINE m == Message("data", <<e>>)
           E == Events
<1>1. e \in E
  OBVIOUS
<1> HIDE DEF E
<1>2. <<e>> \in Seq(E) /\ Len(<<e>>) = 1 /\ <<e>>[1] = e /\ DOMAIN <<e>> = {1} /\ <<e>> # <<>>
  BY <1>1
<1>3. m.kind = "data" /\ m.events = <<e>>
  BY DEF Message
<1>4. m \in Messages
  BY <1>2 DEF Message, Messages, E
<1> HIDE DEF m
<1>5. /\ m.events[1] = e /\ End(m) = e.final /\ First(m) = e.final /\ Number(m) = e.n
      /\ Kind(m) = e.type /\ e.final \in Nat
  BY <1>2, <1>3, LimitType DEF End, First, Number, Kind, Events
<1>6. GoodEvent(venue, latest, e) => GoodMessage(venue, latest, m)
  BY <1>2, <1>3, <1>5 DEF GoodMessage
<1>7. QED
  BY <1>3, <1>4, <1>5, <1>6 DEF m

LEMMA TwoEvents ==
  ASSUME NEW d \in Events, NEW e \in Events, d.n = e.n
  PROVE  LET m == Message("data", <<d, e>>)
         IN /\ m \in Messages /\ m.kind = "data" /\ m.events[1] = d
            /\ End(m) = e.final /\ First(m) = d.final /\ Number(m) = d.n /\ Kind(m) = d.type
            /\ (/\ GoodEvent(venue, latest, d) /\ GoodEvent(venue, latest, e) /\ venue \in Batching
                /\ (e.type = "update" => e.first = d.final + 1) /\ d.final <= e.final
                /\ (venue \notin FullBook => d.type = "update" /\ e.type = "update"))
                 => GoodMessage(venue, latest, m)
<1> DEFINE q == <<d, e>>
           m == Message("data", q)
           E == Events
<1>1. d \in E /\ e \in E
  OBVIOUS
<1> HIDE DEF E
<1>2. q \in Seq(E) /\ Len(q) = 2 /\ q[1] = d /\ q[2] = e /\ DOMAIN q = {1, 2} /\ q # <<>>
  BY <1>1
<1> HIDE DEF q
<1>3. m.kind = "data" /\ m.events = q
  BY DEF Message
<1>4. m \in Messages
  BY <1>2 DEF Message, Messages, E
<1> HIDE DEF m
<1>5. m.events[1] = d /\ End(m) = e.final /\ First(m) = d.final /\ Number(m) = d.n /\ Kind(m) = d.type
  BY <1>2, <1>3 DEF End, First, Number, Kind
<1>6. SUFFICES ASSUME GoodEvent(venue, latest, d), GoodEvent(venue, latest, e), venue \in Batching,
                      e.type = "update" => e.first = d.final + 1, d.final <= e.final,
                      venue \notin FullBook => d.type = "update" /\ e.type = "update"
               PROVE  GoodMessage(venue, latest, m)
  BY <1>3, <1>4, <1>5 DEF m, q
<1>7. /\ GoodEvent(venue, latest, q[1]) /\ GoodEvent(venue, latest, q[2])
      /\ q[1].n = Number(m) /\ q[2].n = Number(m)
      /\ q[2].type = "update" => q[2].first = q[2 - 1].final + 1
      /\ venue \notin FullBook => q[1].type = "update" /\ q[2].type = "update"
      /\ q[1].final <= q[2].final /\ q[1].final <= q[1].final /\ q[2].final <= q[2].final
  BY <1>2, <1>5, <1>6, LimitType DEF Events
<1>8. QED
  BY <1>2, <1>3, <1>6, <1>7 DEF GoodMessage

\* The fields of the channel.
LEMMA FeedFacts ==
  ASSUME NEW a \in {"none", "sent", "lost"}, NEW b \in 0..MaxId, NEW c \in Nat,
         NEW r \in Seq(Messages), NEW d \in Nat
  PROVE  /\ Feed(a, b, c, r, d) \in Feeds
         /\ Feed(a, b, c, r, d).snapshot = a /\ Feed(a, b, c, r, d).pos = b
         /\ Feed(a, b, c, r, d).n = c /\ Feed(a, b, c, r, d).recent = r
         /\ Feed(a, b, c, r, d).asked = d
  BY DEF Feed, Feeds

LEMMA Singles == \A m \in Messages : <<m>> \in Seq(Messages) /\ <<>> \in Seq(Messages)
<1> DEFINE M == Messages
<1> HIDE DEF M
<1>1. \A m \in M : <<m>> \in Seq(M) /\ <<>> \in Seq(M)
  OBVIOUS
<1>2. QED
  BY <1>1 DEF M

LEMMA SendSnapshotStep ==
  StreamInv /\ (\E pos \in FirstId..latest : SendSnapshot(pos)) => \E m \in Messages : Delivers(m)
<1> SUFFICES ASSUME StreamInv, NEW pos \in FirstId..latest, SendSnapshot(pos)
             PROVE  \E m \in Messages : Delivers(m)
  OBVIOUS
<1> DEFINE e == Event("snapshot", latest, latest, 1)
           m == Message("data", <<e>>)
           f == Feed("sent", pos, 1, <<m>>, 0)
<1>1. TypedInv /\ FreshInv
  BY DEF StreamInv
<1>2. /\ Open /\ feed.snapshot = "none" /\ venue # "htx" /\ (pos = latest \/ venue \in Overlapping)
      /\ feed' = f /\ queue' = Append(queue, m)
      /\ UNCHANGED <<venue, latest, faults, conn, closing, processorVars, run>>
  BY DEF SendSnapshot, Put, exchangeVars
<1>3. latest \in 1..MaxId /\ latest \in Nat /\ pos \in 1..MaxId /\ pos \in Nat /\ pos <= latest
  BY <1>1, LimitType, StreamBookAssumption DEF TypedInv
<1>4. /\ e \in Events /\ e.final = latest /\ e.n = 1 /\ e.type = "snapshot"
      /\ GoodEvent(venue, latest, e)
  BY <1>2, <1>3 DEF Event, Events, GoodEvent
<1> HIDE DEF e
<1>5. /\ m \in Messages /\ m.kind = "data"
      /\ End(m) = latest /\ First(m) = latest /\ Number(m) = 1 /\ Kind(m) = "snapshot"
      /\ GoodMessage(venue, latest, m)
  BY <1>4, OneEvent
<1> HIDE DEF m
<1>6. /\ f \in Feeds /\ f.snapshot = "sent" /\ f.pos = pos /\ f.n = 1 /\ f.recent = <<m>> /\ f.asked = 0
  <2> DEFINE r == <<m>>
  <2>1. r \in Seq(Messages) /\ f = Feed("sent", pos, 1, r, 0) /\ pos \in 0..MaxId
    BY <1>3, <1>5, Singles
  <2> HIDE DEF r, f
  <2>2. /\ f \in Feeds /\ f.snapshot = "sent" /\ f.pos = pos /\ f.n = 1 /\ f.recent = r /\ f.asked = 0
    BY <2>1, FeedFacts
  <2>3. QED
    BY <2>2 DEF r
<1> HIDE DEF f
<1>7. feed.pos = 0 /\ feed.n = 0 /\ conn # 0
  BY <1>1, <1>2 DEF FreshInv, NoFeed, Feed, Open
<1>8. /\ \A i \in Data(queue) : Follows(venue, queue[i], m)
      /\ view.generation = conn => Ahead(venue, view.last, m)
      /\ \A i \in DOMAIN CurrentRefresh.buffer : Ahead(venue, CurrentRefresh.buffer[i].final, m)
  BY <1>2, <1>3, <1>5, <1>7, NewMessage
<1>9. venue \notin Overlapping => End(m) = f.pos
  BY <1>2, <1>5, <1>6
<1>10. venue \in Numbered => venue \notin Overlapping
  BY DEF Numbered, Overlapping
<1>11. Fits(m, f)
  BY <1>3, <1>5, <1>6, <1>7, <1>8, <1>9, <1>10 DEF Fits
<1>12. faults' \in Nat /\ (faults' = 0 => faults = 0 /\ (venue \in Blind => feed.pos <= First(m)))
  BY <1>2, <1>3, <1>5, <1>7, UsuallyQuiet
<1>13. QED
  BY <1>2, <1>3, <1>5, <1>6, <1>7, <1>11, <1>12 DEF Delivers

\* The next event of the channel.
LEMMA DataEventFacts ==
  ASSUME StreamInv, NEW after \in Nat, NEW n \in 1..latest, after <= n,
         venue = "krakenFutures" => n = after + 1
  PROVE  /\ DataEvent(after, n) \in Events /\ GoodEvent(venue, latest, DataEvent(after, n))
         /\ DataEvent(after, n).final = n /\ DataEvent(after, n).n = feed.n + 1
         /\ DataEvent(after, n).type = (IF venue \in FullBook THEN "snapshot" ELSE "update")
         /\ DataEvent(after, n).type = "update" => DataEvent(after, n).first = after + 1
<1>1. latest \in 1..MaxId /\ feed.n \in Nat /\ n \in Nat /\ n <= latest /\ latest \in Nat
  BY LimitType, StreamBookAssumption DEF StreamInv, TypedInv, Feeds
<1>2. n \in 1..MaxId
  BY <1>1, LimitType
<1>3. CASE venue \in FullBook
  BY <1>1, <1>2, <1>3 DEF DataEvent, Event, Events, GoodEvent, FullBook
<1>4. CASE venue \notin FullBook
  BY <1>1, <1>2, <1>4 DEF DataEvent, Event, Events, GoodEvent, FullBook
<1>5. QED
  BY <1>3, <1>4

LEMMA SendStep == StreamInv /\ SendSome => \E m \in Messages : Delivers(m)
<1> SUFFICES ASSUME StreamInv, NEW n \in feed.pos + 1..latest, Send(n)
             PROVE  \E m \in Messages : Delivers(m)
  BY DEF SendSome
<1> DEFINE e == DataEvent(feed.pos, n)
           m == Message("data", <<e>>)
           f == Feed(feed.snapshot, n, feed.n + 1, <<m>>, feed.asked)
<1>1. TypedInv /\ FreshInv
  BY DEF StreamInv
<1>2. /\ Open /\ feed.snapshot # "none" /\ (venue = "krakenFutures" => n = feed.pos + 1)
      /\ feed' = f /\ queue' = Append(queue, m)
      /\ UNCHANGED <<venue, latest, faults, conn, closing, processorVars, run>>
  BY DEF Send, Sent, Put, exchangeVars
<1>3. /\ latest \in 1..MaxId /\ feed.pos \in Nat /\ n \in 1..latest /\ n \in 0..MaxId /\ feed.pos < n
      /\ feed.n \in Nat /\ feed.asked \in Nat /\ feed.snapshot \in {"none", "sent", "lost"} /\ n \in Nat
  <2>1. /\ latest \in 1..MaxId /\ latest \in Nat /\ feed.pos \in Nat
        /\ feed.n \in Nat /\ feed.asked \in Nat /\ feed.snapshot \in {"none", "sent", "lost"}
    BY UsuallyQuiet, LimitType
  <2>2. QED
    BY <2>1, LimitType
<1>4. /\ e \in Events /\ GoodEvent(venue, latest, e) /\ e.final = n /\ e.n = feed.n + 1
      /\ e.type = (IF venue \in FullBook THEN "snapshot" ELSE "update")
      /\ e.type = "update" => e.first = feed.pos + 1
  BY <1>2, <1>3, DataEventFacts
<1> HIDE DEF e
<1>5. /\ m \in Messages /\ m.kind = "data" /\ m.events[1] = e
      /\ End(m) = n /\ First(m) = n /\ Number(m) = feed.n + 1 /\ Kind(m) = e.type
      /\ GoodMessage(venue, latest, m)
  BY <1>4, OneEvent
<1> HIDE DEF m
<1>6. /\ f \in Feeds /\ f.snapshot = feed.snapshot /\ f.pos = n /\ f.n = feed.n + 1 /\ f.recent = <<m>>
      /\ f.asked = feed.asked
  <2> DEFINE c == feed.n + 1
             r == <<m>>
  <2>1. /\ feed.snapshot \in {"none", "sent", "lost"} /\ n \in 0..MaxId /\ c \in Nat
        /\ m \in Messages /\ feed.asked \in Nat
    BY <1>3, <1>5
  <2>2. r \in Seq(Messages) /\ f = Feed(feed.snapshot, n, c, r, feed.asked)
    BY <2>1, Singles
  <2> HIDE DEF c, r, f
  <2>3. /\ f \in Feeds /\ f.snapshot = feed.snapshot /\ f.pos = n /\ f.n = c /\ f.recent = r
        /\ f.asked = feed.asked
    BY <2>1, <2>2, FeedFacts
  <2>4. QED
    BY <2>3 DEF c, r
<1> HIDE DEF f
<1>7. conn # 0 /\ (feed.asked # 0 => venue = "htx")
  BY <1>1, <1>2 DEF FreshInv, Open
<1>8. Counted(venue, m) => venue \notin Overlapping
  BY <1>4, <1>5 DEF Counted, Overlapping, FullBook
<1>9. /\ \A i \in Data(queue) : Follows(venue, queue[i], m)
      /\ view.generation = conn => Ahead(venue, view.last, m)
      /\ \A i \in DOMAIN CurrentRefresh.buffer : Ahead(venue, CurrentRefresh.buffer[i].final, m)
  BY <1>3, <1>5, <1>7, <1>8, NewMessage
<1>10. Fits(m, f)
  BY <1>3, <1>4, <1>5, <1>6, <1>9 DEF Fits
<1>11. faults' \in Nat /\ (faults' = 0 => faults = 0 /\ (venue \in Blind => feed.pos <= First(m)))
  BY <1>2, <1>3, <1>5, UsuallyQuiet
<1>12. QED
  BY <1>2, <1>3, <1>5, <1>6, <1>7, <1>10, <1>11 DEF Delivers

LEMMA SendBatchStep ==
  StreamInv /\ (\E n \in feed.pos + 2..latest : \E k \in feed.pos + 1..n - 1 : SendBatch(k, n))
    => \E m \in Messages : Delivers(m)
<1> SUFFICES ASSUME StreamInv, NEW n \in feed.pos + 2..latest, NEW k \in feed.pos + 1..n - 1, SendBatch(k, n)
             PROVE  \E m \in Messages : Delivers(m)
  OBVIOUS
<1> DEFINE d == DataEvent(feed.pos, k)
           e == DataEvent(k, n)
           m == Message("data", <<d, e>>)
           f == Feed(feed.snapshot, n, feed.n + 1, <<m>>, feed.asked)
<1>1. TypedInv /\ FreshInv
  BY DEF StreamInv
<1>2. /\ Open /\ feed.snapshot # "none" /\ venue \in Batching
      /\ feed' = f /\ queue' = Append(queue, m)
      /\ UNCHANGED <<venue, latest, faults, conn, closing, processorVars, run>>
  BY DEF SendBatch, Sent, Put, exchangeVars
<1>3. /\ latest \in 1..MaxId /\ feed.pos \in Nat /\ n \in 1..latest /\ n \in 0..MaxId /\ feed.pos < k
      /\ k < n /\ k \in 1..latest /\ k \in Nat /\ n \in Nat
      /\ feed.n \in Nat /\ feed.asked \in Nat /\ feed.snapshot \in {"none", "sent", "lost"}
  <2>1. /\ latest \in 1..MaxId /\ latest \in Nat /\ feed.pos \in Nat
        /\ feed.n \in Nat /\ feed.asked \in Nat /\ feed.snapshot \in {"none", "sent", "lost"}
    BY UsuallyQuiet, LimitType
  <2>2. QED
    BY <2>1, LimitType
<1>4. venue # "krakenFutures" /\ venue \notin Overlapping
  BY <1>2 DEF Batching, Overlapping
<1>5. /\ d \in Events /\ GoodEvent(venue, latest, d) /\ d.final = k /\ d.n = feed.n + 1
      /\ d.type = "update" => d.first = feed.pos + 1
      /\ d.type = (IF venue \in FullBook THEN "snapshot" ELSE "update")
  BY <1>3, <1>4, DataEventFacts
<1>6. /\ e \in Events /\ GoodEvent(venue, latest, e) /\ e.final = n /\ e.n = feed.n + 1
      /\ e.type = "update" => e.first = k + 1
      /\ e.type = (IF venue \in FullBook THEN "snapshot" ELSE "update")
  BY <1>3, <1>4, DataEventFacts
<1> HIDE DEF d, e
<1>7. /\ m \in Messages /\ m.kind = "data" /\ m.events[1] = d
      /\ End(m) = n /\ First(m) = k /\ Number(m) = feed.n + 1 /\ Kind(m) = d.type
      /\ GoodMessage(venue, latest, m)
  BY <1>2, <1>3, <1>5, <1>6, TwoEvents
<1> HIDE DEF m
<1>8. /\ f \in Feeds /\ f.snapshot = feed.snapshot /\ f.pos = n /\ f.n = feed.n + 1 /\ f.recent = <<m>>
      /\ f.asked = feed.asked
  <2> DEFINE c == feed.n + 1
             r == <<m>>
  <2>1. /\ feed.snapshot \in {"none", "sent", "lost"} /\ n \in 0..MaxId /\ c \in Nat
        /\ m \in Messages /\ feed.asked \in Nat
    BY <1>3, <1>7
  <2>2. r \in Seq(Messages) /\ f = Feed(feed.snapshot, n, c, r, feed.asked)
    BY <2>1, Singles
  <2> HIDE DEF c, r, f
  <2>3. /\ f \in Feeds /\ f.snapshot = feed.snapshot /\ f.pos = n /\ f.n = c /\ f.recent = r
        /\ f.asked = feed.asked
    BY <2>1, <2>2, FeedFacts
  <2>4. QED
    BY <2>3 DEF c, r
<1> HIDE DEF f
<1>9. conn # 0 /\ (feed.asked # 0 => venue = "htx")
  BY <1>1, <1>2 DEF FreshInv, Open
<1>10. feed.pos <= End(m)
  BY <1>3, <1>7
<1>11. /\ \A i \in Data(queue) : Follows(venue, queue[i], m)
       /\ view.generation = conn => Ahead(venue, view.last, m)
       /\ \A i \in DOMAIN CurrentRefresh.buffer : Ahead(venue, CurrentRefresh.buffer[i].final, m)
  BY <1>3, <1>4, <1>7, <1>9, <1>10, NewMessage
<1>12. Fits(m, f)
  BY <1>3, <1>5, <1>7, <1>8, <1>11 DEF Fits
<1>13. n \in feed.pos..latest /\ n # 0
  BY <1>3
<1>14. faults' \in Nat /\ (faults' = 0 => faults = 0 /\ (venue \in Blind => feed.pos <= First(m)))
  BY <1>2, <1>3, <1>7, UsuallyQuiet
<1>15. QED
  BY <1>2, <1>7, <1>8, <1>9, <1>12, <1>13, <1>14 DEF Delivers

LEMMA SendHeartbeatStep == StreamInv /\ SendHeartbeat => \E m \in Messages : Delivers(m)
<1> SUFFICES ASSUME StreamInv, SendHeartbeat PROVE \E m \in Messages : Delivers(m)
  OBVIOUS
<1> DEFINE e == DataEvent(feed.pos, feed.pos)
           m == Message("data", <<e>>)
           f == feed'
<1>1. TypedInv /\ FreshInv /\ OrderInv
  BY DEF StreamInv
<1>2. /\ Open /\ feed.snapshot # "none" /\ venue = "okx" /\ queue' = Append(queue, m)
      /\ feed' = [feed EXCEPT !.n = @ + 1]
      /\ UNCHANGED <<venue, latest, faults, conn, closing, processorVars, run>>
  BY DEF SendHeartbeat, Put, exchangeVars
<1>3. /\ latest \in 1..MaxId /\ feed.pos \in Nat /\ feed.pos \in 1..latest /\ feed \in Feeds
  <2>1. /\ latest \in 1..MaxId /\ feed.pos \in Nat /\ feed.pos <= latest /\ feed \in Feeds
    BY <1>1, LimitType, StreamBookAssumption DEF TypedInv, Feeds
  <2>2. feed.pos # 0
    BY <1>1, <1>2 DEF FreshInv
  <2>3. QED
    BY <2>1, <2>2, LimitType
<1>4. /\ e \in Events /\ GoodEvent(venue, latest, e) /\ e.final = feed.pos
  BY <1>2, <1>3, DataEventFacts
<1> HIDE DEF e
<1>5. /\ m \in Messages /\ m.kind = "data" /\ End(m) = feed.pos /\ GoodMessage(venue, latest, m)
  BY <1>4, OneEvent
<1> HIDE DEF m
<1>6. /\ f \in Feeds /\ f.snapshot = feed.snapshot /\ f.pos = feed.pos /\ f.recent = feed.recent
      /\ f.asked = feed.asked
  BY <1>2, <1>3 DEF Feeds
<1>7. conn # 0 /\ (feed.asked # 0 => venue = "htx")
  BY <1>1, <1>2 DEF FreshInv, Open
<1>8. venue \notin Overlapping /\ venue \notin Numbered
  BY <1>2 DEF Overlapping, Numbered
<1>9. feed.pos <= End(m) /\ End(m) \in Nat
  BY <1>3, <1>5
<1>10. /\ \A i \in Data(queue) : Follows(venue, queue[i], m)
       /\ view.generation = conn => Ahead(venue, view.last, m)
       /\ \A i \in DOMAIN CurrentRefresh.buffer : Ahead(venue, CurrentRefresh.buffer[i].final, m)
  BY <1>5, <1>7, <1>8, <1>9, NewMessage
<1>11. \A k \in DOMAIN feed.recent : Follows(venue, m, feed.recent[k])
  BY <1>1, <1>3, <1>5, <1>8 DEF OrderInv, Follows, Ahead
<1> HIDE DEF f
<1>12. Fits(m, f)
  BY <1>3, <1>5, <1>6, <1>8, <1>10, <1>11 DEF Fits
<1>13. faults' \in Nat /\ (faults' = 0 => faults = 0 /\ (venue \in Blind => feed.pos <= First(m)))
  BY <1>2, UsuallyQuiet DEF Blind
<1>14. QED
  BY <1>2, <1>3, <1>5, <1>6, <1>7, <1>12, <1>13 DEF Delivers, f

LEMMA SendRefreshStep ==
  StreamInv /\ (\E n \in FirstId..latest : SendRefresh(n)) => \E m \in Messages : Delivers(m)
<1> SUFFICES ASSUME StreamInv, NEW n \in FirstId..latest, SendRefresh(n)
             PROVE  \E m \in Messages : Delivers(m)
  OBVIOUS
<1> DEFINE e == Event("refresh", n, n, feed.asked)
           m == Message("data", <<e>>)
           f == Feed(feed.snapshot, feed.pos, feed.n, <<m>>, 0)
<1>1. TypedInv /\ FreshInv
  BY DEF StreamInv
<1>2. /\ Open /\ feed.asked # 0 /\ feed' = f /\ queue' = Append(queue, m)
      /\ faults' = (IF n >= feed.pos THEN faults ELSE faults + 1)
      /\ UNCHANGED <<venue, latest, conn, closing, processorVars, run>>
  BY DEF SendRefresh, Put
<1>3. /\ latest \in 1..MaxId /\ feed.pos \in Nat /\ feed.pos \in 0..MaxId /\ feed.pos <= latest
      /\ n \in 1..MaxId /\ n \in Nat /\ n <= latest
      /\ feed.n \in Nat /\ feed.asked \in Nat /\ feed.snapshot \in {"none", "sent", "lost"}
  BY <1>1, LimitType, StreamBookAssumption DEF TypedInv, Feeds
<1>4. venue = "htx" /\ feed.snapshot # "none" /\ feed.pos # 0 /\ conn # 0
  BY <1>1, <1>2 DEF FreshInv, Open, NoFeed, Feed
<1>5. /\ e \in Events /\ e.final = n /\ e.type = "refresh" /\ GoodEvent(venue, latest, e)
  BY <1>3, <1>4 DEF Event, Events, GoodEvent
<1> HIDE DEF e
<1>6. /\ m \in Messages /\ m.kind = "data" /\ End(m) = n /\ Kind(m) = "refresh"
      /\ GoodMessage(venue, latest, m)
  BY <1>5, OneEvent
<1> HIDE DEF m
<1>7. /\ f \in Feeds /\ f.snapshot = feed.snapshot /\ f.pos = feed.pos /\ f.n = feed.n /\ f.recent = <<m>>
      /\ f.asked = 0
  <2> DEFINE r == <<m>>
  <2>1. r \in Seq(Messages) /\ f = Feed(feed.snapshot, feed.pos, feed.n, r, 0)
    BY <1>6, Singles
  <2> HIDE DEF r, f
  <2>2. /\ f \in Feeds /\ f.snapshot = feed.snapshot /\ f.pos = feed.pos /\ f.n = feed.n /\ f.recent = r
        /\ f.asked = 0
    BY <1>3, <2>1 DEF Feed, Feeds
  <2>3. QED
    BY <2>2 DEF r
<1> HIDE DEF f
<1>8. ~Counted(venue, m) /\ venue \notin Numbered
  BY <1>4, <1>6 DEF Counted, Numbered, Overlapping
<1>9. /\ \A i \in Data(queue) : Follows(venue, queue[i], m)
      /\ view.generation = conn => Ahead(venue, view.last, m)
      /\ \A i \in DOMAIN CurrentRefresh.buffer : Ahead(venue, CurrentRefresh.buffer[i].final, m)
  BY <1>3, <1>4, <1>6, <1>8, NewMessage
<1>10. Fits(m, f)
  BY <1>6, <1>7, <1>8, <1>9 DEF Fits
<1>11. faults' \in Nat /\ (faults' = 0 => faults = 0 /\ (venue \in Blind => feed.pos <= First(m)))
  BY <1>2, <1>4, UsuallyQuiet DEF Blind
<1>12. QED
  BY <1>2, <1>3, <1>4, <1>6, <1>7, <1>10, <1>11 DEF Delivers

LEMMA RepeatStep == StreamInv /\ Repeat => \E m \in Messages : Delivers(m)
<1> SUFFICES ASSUME StreamInv, Repeat PROVE \E m \in Messages : Delivers(m)
  OBVIOUS
<1> DEFINE m == Head(feed.recent)
           M == Messages
<1>1. TypedInv /\ ChannelInv /\ FreshInv /\ OrderInv /\ ViewInv /\ BufferInv
  BY DEF StreamInv
<1>2. /\ Open /\ feed.recent # <<>> /\ queue' = Append(queue, m) /\ feed' = feed
      /\ faults' = faults + 1
      /\ UNCHANGED <<venue, latest, conn, closing, processorVars, run>>
  BY DEF Repeat, Put
<1>3. /\ feed.recent \in Seq(M) /\ Len(feed.recent) <= 1 /\ latest \in Nat /\ feed.pos \in Nat
      /\ feed.pos <= latest /\ feed \in Feeds
  BY <1>1, StreamBookAssumption, LimitType DEF TypedInv, Feeds
<1> HIDE DEF M
<1>4. m = feed.recent[1] /\ DOMAIN feed.recent = {1}
  BY <1>2, <1>3
<1> HIDE DEF m
<1>5. m \in Pending(queue, feed)
  BY <1>4 DEF Pending
<1>6. m \in Messages /\ m.kind = "data" /\ GoodMessage(venue, latest, m) /\ End(m) \in Nat
  BY <1>1, <1>5, PendingFacts DEF TypedInv
<1>7. feed.snapshot # "none" /\ feed.pos # 0 /\ (feed.asked # 0 => venue = "htx")
  BY <1>1, <1>2 DEF FreshInv, NoFeed, Feed
<1>8. \A k \in DOMAIN feed.recent : Follows(venue, m, feed.recent[k])
  BY <1>4, <1>6 DEF Follows, Ahead
<1>9. Fits(m, feed)
  BY <1>1, <1>4, <1>5, <1>6, <1>8 DEF Fits, OrderInv, ViewInv, BufferInv
<1>10. faults' \in Nat /\ faults' # 0
  BY <1>2, UsuallyQuiet
<1>11. QED
  BY <1>2, <1>3, <1>6, <1>7, <1>9, <1>10 DEF Delivers

LEMMA SendOldStep ==
  StreamInv /\ (\E n \in FirstId..feed.pos - 1 : SendOld(n)) => \E m \in Messages : Delivers(m)
<1> SUFFICES ASSUME StreamInv, NEW n \in FirstId..feed.pos - 1, SendOld(n)
             PROVE  \E m \in Messages : Delivers(m)
  OBVIOUS
<1> DEFINE e == Event("snapshot", n, n, feed.n)
           m == Message("data", <<e>>)
<1>1. TypedInv /\ FreshInv
  BY DEF StreamInv
<1>2. /\ Open /\ venue \in {"korbit", "coinone"} /\ feed' = feed /\ queue' = Append(queue, m)
      /\ faults' = faults + 1
      /\ UNCHANGED <<venue, latest, conn, closing, processorVars, run>>
  BY DEF SendOld, Put
<1>3. /\ latest \in 1..MaxId /\ feed.pos \in Nat /\ feed.pos # 0 /\ feed.pos <= latest /\ feed.n \in Nat
      /\ n \in 1..MaxId /\ n \in Nat /\ n <= latest /\ feed \in Feeds
  BY <1>1, LimitType, StreamBookAssumption DEF TypedInv, Feeds
<1>4. feed.snapshot # "none" /\ (feed.asked # 0 => venue = "htx") /\ conn # 0
  BY <1>1, <1>2, <1>3 DEF FreshInv, NoFeed, Feed, Open
<1>5. /\ e \in Events /\ e.final = n /\ e.type = "snapshot" /\ GoodEvent(venue, latest, e)
  BY <1>2, <1>3 DEF Event, Events, GoodEvent
<1> HIDE DEF e
<1>6. /\ m \in Messages /\ m.kind = "data" /\ End(m) = n /\ GoodMessage(venue, latest, m)
  BY <1>5, OneEvent
<1> HIDE DEF m
<1>7. ~Counted(venue, m) /\ venue \notin Numbered /\ \A x : ~Counted(venue, x)
  BY <1>2 DEF Counted, Numbered, Overlapping
<1>8. /\ \A i \in Data(queue) : Follows(venue, queue[i], m)
      /\ view.generation = conn => Ahead(venue, view.last, m)
      /\ \A i \in DOMAIN CurrentRefresh.buffer : Ahead(venue, CurrentRefresh.buffer[i].final, m)
  BY <1>3, <1>4, <1>6, <1>7, NewMessage
<1>9. \A k \in DOMAIN feed.recent : Follows(venue, m, feed.recent[k])
  BY <1>7 DEF Follows
<1>10. Fits(m, feed)
  BY <1>6, <1>7, <1>8, <1>9 DEF Fits
<1>11. faults' \in Nat /\ faults' # 0
  BY <1>2, UsuallyQuiet
<1>12. QED
  BY <1>2, <1>3, <1>4, <1>6, <1>10, <1>11 DEF Delivers

-----------------------------------------------------------------------------
(* The steps that bring no data. *)

LEMMA KeptTail ==
  ASSUME NEW q \in Seq(Messages), q # <<>>, NEW q2, q2 = Tail(q)
  PROVE  Kept(q2, q)
<1>1. \A i \in Data(q2) : i + 1 \in Data(q) /\ q2[i] = q[i + 1] /\ i \in Nat
  BY TailFacts
<1>2. \A i, j \in Data(q2) : i < j => i + 1 < j + 1
  BY <1>1
<1>3. QED
  BY <1>1, <1>2 DEF Kept

LEMMA UpdateStep == StreamInv /\ Update => Quiet
<1> SUFFICES ASSUME StreamInv, Update PROVE Quiet
  OBVIOUS
<1>1. latest' \in latest..MaxId /\ feed.pos \in feed.pos..latest'
  BY UsuallyQuiet, LimitType DEF Update
<1>2. UNCHANGED <<venue, faults, conn, closing, feed, queue, processorVars, run>>
  BY DEF Update
<1>3. QED
  BY <1>1, <1>2, UsuallyQuiet DEF Quiet

LEMMA LeaveStep == StreamInv /\ Leave => Quiet
<1> SUFFICES ASSUME StreamInv, Leave PROVE Quiet
  OBVIOUS
<1>1. UNCHANGED <<venue, latest, faults, conn, closing, feed, queue, processorVars>> /\ run' = "returned"
  BY DEF Leave, exchangeVars
<1>2. QED
  BY <1>1, UsuallyQuiet DEF Quiet

LEMMA ReturnedStep == StreamInv /\ UNCHANGED streamBookVars => Quiet
<1> SUFFICES ASSUME StreamInv, UNCHANGED streamBookVars PROVE Quiet
  OBVIOUS
<1>1. UNCHANGED <<venue, latest, faults, conn, closing, feed, queue, processorVars, run>>
  BY DEF streamBookVars, exchangeVars
<1>2. QED
  BY <1>1, UsuallyQuiet DEF Quiet

LEMMA HandleControlStep == StreamInv /\ HandleControl => Quiet
<1> SUFFICES ASSUME StreamInv, HandleControl PROVE Quiet
  OBVIOUS
<1>1. /\ queue # <<>> /\ queue' = Tail(queue)
      /\ UNCHANGED <<venue, latest, faults, conn, feed, processorVars>>
  BY DEF HandleControl, exchangeVars
<1>2. /\ queue' \in Seq(Messages) /\ Len(queue') <= Room /\ Kept(queue', queue) /\ conn # 0
  <2>1. queue \in Seq(Messages) /\ Len(queue) <= Room /\ conn # 0
    BY <1>1, UsuallyQuiet
  <2>2. queue' \in Seq(Messages) /\ Len(queue') = Len(queue) - 1 /\ Len(queue) \in Nat
    BY <1>1, <2>1, TailFacts
  <2>3. Kept(queue', queue)
    BY <1>1, <2>1, KeptTail
  <2>4. Len(queue') <= Room
    BY <2>1, <2>2, StreamBookAssumption DEF Room
  <2>5. QED
    BY <2>1, <2>2, <2>3, <2>4
<1>3. closing' \in BOOLEAN /\ run' \in {"running", "returned"}
  <2> DEFINE out == OnControl(Head(queue).kind)
  <2>1. /\ out = "ignore" => UNCHANGED <<closing, run>>
        /\ out = "error" => run' = "returned" /\ UNCHANGED closing
        /\ out = "reconnect" => Reconnect
    BY DEF HandleControl
  <2>2. out \in {"ignore", "error", "reconnect"}
    BY StreamBookAssumption DEF StreamInv, TypedInv, AllVenues, OnControl, Control, EndsOn, OkxRun, BybitRun,
       BitgetRun, CoinbaseRun, GateioRun, GateioFuturesRun, KucoinRun, KucoinFuturesRun, CryptocomRun,
       UpbitRun, BithumbRun, KorbitRun, CoinoneRun, KrakenRun, KrakenFuturesRun, HtxRun
  <2> HIDE DEF out
  <2>3. QED
    BY <2>1, <2>2, UsuallyQuiet DEF Reconnect
<1>4. QED
  BY <1>1, <1>2, <1>3, UsuallyQuiet DEF Quiet

LEMMA SendControlStep ==
  StreamInv /\ (\E kind \in {"refused", "notice", "malformed", "other"} : SendControl(kind)) => Quiet
<1> SUFFICES ASSUME StreamInv, NEW kind \in {"refused", "notice", "malformed", "other"}, SendControl(kind)
             PROVE  Quiet
  OBVIOUS
<1> DEFINE m == Message(kind, <<>>)
<1>1. /\ Open /\ Appended(queue', queue, m)
      /\ faults' = faults + 1
      /\ UNCHANGED <<venue, latest, conn, closing, feed, processorVars, run>>
  BY DEF SendControl, Put, Appended
<1>2. m \in Messages /\ m.kind # "data"
  <2> DEFINE E == Events
  <2>1. <<>> \in Seq(E)
    OBVIOUS
  <2>2. QED
    BY <2>1 DEF Message, Messages
<1> HIDE DEF m
<1>3. queue \in Seq(Messages)
  BY UsuallyQuiet
<1>4. /\ queue' \in Seq(Messages) /\ Len(queue') = Len(queue) + 1 /\ Len(queue) \in Nat
      /\ \A i \in Data(queue') : i \in Data(queue) /\ queue'[i] = queue[i]
  BY <1>1, <1>2, <1>3, AppendFacts
<1>5. Kept(queue', queue)
  BY <1>4 DEF Kept
<1>6. conn # 0 /\ Len(queue') <= Room
  BY <1>1, <1>4, StreamBookAssumption DEF Open, Room
<1>7. QED
  BY <1>1, <1>4, <1>5, <1>6, UsuallyQuiet DEF Quiet

LEMMA HtxSubscribedStep == StreamInv /\ HtxSubscribed => Quiet
<1> SUFFICES ASSUME StreamInv, HtxSubscribed PROVE Quiet
  OBVIOUS
<1>1. /\ venue = "htx" /\ conn # 0 /\ feed.snapshot = "none"
      /\ feed' = Feed("sent", latest, 0, <<>>, 0)
      /\ UNCHANGED <<venue, latest, faults, conn, closing, queue, processorVars, run>>
  BY DEF HtxSubscribed, Open, exchangeVars
<1>2. latest \in 0..MaxId /\ latest \in Nat /\ latest # 0
  BY UsuallyQuiet, LimitType
<1>3. /\ feed' \in Feeds /\ feed'.snapshot = "sent" /\ feed'.pos = latest /\ feed'.recent = <<>>
      /\ feed'.asked = 0
  <2> DEFINE r == <<>>
             M == Messages
  <2>1. r \in Seq(M)
    OBVIOUS
  <2> HIDE DEF r
  <2>2. feed' = Feed("sent", latest, 0, r, 0)
    BY <1>1 DEF r
  <2>3. /\ feed' \in Feeds /\ feed'.snapshot = "sent" /\ feed'.pos = latest /\ feed'.recent = r
        /\ feed'.asked = 0
    BY <1>2, <2>1, <2>2 DEF Feed, Feeds
  <2>4. QED
    BY <2>3 DEF r
<1>4. Len(feed'.recent) <= 1 /\ latest \in feed.pos..latest /\ venue \notin Numbered
  BY <1>1, <1>2, <1>3, UsuallyQuiet DEF Numbered
<1>5. QED
  BY <1>1, <1>2, <1>3, <1>4, UsuallyQuiet DEF Quiet

LEMMA LoseRefreshStep == StreamInv /\ LoseRefresh => Quiet
<1> SUFFICES ASSUME StreamInv, LoseRefresh PROVE Quiet
  OBVIOUS
<1>1. /\ feed.asked # 0 /\ feed' = [feed EXCEPT !.asked = 0]
      /\ faults' = faults + 1
      /\ UNCHANGED <<venue, latest, conn, closing, queue, processorVars, run>>
  BY DEF LoseRefresh
<1>2. feed.snapshot # "none" /\ conn # 0 /\ feed.pos # 0
  BY <1>1 DEF StreamInv, FreshInv, NoFeed, Feed
<1>3. /\ feed' \in Feeds /\ feed'.snapshot = feed.snapshot /\ feed'.pos = feed.pos
      /\ feed'.recent = feed.recent /\ feed'.asked = 0 /\ feed'.n = feed.n
  BY <1>1, UsuallyQuiet DEF Feeds
<1>4. QED
  BY <1>1, <1>2, <1>3, UsuallyQuiet DEF Quiet

LEMMA LoseStep ==
  StreamInv /\ ((\E n \in feed.pos + 1..latest : Lose(n)) \/ (Lose(latest) /\ feed.snapshot = "none"))
    => Quiet
<1> SUFFICES ASSUME StreamInv, NEW n \in Nat, Lose(n), n \in feed.pos + 1..latest \/ feed.snapshot = "none"
             PROVE  Quiet
  BY UsuallyQuiet, LimitType
<1>1. /\ conn # 0
      /\ feed' = IF feed.snapshot = "none" THEN Feed("lost", latest, 1, <<>>, 0)
                 ELSE Feed(feed.snapshot, n, feed.n + 1, <<>>, feed.asked)
      /\ faults' = faults + 1
      /\ UNCHANGED <<venue, latest, conn, closing, queue, processorVars, run>>
  BY DEF Lose
<1>2. latest \in 0..MaxId /\ latest \in Nat /\ latest # 0
  BY UsuallyQuiet, LimitType
<1>3. feed.snapshot = "none" => feed.pos = 0 /\ feed.n = 0 /\ feed.asked = 0
  BY DEF StreamInv, FreshInv, NoFeed, Feed
<1> DEFINE r == <<>>
           M == Messages
<1>4. r \in Seq(M) /\ Len(r) <= 1
  OBVIOUS
<1> HIDE DEF r
<1>5. \E a \in {"sent", "lost"}, b \in 0..MaxId :
        feed' = Feed(a, b, feed.n + 1, r, feed.asked) /\ b \in feed.pos..latest /\ b # 0
  <2>1. CASE feed.snapshot = "none"
    BY <1>1, <1>2, <1>3, <2>1 DEF r
  <2>2. CASE feed.snapshot # "none"
    <3>1. n \in 0..MaxId /\ n \in feed.pos..latest /\ n # 0
      BY <1>2, <2>2, UsuallyQuiet, LimitType
    <3>2. feed.snapshot \in {"sent", "lost"}
      BY <2>2, UsuallyQuiet
    <3>3. QED
      BY <1>1, <2>2, <3>1, <3>2 DEF r
  <2>3. QED
    BY <2>1, <2>2
<1>6. PICK a \in {"sent", "lost"}, b \in 0..MaxId :
        feed' = Feed(a, b, feed.n + 1, r, feed.asked) /\ b \in feed.pos..latest /\ b # 0
  BY <1>5
<1>7. feed.n + 1 \in Nat /\ feed.n + 1 > feed.n /\ feed.asked \in Nat
  BY UsuallyQuiet
<1>8. /\ feed' \in Feeds /\ feed'.snapshot = a /\ feed'.pos = b /\ feed'.recent = r
      /\ feed'.asked = feed.asked /\ feed'.n = feed.n + 1
  BY <1>4, <1>6, <1>7 DEF Feed, Feeds
<1>9. faults' \in Nat /\ faults' # 0
  BY <1>1, UsuallyQuiet
<1>10. /\ feed'.pos \in feed.pos..latest' /\ Len(feed'.recent) <= 1 /\ feed'.n > feed.n
       /\ feed'.snapshot # "none" /\ feed'.pos # 0 /\ feed'.recent = <<>>
  BY <1>1, <1>4, <1>6, <1>7, <1>8 DEF r
<1> HIDE DEF r
<1>11. QED
  BY <1>1, <1>8, <1>9, <1>10, UsuallyQuiet DEF Quiet

\* A new connection begins with nothing.
LEMMA ConnectStep == StreamInv /\ Connect => StreamInv'
<1> SUFFICES ASSUME StreamInv, Connect PROVE StreamInv'
  OBVIOUS
<1>1. /\ TypedInv /\ BookInv /\ ChannelInv /\ FreshInv /\ NumberInv /\ OrderInv
      /\ ViewInv /\ BlindInv /\ SeenInv /\ BufferInv /\ GapInv
  BY DEF StreamInv
<1>2. /\ conn < MaxGeneration /\ conn' = conn + 1 /\ closing' = FALSE /\ feed' = NoFeed /\ queue' = <<>>
      /\ handling = FALSE
      /\ UNCHANGED <<venue, latest, faults, run, handling, generation, recovery, book, syncID, gapCount, refresh, view>>
  BY DEF Connect, exchangeVars, processorVars
<1>3. /\ conn \in Nat /\ generation \in Nat /\ generation <= conn /\ recovery \in {0, generation}
      /\ view.generation \in Nat /\ view.generation <= generation /\ gapCount \in Nat
      /\ conn' \in 0..MaxGeneration /\ generation \in 0..conn'
  BY <1>1, <1>2, StreamBookAssumption DEF TypedInv
<1>4. generation # conn' /\ view.generation # conn' /\ recovery # conn' /\ conn' # 0
  BY <1>2, <1>3
<1>5. CurrentBook' = NoBook
  BY <1>2, <1>4 DEF CurrentBook, NoBook
<1>6. CurrentRefresh'.buffer = <<>> /\ CurrentRefresh'.id = 0 /\ DOMAIN CurrentRefresh'.buffer = {}
  BY <1>2, <1>4 DEF CurrentRefresh
<1>7. /\ NoFeed.snapshot = "none" /\ NoFeed.pos = 0 /\ NoFeed.recent = <<>> /\ NoFeed.asked = 0
      /\ NoFeed \in Feeds /\ Len(NoFeed.recent) <= 1 /\ DOMAIN NoFeed.recent = {}
  <2> DEFINE r == <<>>
             M == Messages
  <2>1. r \in Seq(M) /\ Len(r) <= 1 /\ DOMAIN r = {}
    OBVIOUS
  <2> HIDE DEF r
  <2>2. NoFeed = Feed("none", 0, 0, r, 0)
    BY DEF NoFeed, r
  <2>3. 0 \in 0..MaxId
    BY LimitType
  <2>4. /\ NoFeed.snapshot = "none" /\ NoFeed.pos = 0 /\ NoFeed.recent = r /\ NoFeed.asked = 0
        /\ NoFeed \in Feeds
    BY <2>1, <2>2, <2>3 DEF Feed, Feeds
  <2>5. QED
    BY <2>1, <2>4 DEF r
<1>8. queue' \in Seq(Messages) /\ Len(queue') <= Room' /\ Data(queue') = {}
  <2> DEFINE r == <<>>
             M == Messages
  <2>1. r \in Seq(M) /\ Len(r) = 0 /\ DOMAIN r = {}
    OBVIOUS
  <2>2. QED
    BY <1>2, <2>1, StreamBookAssumption DEF Data, Room
<1>9. Pending(queue', feed') = {}
  BY <1>2, <1>7, <1>8 DEF Pending
<1>10. TypedInv'
  <2>1. closing' \in BOOLEAN
    BY <1>2, Zenon
  <2>2. feed' \in Feeds /\ feed'.pos <= latest' /\ Len(feed'.recent) <= 1
    BY <1>1, <1>2, <1>7, StreamBookAssumption DEF TypedInv
  <2>3. QED
    BY <1>1, <1>2, <1>3, <1>8, <2>1, <2>2 DEF TypedInv
<1>11. BookInv'
  BY <1>1, <1>2, KeptBook DEF BookInv
<1>12. ChannelInv'
  BY <1>9 DEF ChannelInv
<1>13. FreshInv'
  BY <1>2, <1>4, <1>7, <1>8 DEF FreshInv, NoFeed, Feed
<1>14. NumberInv'
  BY <1>5, <1>9 DEF NumberInv, NoBook
<1>15. OrderInv'
  BY <1>2, <1>7, <1>8, <1>9 DEF OrderInv
<1>16. ViewInv'
  BY <1>2, <1>4 DEF ViewInv
<1>17. SeenInv'
  BY <1>2, <1>4, <1>5 DEF SeenInv, NoBook
<1>21. BlindInv'
  BY <1>8 DEF BlindInv
<1>18. BufferInv'
  BY <1>1, <1>2, <1>5, <1>6 DEF BufferInv, NoBook
<1>19. GapInv'
  <2>1. venue \in Guarded => gapCount <= conn
    BY <1>1, <1>3 DEF GapInv
  <2>2. QED
    BY <1>1, <1>2, <1>3, <1>4, <2>1 DEF GapInv
<1>20. QED
  BY <1>10, <1>11, <1>12, <1>13, <1>14, <1>15, <1>16, <1>17, <1>18, <1>19, <1>21 DEF StreamInv

-----------------------------------------------------------------------------
(* The steps of the handler. *)

\* What StreamViewsAdvance says of a step.
Forward ==
  view' # view =>
    /\ view'.sync >= view.sync
    /\ view'.generation = view.generation =>
         (view'.last >= view.last \/ (venue \in Blind /\ faults # 0))
    /\ view'.sync = view.sync =>
         view'.generation = view.generation /\ view'.gaps = view.gaps

\* The first message, and what is left when it is taken.
LEMMA FirstMessage ==
  ASSUME StreamInv, queue # <<>>, Head(queue).kind = "data", NEW q2, q2 = Tail(queue),
         NEW f, f.recent = feed.recent
  PROVE  /\ q2 \in Seq(Messages) /\ Len(q2) <= Room /\ Len(q2) <= QueueSize /\ Kept(q2, queue)
         /\ Head(queue) \in Pending(queue, feed)
         /\ Pending(q2, f) \subseteq Pending(queue, feed)
         /\ \A x \in Pending(q2, f) : Follows(venue, Head(queue), x)
         /\ conn # 0 /\ feed.snapshot # "none"
<1> DEFINE m == Head(queue)
<1>1. TypedInv /\ FreshInv /\ OrderInv
  BY DEF StreamInv
<1>2. queue \in Seq(Messages) /\ Len(queue) <= Room
  BY <1>1 DEF TypedInv
<1>3. /\ q2 \in Seq(Messages) /\ Len(q2) = Len(queue) - 1 /\ Len(queue) \in Nat
      /\ m = queue[1] /\ 1 \in DOMAIN queue
      /\ \A i \in Data(q2) : i + 1 \in Data(queue) /\ q2[i] = queue[i + 1] /\ i \in Nat \ {0}
  BY <1>2, TailFacts
<1>4. Len(q2) <= QueueSize /\ Len(q2) <= Room
  BY <1>2, <1>3, StreamBookAssumption DEF Room
<1>5. Kept(q2, queue)
  BY <1>2, KeptTail
<1>6. 1 \in Data(queue)
  BY <1>3 DEF Data
<1>7. m \in Pending(queue, feed)
  BY <1>3, <1>6 DEF Pending
<1> HIDE DEF m
<1>8. Pending(q2, f) \subseteq Pending(queue, feed)
  <2>1. SUFFICES ASSUME NEW x \in Pending(q2, f) PROVE x \in Pending(queue, feed)
    OBVIOUS
  <2>2. (\E i \in Data(q2) : x = q2[i]) \/ (\E k \in DOMAIN feed.recent : x = feed.recent[k])
    BY <2>1, Zenon DEF Pending
  <2>3. \A i \in Data(q2) : \E k \in Data(queue) : q2[i] = queue[k]
    BY <1>3
  <2>4. (\E i \in Data(queue) : x = queue[i]) \/ (\E k \in DOMAIN feed.recent : x = feed.recent[k])
    BY <2>2, <2>3, Zenon
  <2>5. QED
    BY <2>4, Zenon DEF Pending
<1>9. \A i \in Data(q2) : 1 < i + 1
  BY <1>3
<1>10. \A i \in Data(q2) : Follows(venue, m, q2[i])
  BY <1>1, <1>3, <1>6, <1>9 DEF OrderInv
<1>11. \A k \in DOMAIN feed.recent : Follows(venue, m, feed.recent[k])
  BY <1>1, <1>3, <1>6 DEF OrderInv
<1>12. \A x \in Pending(q2, f) : Follows(venue, m, x)
  BY <1>10, <1>11 DEF Pending
<1>13. conn # 0 /\ feed.snapshot # "none"
  BY <1>1, <1>6 DEF FreshInv
<1>14. QED
  BY <1>3, <1>4, <1>5, <1>7, <1>8, <1>12, <1>13 DEF m

\* What the handler takes of a message at a time is a message of its own.
LEMMA InHandFacts ==
  ASSUME NEW m \in Messages, m.kind = "data", GoodMessage(venue, latest, m), NEW p, p = InHand(m)
  PROVE  /\ p \in Messages /\ p.kind = "data" /\ GoodMessage(venue, latest, p)
         /\ Number(p) = Number(m) /\ Kind(p) = Kind(m) /\ First(p) = First(m)
         /\ End(p) \in Nat /\ First(m) \in Nat /\ End(m) \in Nat
         /\ End(p) <= End(m) /\ First(m) <= End(m)
         /\ venue \notin PerEvent => p = m
         /\ venue \in PerEvent => Len(p.events) = 1 /\ End(p) = First(m)
         /\ venue \in PerEvent \ FullBook /\ Kind(m) = "snapshot" => End(p) = End(m)
<1> DEFINE d == m.events[1]
           len == Len(m.events)
           one == Message("data", <<d>>)
<1>1. m.events \in Seq(Events) /\ m.events # <<>>
  BY DEF Messages, GoodMessage
<1>2. len \in Nat \ {0} /\ DOMAIN m.events = 1..len /\ Head(m.events) = d
  BY <1>1
<1>3. 1 \in DOMAIN m.events /\ len \in DOMAIN m.events /\ 1 <= len
  BY <1>2
<1>4. d \in Events /\ d.final \in Nat /\ m.events[len].final \in Nat
  BY <1>1, <1>3, EventsIn
<1>5. d.final <= m.events[len].final /\ GoodEvent(venue, latest, d)
      /\ (len # 1 /\ venue \notin FullBook => d.type = "update")
  BY <1>3 DEF GoodMessage
<1>6. First(m) = d.final /\ End(m) = m.events[len].final /\ Kind(m) = d.type /\ Number(m) = d.n
  BY DEF First, End, Kind, Number
<1>7. /\ one \in Messages /\ one.kind = "data" /\ one.events = <<d>>
      /\ End(one) = d.final /\ First(one) = d.final /\ Number(one) = d.n /\ Kind(one) = d.type
      /\ GoodMessage(venue, latest, one)
  BY <1>4, <1>5, OneEvent
<1>8. p = IF venue \in PerEvent THEN one ELSE m
  BY <1>2 DEF InHand
<1> HIDE DEF one, d, len
<1>9. CASE venue \notin PerEvent
  BY <1>4, <1>5, <1>6, <1>8, <1>9
<1>10. CASE venue \in PerEvent
  <2>1. p = one /\ Len(p.events) = 1
    BY <1>7, <1>8, <1>10
  <2>2. venue \notin FullBook /\ Kind(m) = "snapshot" => len = 1
    BY <1>5, <1>6
  <2>3. len = 1 => m.events[len] = d
    BY DEF d
  <2>4. QED
    BY <1>4, <1>5, <1>6, <1>7, <1>10, <2>1, <2>2, <2>3
<1>11. QED
  BY <1>9, <1>10

\* So is what is left of it.
LEMMA RestFacts ==
  ASSUME NEW m \in Messages, m.kind = "data", GoodMessage(venue, latest, m), NEW r, r = Rest(m),
         Len(m.events) > 1
  PROVE  /\ r \in Messages /\ r.kind = "data" /\ GoodMessage(venue, latest, r)
         /\ End(r) = End(m) /\ First(m) <= First(r) /\ First(r) \in Nat
<1> DEFINE E == Events
           q == m.events
           t == Tail(q)
<1>1. q \in Seq(E) /\ q # <<>> /\ Len(q) > 1
  BY DEF Messages, GoodMessage
<1> HIDE DEF E
<1>2. Len(q) \in Nat /\ DOMAIN q = 1..Len(q)
  BY <1>1
<1>3. /\ t \in Seq(E) /\ Len(t) = Len(q) - 1 /\ DOMAIN t = 1..(Len(q) - 1)
      /\ \A i \in 1..(Len(q) - 1) : t[i] = q[i + 1]
  BY <1>1, <1>2
<1> HIDE DEF t
<1>4. r.kind = "data" /\ r.events = t
  BY DEF Rest, Message, t
<1>5. r \in Messages
  <2>1. r = [kind |-> "data", events |-> t]
    BY DEF Rest, Message, t
  <2>2. QED
    BY <1>3, <2>1 DEF Messages, E
<1>6. Len(t) \in Nat \ {0} /\ Len(t) \in 1..(Len(q) - 1) /\ 1 \in 1..(Len(q) - 1) /\ Len(t) + 1 = Len(q)
  BY <1>1, <1>2, <1>3
<1>7. End(r) = End(m)
  BY <1>3, <1>4, <1>6 DEF End
<1>8. t[1] = q[2] /\ 1 \in DOMAIN q /\ 2 \in DOMAIN q
  BY <1>1, <1>2, <1>3, <1>6
<1>9. First(m) <= First(r) /\ First(r) \in Nat
  <2>1. \A i \in DOMAIN q : \A k \in DOMAIN q : i <= k => q[i].final <= q[k].final
    BY DEF GoodMessage
  <2>2. q[1].final <= q[2].final
    BY <1>8, <2>1
  <2>3. q \in Seq(Events)
    BY <1>1 DEF E
  <2> HIDE DEF q
  <2>4. q[2].final \in Nat
    BY <1>8, <2>3, EventsIn
  <2>5. QED
    BY <1>4, <1>8, <2>2, <2>4 DEF First, q
<1>10. venue \in Batching /\ Len(m.events) # 1
  <2>1. \A n \in Nat : n > 1 => n # 1
    OBVIOUS
  <2>2. Len(m.events) # 1
    BY <1>1, <1>2, <2>1, Zenon
  <2>3. QED
    BY <2>2 DEF GoodMessage
<1>11. Number(r) = Number(m)
  BY <1>4, <1>8 DEF GoodMessage, Number
<1>12. ASSUME NEW i \in DOMAIN t
       PROVE  /\ GoodEvent(venue, latest, t[i]) /\ t[i].n = Number(r)
              /\ i # 1 /\ t[i].type = "update" => t[i].first = t[i - 1].final + 1
              /\ venue \notin FullBook => t[i].type = "update"
              /\ \A k \in DOMAIN t : i <= k => t[i].final <= t[k].final
  <2>1. i \in 1..(Len(q) - 1) /\ i + 1 \in DOMAIN q /\ i + 1 # 1 /\ (i + 1) - 1 = i /\ t[i] = q[i + 1]
    BY <1>2, <1>3, <1>12
  <2>2. /\ GoodEvent(venue, latest, q[i + 1]) /\ q[i + 1].n = Number(m)
        /\ q[i + 1].type = "update" => q[i + 1].first = q[i].final + 1
        /\ venue \notin FullBook => q[i + 1].type = "update"
        /\ \A k \in DOMAIN q : i + 1 <= k => q[i + 1].final <= q[k].final
    BY <1>10, <2>1 DEF GoodMessage
  <2>3. i # 1 => t[i - 1] = q[i]
    <3>1. i # 1 => i - 1 \in 1..(Len(q) - 1) /\ (i - 1) + 1 = i
      BY <1>2, <2>1
    <3>2. QED
      BY <1>3, <3>1
  <2>4. \A k \in DOMAIN t : i <= k => t[i].final <= t[k].final
    <3>1. \A k \in DOMAIN t : k + 1 \in DOMAIN q /\ t[k] = q[k + 1] /\ (i <= k => i + 1 <= k + 1)
      BY <1>2, <1>3, <2>1
    <3>2. QED
      BY <2>1, <2>2, <3>1
  <2>5. QED
    BY <1>11, <2>1, <2>2, <2>3, <2>4
<1>13. GoodMessage(venue, latest, r)
  <2>1. r.events # <<>>
    BY <1>3, <1>4, <1>6
  <2> HIDE DEF q
  <2>2. QED
    BY <1>4, <1>10, <1>12, <2>1 DEF GoodMessage
<1>14. QED
  BY <1>4, <1>5, <1>7, <1>9, <1>13

\* The queue after the handler's step on data: what is left of the first message, if the
\* handler has not come to its end, and the messages behind it.
LEMMA QueueStep ==
  StreamInv /\ HandleData =>
    /\ queue' \in Seq(Messages) /\ Len(queue') <= Room'
    /\ \A i \in Data(queue') :
         \/ (handling' /\ queue'[i] = Rest(Head(queue)))
         \/ (\E k \in Data(queue) : 1 < k /\ queue'[i] = queue[k])
    /\ \A i, j \in Data(queue') : i < j =>
         \E l \in Data(queue) :
            /\ 1 < l /\ queue'[j] = queue[l]
            /\ \/ (handling' /\ queue'[i] = Rest(Head(queue)))
               \/ (\E k \in Data(queue) : 1 < k /\ k < l /\ queue'[i] = queue[k])
<1> SUFFICES ASSUME StreamInv, HandleData
             PROVE  /\ queue' \in Seq(Messages) /\ Len(queue') <= Room'
                    /\ \A i \in Data(queue') :
                         \/ (handling' /\ queue'[i] = Rest(Head(queue)))
                         \/ (\E k \in Data(queue) : 1 < k /\ queue'[i] = queue[k])
                    /\ \A i, j \in Data(queue') : i < j =>
                         \E l \in Data(queue) :
                            /\ 1 < l /\ queue'[j] = queue[l]
                            /\ \/ (handling' /\ queue'[i] = Rest(Head(queue)))
                               \/ (\E k \in Data(queue) : 1 < k /\ k < l /\ queue'[i] = queue[k])
  OBVIOUS
<1> DEFINE m == Head(queue)
           r == Rest(m)
           M == Messages
<1>1. queue \in Seq(M) /\ queue # <<>> /\ Len(queue) <= Room /\ m.kind = "data"
  BY DEF StreamInv, TypedInv, HandleData
<1>2. /\ handling' => Len(m.events) > 1 /\ queue' = [queue EXCEPT ![1] = r]
      /\ ~handling' => queue' = Tail(queue)
      /\ handling' \in BOOLEAN
  <2>1. /\ handling' = (/\ venue \in PerEvent /\ Len(m.events) > 1 /\ ~Dropped
                        /\ Outcome(InHand(m)).out # "reconnect")
        /\ queue' = IF handling' THEN [queue EXCEPT ![1] = Rest(queue[1])] ELSE Tail(queue)
    BY Zenon DEF HandleData
  <2>2. m = queue[1]
    BY <1>1
  <2> HIDE DEF m
  <2>3. handling' \in BOOLEAN /\ (handling' => Len(m.events) > 1)
    BY <2>1, Zenon
  <2>4. QED
    BY <2>1, <2>2, <2>3
<1>4. CASE ~handling'
  <2>1. queue' = Tail(queue)
    BY <1>2, <1>4
  <2>2. /\ queue' \in Seq(Messages) /\ Len(queue') = Len(queue) - 1 /\ Len(queue) \in Nat \ {0}
        /\ \A i \in Data(queue') : i + 1 \in Data(queue) /\ queue'[i] = queue[i + 1] /\ i \in Nat \ {0}
    BY <1>1, <2>1, TailFacts
  <2>3. Len(queue') <= Room'
    BY <1>1, <1>4, <2>2, StreamBookAssumption DEF Room
  <2>4. \A i \in Data(queue') : 1 < i + 1 /\ \A j \in Data(queue') : i < j => i + 1 < j + 1
    BY <2>2
  <2>5. QED
    BY <2>2, <2>3, <2>4
<1>5. CASE handling'
  <2>1. m \in Pending(queue, feed)
    <3>1. queue' = [queue EXCEPT ![1] = r]
      BY <1>2, <1>5
    <3>2. m = queue[1] /\ 1 \in DOMAIN queue
      BY <1>1
    <3> HIDE DEF m
    <3>3. QED
      BY <1>1, <3>2 DEF Pending, Data
  <2>2. m \in Messages /\ GoodMessage(venue, latest, m)
    BY <2>1, PendingFacts DEF StreamInv, TypedInv
  <2> HIDE DEF m
  <2>3. r \in M
    BY <1>1, <1>2, <1>5, <2>2, RestFacts
  <2> HIDE DEF r, M
  <2>4. Len(queue) \in Nat \ {0} /\ DOMAIN queue = 1..Len(queue)
    BY <1>1
  <2>5. queue' = [queue EXCEPT ![1] = r]
    BY <1>2, <1>5
  <2>6. /\ queue' \in Seq(M) /\ Len(queue') = Len(queue) /\ DOMAIN queue' = DOMAIN queue
        /\ queue'[1] = r /\ \A i \in DOMAIN queue : i # 1 => queue'[i] = queue[i]
    BY <1>1, <2>3, <2>4, <2>5
  <2>7. Len(queue') <= Room'
    BY <1>1, <1>5, <2>4, <2>6, StreamBookAssumption DEF Room
  <2>8. \A i \in Data(queue') : i # 1 => i \in Data(queue) /\ 1 < i /\ queue'[i] = queue[i]
    BY <2>4, <2>6 DEF Data
  <2>9. \A i, j \in Data(queue') : i < j => j # 1
    BY <2>4, <2>6 DEF Data
  <2>10. QED
    BY <1>5, <2>6, <2>7, <2>8, <2>9 DEF m, r, M
<1>6. QED
  BY <1>2, <1>4, <1>5, Zenon

\* The book a message finds.
LEMMA CurrentBookIsRight ==
  StreamInv => RightBook(CurrentBook) /\ CurrentBook.last \in Nat /\ CurrentBook.last <= latest
                 /\ CurrentBook.n \in Nat
<1> SUFFICES ASSUME StreamInv PROVE RightBook(CurrentBook) /\ CurrentBook.last <= latest
  BY LimitType DEF RightBook
<1>1. RightBook(book) /\ book.last <= latest /\ latest \in Nat
  BY LimitType, StreamBookAssumption DEF StreamInv, TypedInv, BookInv
<1>2. CurrentBook = book \/ CurrentBook = NoBook
  BY DEF CurrentBook
<1>3. QED
  BY <1>1, <1>2, NoBookFacts DEF NoBookIsRight

\* The numbers of the state.
LEMMA TypedFacts ==
  StreamInv =>
    /\ latest \in Nat /\ syncID \in Nat /\ gapCount \in Nat /\ conn \in Nat /\ feed.pos \in Nat
    /\ generation \in Nat /\ view.last \in Nat /\ view.generation \in Nat /\ view.generation <= conn
    /\ view.sync \in Nat /\ view.sync <= syncID /\ view.gaps \in Nat /\ view.gaps <= gapCount
    /\ venue \in Venues /\ latest \in 0..MaxId
<1>1. StreamInv => TypedInv
  BY DEF StreamInv
<1>2. TypedInv => feed.pos \in Nat
  BY LimitType DEF TypedInv, Feeds
<1>3. TypedInv => latest \in Nat /\ latest \in 0..MaxId
  BY LimitType, StreamBookAssumption DEF TypedInv
<1>4. TypedInv => /\ conn \in Nat /\ generation \in Nat /\ view.generation \in Nat
                  /\ view.generation <= conn
  <2>1. TypedInv => conn \in 0..MaxGeneration /\ generation \in 0..conn /\ view.generation \in 0..generation
    BY DEF TypedInv
  <2>2. QED
    BY <2>1, StreamBookAssumption
<1>5. TypedInv => /\ syncID \in Nat /\ gapCount \in Nat /\ view.last \in Nat /\ venue \in Venues
                  /\ view.sync \in Nat /\ view.sync <= syncID /\ view.gaps \in Nat /\ view.gaps <= gapCount
  BY DEF TypedInv
<1>6. QED
  BY <1>1, <1>2, <1>3, <1>4, <1>5

LEMMA HandleDataStep == StreamInv /\ HandleData => StreamInv' /\ Forward
<1> SUFFICES ASSUME StreamInv, HandleData PROVE StreamInv' /\ Forward
  OBVIOUS
<1> DEFINE m == Head(queue)
           p == InHand(m)
           r == Rest(m)
           o == Outcome(p)
           P == Pending(queue, feed)
           Q == Pending(queue', feed')
<1>1. /\ TypedInv /\ BookInv /\ ChannelInv /\ FreshInv /\ NumberInv /\ OrderInv
      /\ ViewInv /\ BlindInv /\ SeenInv /\ BufferInv /\ GapInv
  BY DEF StreamInv
<1>2. /\ venue # "htx" /\ queue # <<>> /\ m.kind = "data"
      /\ (handling' => venue \in PerEvent /\ Len(m.events) > 1)
      /\ generation' = conn /\ book' = o.book /\ syncID' = o.sync /\ gapCount' = o.gaps
      /\ recovery' = (IF venue \in Guarded /\ o.out = "reconnect" THEN conn
                      ELSE IF generation # conn THEN 0 ELSE recovery)
      /\ view' = (IF o.out = "publish"
                  THEN [generation |-> conn, sync |-> o.sync, gaps |-> o.gaps,
                        last |-> o.book.last, levels |-> Top(o.book.levels, ViewDepth)]
                  ELSE view)
      /\ o.out = "ignore" => UNCHANGED <<closing, run>>
      /\ o.out = "publish" => run' \in {"running", "returned"} /\ UNCHANGED closing
      /\ o.out = "reconnect" => Reconnect
      /\ UNCHANGED <<venue, latest, faults, conn, feed, refresh>>
  <2>1. handling' = (/\ venue \in PerEvent /\ Len(m.events) > 1 /\ ~Dropped
                     /\ Outcome(InHand(m)).out # "reconnect")
    BY Zenon DEF HandleData
  <2>2. handling' => venue \in PerEvent /\ Len(m.events) > 1
    BY <2>1, Zenon
  <2> HIDE DEF m, p
  <2>3. QED
    BY <2>2 DEF HandleData, exchangeVars, m, p
<1>3. RightBook(CurrentBook) /\ CurrentBook.last \in Nat /\ CurrentBook.last <= latest
  BY CurrentBookIsRight
<1>4. m \in P /\ conn # 0 /\ feed.snapshot # "none"
  BY <1>2, FirstMessage
<1>5. \A x \in P : /\ x \in Messages /\ x.kind = "data" /\ GoodMessage(venue, latest, x)
                   /\ End(x) \in Nat /\ Number(x) \in Nat
  BY <1>1, PendingFacts DEF TypedInv
<1>6. /\ p \in Messages /\ GoodMessage(venue, latest, p)
      /\ Number(p) = Number(m) /\ Kind(p) = Kind(m) /\ First(p) = First(m)
      /\ End(p) \in Nat /\ First(m) \in Nat /\ End(m) \in Nat
      /\ End(p) <= End(m) /\ First(m) <= End(m)
      /\ venue \notin PerEvent => p = m
      /\ venue \in PerEvent => Len(p.events) = 1 /\ End(p) = First(m)
      /\ venue \in PerEvent \ FullBook /\ Kind(m) = "snapshot" => End(p) = End(m)
  <2> HIDE DEF m
  <2>1. QED
    BY <1>4, <1>5, InHandFacts
<1>7. handling' =>
        /\ venue \in PerEvent
        /\ r \in Messages /\ r.kind = "data" /\ GoodMessage(venue, latest, r)
        /\ End(r) = End(m) /\ First(m) <= First(r) /\ First(r) \in Nat
  <2>1. venue \in PerEvent /\ Len(m.events) > 1 =>
          /\ r \in Messages /\ r.kind = "data" /\ GoodMessage(venue, latest, r)
          /\ End(r) = End(m) /\ First(m) <= First(r) /\ First(r) \in Nat
    <3> HIDE DEF m
    <3>1. QED
      BY <1>4, <1>5, RestFacts
  <2>2. QED
    BY <1>2, <2>1
<1>8. /\ latest \in Nat /\ syncID \in Nat /\ gapCount \in Nat /\ conn \in Nat /\ feed.pos \in Nat
      /\ generation \in Nat /\ view.last \in Nat /\ view.generation \in Nat /\ view.generation <= conn
      /\ view.sync \in Nat /\ view.sync <= syncID /\ view.gaps \in Nat /\ view.gaps <= gapCount
      /\ venue \in Venues /\ latest \in 0..MaxId
  BY TypedFacts
<1>9. Handled(o, p, Len(p.events)) /\ (Dropped => o.out = "ignore")
  <2>1. p.events \in Seq(Events) /\ GoodMessage(venue, latest, p)
    BY <1>6 DEF Messages
  <2>2. venue \in Numbered /\ CurrentBook # NoBook => Chain(CurrentBook.n, CurrentBook.last, p)
    BY <1>1, <1>4, <1>6 DEF NumberInv, Numbered, PerEvent
  <2> HIDE DEF m, p
  <2>3. QED
    BY <1>2, <1>3, <1>8, <2>1, <2>2, OutcomeFacts
<1>10. /\ o.out \in {"ignore", "publish", "reconnect"}
       /\ RightBook(o.book) /\ o.book.last <= latest /\ o.sync \in Nat /\ o.sync >= syncID
  BY <1>9 DEF Handled
<1>11. o.out = "ignore" => o.book = CurrentBook /\ o.sync = syncID /\ o.gaps = gapCount
  BY <1>9 DEF Handled
<1>12. o.out = "publish" =>
         /\ o.book # NoBook /\ o.gaps = gapCount
         /\ o.book.last = End(p) /\ o.book.n = Number(m)
         /\ o.sync = syncID => CurrentBook # NoBook
         /\ venue \in Comparing /\ CurrentBook # NoBook /\ (venue \in Overlapping => Kind(m) = "update")
              => CurrentBook.last <= o.book.last
         /\ venue \in Overlapping /\ Kind(m) = "update" => CurrentBook # NoBook
         /\ venue \in Chained /\ Kind(m) = "update" => CurrentBook # NoBook /\ CurrentBook.last <= o.book.last
  <2>1. venue \in Chained => Len(p.events) = 1
    BY <1>6 DEF Chained, PerEvent
  <2> HIDE DEF p
  <2>2. QED
    BY <1>9, <1>6, <2>1 DEF Handled, End
<1>13. o.out = "reconnect" => o.book = NoBook /\ o.gaps = gapCount + 1 /\ venue \notin FullBook /\ ~Dropped
  BY <1>9 DEF Handled
<1> HIDE DEF m, p, r, o, P, Q
<1>14. CurrentBook' = o.book
  BY <1>2 DEF CurrentBook, NoBook
<1>15. CurrentRefresh' = refresh /\ refresh.buffer = <<>> /\ refresh.id = 0
  BY <1>1, <1>2 DEF CurrentRefresh, BufferInv
<1>16. /\ o.out = "publish" => /\ view'.generation = conn /\ view'.sync = o.sync /\ view'.gaps = o.gaps
                               /\ view'.last = End(p)
       /\ o.out # "publish" => view' = view
  BY <1>2, <1>12
<1>17. Kind(m) \in {"snapshot", "update"}
  <2>1. GoodMessage(venue, latest, m) /\ m.events \in Seq(Events) /\ m.events # <<>>
    BY <1>4, <1>5 DEF GoodMessage, Messages
  <2>2. 1 \in DOMAIN m.events
    BY <2>1
  <2>3. m.events[1] \in Events
    BY <2>1, <2>2, EventsIn
  <2>4. QED
    BY <1>2, <2>1, <2>2, <2>3 DEF GoodMessage, GoodEvent, Kind, Events
<1>18. venue \in PerEvent => Counted(venue, m) /\ (handling' => Counted(venue, r)) /\ venue \notin Overlapping
  <2>1. SUFFICES ASSUME venue \in PerEvent
                 PROVE  Counted(venue, m) /\ (handling' => Counted(venue, r)) /\ venue \notin Overlapping
    OBVIOUS
  <2>2. venue \notin Overlapping /\ venue \notin {"korbit", "coinone", "htx"}
    BY <2>1 DEF PerEvent, Overlapping
  <2>3. handling' => Kind(r) # "refresh"
    <3>1. SUFFICES ASSUME handling' PROVE Kind(r) # "refresh"
      OBVIOUS
    <3>2. 1 \in DOMAIN r.events
      BY <1>7, <3>1 DEF GoodMessage, Messages
    <3>3. QED
      BY <1>7, <2>2, <3>1, <3>2 DEF GoodMessage, GoodEvent, Kind
  <2>4. QED
    BY <1>17, <2>2, <2>3 DEF Counted
<1>19. /\ queue' \in Seq(Messages) /\ Len(queue') <= Room'
       /\ \A i \in Data(queue') :
            \/ (handling' /\ queue'[i] = r)
            \/ (\E k \in Data(queue) : 1 < k /\ queue'[i] = queue[k])
       /\ \A i, j \in Data(queue') : i < j =>
            \E l \in Data(queue) :
               /\ 1 < l /\ queue'[j] = queue[l]
               /\ \/ (handling' /\ queue'[i] = r)
                  \/ (\E k \in Data(queue) : 1 < k /\ k < l /\ queue'[i] = queue[k])
  BY QueueStep DEF r, m
<1>20. m = queue[1] /\ 1 \in Data(queue) /\ handling' \in BOOLEAN
  <2> DEFINE M == Messages
  <2>1. queue \in Seq(M) /\ queue # <<>>
    BY <1>1, <1>2 DEF TypedInv
  <2> HIDE DEF M
  <2>2. m = queue[1] /\ 1 \in DOMAIN queue
    BY <2>1 DEF m
  <2>3. handling' = (/\ venue \in PerEvent /\ Len(m.events) > 1 /\ ~Dropped
                     /\ Outcome(InHand(m)).out # "reconnect")
    BY Zenon DEF HandleData, m
  <2>4. handling' \in BOOLEAN
    BY <2>3, Zenon
  <2>5. QED
    BY <1>2, <2>2, <2>4 DEF Data
<1>21. /\ \A x \in Q : (handling' /\ x = r) \/ (x \in P /\ Follows(venue, m, x))
       /\ \A k \in DOMAIN feed.recent : Follows(venue, m, feed.recent[k])
       /\ \A k \in Data(queue) : 1 < k => Follows(venue, m, queue[k])
  <2>1. \A k \in Data(queue) : 1 < k => Follows(venue, m, queue[k])
    BY <1>1, <1>20 DEF OrderInv
  <2>2. \A k \in DOMAIN feed.recent : Follows(venue, m, feed.recent[k])
    BY <1>1, <1>20 DEF OrderInv
  <2>3. ASSUME NEW x \in Q PROVE (handling' /\ x = r) \/ (x \in P /\ Follows(venue, m, x))
    <3>1. (\E i \in Data(queue') : x = queue'[i]) \/ (\E k \in DOMAIN feed.recent : x = feed.recent[k])
      BY <1>2, <2>3 DEF Q, Pending
    <3>2. \/ (handling' /\ x = r)
          \/ (\E k \in Data(queue) : 1 < k /\ x = queue[k])
          \/ (\E k \in DOMAIN feed.recent : x = feed.recent[k])
      <4>1. CASE \E i \in Data(queue') : x = queue'[i]
        <5>1. PICK i \in Data(queue') : x = queue'[i]
          BY <4>1
        <5>2. (handling' /\ queue'[i] = r) \/ (\E k \in Data(queue) : 1 < k /\ queue'[i] = queue[k])
          BY <1>19, <5>1
        <5>3. QED
          BY <5>1, <5>2
      <4>2. CASE \E k \in DOMAIN feed.recent : x = feed.recent[k]
        BY <4>2
      <4>3. QED
        BY <3>1, <4>1, <4>2
    <3>3. /\ \A k \in Data(queue) : queue[k] \in P
          /\ \A k \in DOMAIN feed.recent : feed.recent[k] \in P
      <4>1. P = {queue[i] : i \in Data(queue)} \cup {feed.recent[k] : k \in DOMAIN feed.recent}
        BY DEF P, Pending
      <4>2. QED
        BY <4>1
    <3>4. QED
      BY <2>1, <2>2, <3>2, <3>3
  <2>4. QED
    BY <2>1, <2>2, <2>3
\* What follows the message follows what is left of it.
<1>22. ASSUME NEW x, Follows(venue, m, x), handling' PROVE Follows(venue, r, x)
  BY <1>7, <1>18, <1>22 DEF Follows, Ahead
<1>23. TypedInv'
  <2>1. o.gaps \in Nat /\ gapCount <= o.gaps
    BY <1>8, <1>10, <1>11, <1>12, <1>13
  <2>2. closing' \in BOOLEAN /\ run' \in {"running", "returned"}
    <3>1. closing' = closing \/ closing' = TRUE
      BY <1>2, <1>10 DEF Reconnect
    <3>2. closing' \in BOOLEAN
      BY <1>1, <3>1, Zenon DEF TypedInv
    <3>3. QED
      BY <1>1, <1>2, <1>10, <3>2 DEF Reconnect, TypedInv
  <2>3. /\ view'.generation \in 0..conn /\ view'.sync \in 0..o.sync /\ view'.gaps \in 0..o.gaps
        /\ view'.last \in Nat
    <3>1. CASE o.out = "publish"
      <4>1. /\ view'.generation = conn /\ view'.sync = o.sync /\ view'.gaps = o.gaps
            /\ view'.last \in Nat
        BY <1>16, <1>6, <3>1
      <4>2. conn \in 0..conn /\ o.sync \in 0..o.sync /\ o.gaps \in 0..o.gaps
        BY <1>8, <1>10, <2>1
      <4>3. QED
        BY <4>1, <4>2
    <3>2. CASE o.out # "publish"
      <4>1. view' = view
        BY <1>16, <3>2
      <4>2. view.generation \in 0..conn /\ view.sync \in 0..o.sync /\ view.gaps \in 0..o.gaps
        BY <1>8, <1>10, <2>1
      <4>3. QED
        BY <1>8, <4>1, <4>2
    <3>3. QED
      BY <3>1, <3>2
  <2>4. recovery' \in {0, conn} /\ conn \in 0..conn
    BY <1>1, <1>2, <1>8 DEF TypedInv
  <2>5. QED
    BY <1>1, <1>2, <1>10, <1>19, <1>20, <2>1, <2>2, <2>3, <2>4 DEF TypedInv
<1>24. BookInv'
  BY <1>2, <1>10, KeptBook DEF BookInv
<1>25. ChannelInv'
  BY <1>2, <1>5, <1>7, <1>21 DEF ChannelInv, Q
<1>26. FreshInv'
  BY <1>1, <1>2, <1>4 DEF FreshInv
<1>27. NumberInv'
  <2>1. SUFFICES ASSUME venue \in Numbered
                 PROVE  /\ \A x \in Q :
                             /\ Number(x) <= feed.n /\ (Number(x) = feed.n => End(x) = feed.pos)
                             /\ \A y \in Q : Chain(Number(y), End(y), x)
                             /\ o.book # NoBook => Chain(o.book.n, o.book.last, x)
                        /\ o.book # NoBook =>
                             o.book.n <= feed.n /\ (o.book.n = feed.n => o.book.last = feed.pos)
    BY <1>2, <1>14 DEF NumberInv, Q, NoBook
  <2>2. /\ \A x \in P :
             /\ Number(x) <= feed.n /\ (Number(x) = feed.n => End(x) = feed.pos)
             /\ \A y \in P : Chain(Number(y), End(y), x)
             /\ CurrentBook # NoBook => Chain(CurrentBook.n, CurrentBook.last, x)
        /\ CurrentBook # NoBook =>
             CurrentBook.n <= feed.n /\ (CurrentBook.n = feed.n => CurrentBook.last = feed.pos)
    BY <1>1, <2>1 DEF NumberInv, P
  <2>3. venue \notin PerEvent /\ p = m
    BY <1>6, <2>1 DEF Numbered, PerEvent
  <2>4. \A x \in Q : x \in P
    BY <1>7, <1>21, <2>3
  <2>5. QED
    BY <1>4, <1>10, <1>11, <1>12, <1>13, <2>2, <2>3, <2>4
<1>28. OrderInv'
  <2>1. ASSUME NEW i \in Data(queue'), NEW j \in Data(queue'), i < j
        PROVE  Follows(venue, queue'[i], queue'[j])
    <3>1. PICK l \in Data(queue) :
            /\ 1 < l /\ queue'[j] = queue[l]
            /\ \/ (handling' /\ queue'[i] = r)
               \/ (\E k \in Data(queue) : 1 < k /\ k < l /\ queue'[i] = queue[k])
      BY <1>19, <2>1
    <3>2. CASE handling' /\ queue'[i] = r
      BY <1>21, <1>22, <3>1, <3>2
    <3>3. CASE \E k \in Data(queue) : 1 < k /\ k < l /\ queue'[i] = queue[k]
      BY <1>1, <3>1, <3>3 DEF OrderInv
    <3>4. QED
      BY <3>1, <3>2, <3>3
  <2>2. \A i \in Data(queue') : \A k \in DOMAIN feed.recent : Follows(venue, queue'[i], feed.recent[k])
    BY <1>1, <1>19, <1>21, <1>22 DEF OrderInv
  <2>3. \A x \in Q : venue \notin Overlapping /\ Counted(venue, x) => End(x) <= feed.pos
    <3>1. \A x \in P : venue \notin Overlapping /\ Counted(venue, x) => End(x) <= feed.pos
      BY <1>1 DEF OrderInv, P
    <3>2. handling' => End(r) <= feed.pos
      BY <1>4, <1>7, <1>18, <3>1
    <3>3. QED
      BY <1>21, <3>1, <3>2
  <2>4. QED
    BY <1>1, <1>2, <2>1, <2>2, <2>3 DEF OrderInv, Q
<1>29. ViewInv'
  <2>1. \A x \in Q : End(x) \in Nat
    BY <1>5, <1>6, <1>7, <1>21
  <2>2. CASE o.out = "publish"
    <3>1. \A x \in Q : Ahead(venue, End(p), x)
      <4>1. SUFFICES ASSUME NEW x \in Q, Counted(venue, x) PROVE End(p) <= End(x)
        BY DEF Ahead
      <4>2. CASE handling' /\ x = r
        BY <1>6, <1>7, <4>2
      <4>3. CASE x \in P /\ Follows(venue, m, x)
        <5>1. Counted(venue, m)
          BY <1>17, <4>1, <4>3 DEF Follows, Counted
        <5>2. End(m) <= End(x)
          BY <4>1, <4>3, <5>1 DEF Follows, Ahead
        <5>3. QED
          BY <1>6, <2>1, <5>2
      <4>4. QED
        BY <1>21, <4>2, <4>3
    <3>2. venue \notin Overlapping \cup {"korbit", "coinone"} => Counted(venue, m)
      BY <1>17 DEF Counted
    <3>3. venue \notin Overlapping \cup {"korbit", "coinone"} => End(m) <= feed.pos
      BY <1>1, <1>4, <3>2 DEF OrderInv, P
    <3>4. venue \notin Overlapping \cup {"korbit", "coinone"} => End(p) <= feed.pos
      BY <1>8, <1>6, <3>3
    <3>5. QED
      BY <1>2, <1>16, <2>2, <3>1, <3>4 DEF ViewInv, Q
  <2>3. CASE o.out # "publish"
    <3>1. view.generation = conn =>
            /\ \A x \in P : Ahead(venue, view.last, x)
            /\ venue \notin Overlapping \cup {"korbit", "coinone"} => view.last <= feed.pos
      BY <1>1 DEF ViewInv, P
    <3>2. view.generation = conn /\ handling' => view.last <= End(r)
      BY <1>4, <1>7, <1>18, <3>1 DEF Ahead
    <3>3. view.generation = conn => \A x \in Q : Ahead(venue, view.last, x)
      BY <1>21, <3>1, <3>2 DEF Ahead
    <3>4. QED
      BY <1>2, <1>16, <2>3, <3>1, <3>3 DEF ViewInv, Q
  <2>4. QED
    BY <2>2, <2>3
<1>30. BlindInv'
  <2>1. SUFFICES ASSUME venue \in Blind, faults = 0
                 PROVE  /\ \A i, j \in Data(queue') : i < j => End(queue'[i]) <= First(queue'[j])
                        /\ view'.generation = conn => \A i \in Data(queue') : view'.last <= First(queue'[i])
    BY <1>2 DEF BlindInv
  <2>2. /\ \A i, j \in Data(queue) : i < j => End(queue[i]) <= First(queue[j])
        /\ view.generation = conn => \A i \in Data(queue) : view.last <= First(queue[i])
    BY <1>1, <2>1 DEF BlindInv
  <2>3. \A k \in Data(queue) : First(queue[k]) \in Nat /\ (1 < k => End(m) <= First(queue[k]))
    <3>1. \A k \in Data(queue) : 1 < k => End(m) <= First(queue[k])
      BY <1>20, <2>2
    <3>2. ASSUME NEW k \in Data(queue) PROVE First(queue[k]) \in Nat
      <4>1. queue[k] \in P
        BY <3>2 DEF P, Pending
      <4>2. queue[k].events \in Seq(Events) /\ 1 \in DOMAIN queue[k].events
        BY <1>5, <4>1 DEF Messages, GoodMessage
      <4>3. QED
        BY <4>2, EventsIn DEF First
    <3>3. QED
      BY <3>1, <3>2
  <2>4. ASSUME NEW i \in Data(queue'), NEW j \in Data(queue'), i < j
        PROVE  End(queue'[i]) <= First(queue'[j])
    <3>1. PICK l \in Data(queue) :
            /\ 1 < l /\ queue'[j] = queue[l]
            /\ \/ (handling' /\ queue'[i] = r)
               \/ (\E k \in Data(queue) : 1 < k /\ k < l /\ queue'[i] = queue[k])
      BY <1>19, <2>4
    <3>2. CASE handling' /\ queue'[i] = r
      BY <1>7, <2>3, <3>1, <3>2
    <3>3. CASE \E k \in Data(queue) : 1 < k /\ k < l /\ queue'[i] = queue[k]
      BY <2>2, <3>1, <3>3
    <3>4. QED
      BY <3>1, <3>2, <3>3
  <2>5. ASSUME view'.generation = conn, NEW i \in Data(queue') PROVE view'.last <= First(queue'[i])
    <3>1. view'.last \in Nat /\ view'.last <= End(m) /\ (handling' => view'.last <= First(m))
      <4>1. CASE o.out = "publish"
        <5>1. handling' => End(p) = First(m)
          BY <1>6, <1>7
        <5>2. QED
          BY <1>16, <1>6, <4>1, <5>1
      <4>2. CASE o.out # "publish"
        <5>1. view' = view /\ view.last <= First(m)
          BY <1>16, <1>20, <2>2, <2>5, <4>2
        <5>2. QED
          BY <1>8, <1>6, <5>1
      <4>3. QED
        BY <4>1, <4>2
    <3>2. CASE handling' /\ queue'[i] = r
      BY <1>6, <1>7, <3>1, <3>2
    <3>3. CASE \E k \in Data(queue) : 1 < k /\ queue'[i] = queue[k]
      BY <1>6, <2>3, <3>1, <3>3
    <3>4. QED
      BY <1>19, <3>2, <3>3
  <2>6. QED
    BY <2>4, <2>5
<1>31. SeenInv'
  <2>1. CASE o.out = "publish"
    <3>1. view'.generation = conn' /\ view'.last = o.book.last /\ view'.gaps = gapCount' /\ o.book # NoBook
      BY <1>2, <1>12, <1>16, <2>1
    <3>2. o.book.last <= o.book.last
      BY <1>12, <1>6, <2>1
    <3>3. QED
      BY <1>14, <3>1, <3>2 DEF SeenInv, NoBook
  <2>2. CASE o.out = "ignore"
    BY <1>1, <1>2, <1>11, <1>14, <1>16, <2>2 DEF SeenInv, NoBook
  <2>3. CASE o.out = "reconnect"
    BY <1>2, <1>13, <1>14, <2>3 DEF SeenInv, NoBook
  <2>4. QED
    BY <1>10, <2>1, <2>2, <2>3
<1>32. BufferInv'
  <2>1. DOMAIN CurrentRefresh'.buffer = {} /\ CurrentRefresh'.id = 0 /\ CurrentRefresh'.buffer = <<>>
    BY <1>15
  <2>2. QED
    BY <1>2, <1>15, <2>1 DEF BufferInv
<1>33. GapInv'
  <2>1. CASE venue \notin Guarded
    BY <1>1, <1>2, <2>1 DEF GapInv
  <2>2. CASE venue \in Guarded /\ o.out = "reconnect"
    <3>1. recovery # conn
      BY <1>13, <2>2 DEF Dropped
    <3>2. gapCount <= conn - 1
      BY <1>1, <2>2, <3>1 DEF GapInv
    <3>3. o.gaps <= conn
      BY <1>8, <1>13, <2>2, <3>2
    <3>4. QED
      BY <1>2, <2>2, <3>3 DEF GapInv
  <2>3. CASE venue \in Guarded /\ o.out # "reconnect"
    <3>1. o.gaps = gapCount
      BY <1>10, <1>11, <1>12, <2>3
    <3>2. recovery' = IF generation # conn THEN 0 ELSE recovery
      BY <1>2, <2>3
    <3>3. generation # conn => recovery # conn
      BY <1>1, <1>4 DEF TypedInv
    <3>4. QED
      BY <1>1, <1>2, <1>4, <2>3, <3>1, <3>2, <3>3 DEF GapInv
  <2>4. QED
    BY <2>1, <2>2, <2>3
<1>34. Forward
  <2>1. SUFFICES ASSUME o.out = "publish" PROVE Forward
    BY <1>16 DEF Forward
  <2>2. view'.sync >= view.sync
    BY <1>8, <1>10, <1>16, <2>1
  <2>3. view'.sync = view.sync => view'.generation = view.generation /\ view'.gaps = view.gaps
    <3>1. SUFFICES ASSUME view'.sync = view.sync
                   PROVE  view'.generation = view.generation /\ view'.gaps = view.gaps
      OBVIOUS
    <3>2. o.sync = syncID
      BY <1>8, <1>10, <1>16, <2>1, <3>1
    <3>3. CurrentBook # NoBook
      BY <1>12, <2>1, <3>2
    <3>4. QED
      BY <1>1, <1>2, <1>12, <1>16, <2>1, <3>3 DEF SeenInv
  <2>4. view.generation = conn => view.last <= End(p) \/ (venue \in Blind /\ faults # 0)
    <3>1. SUFFICES ASSUME view.generation = conn, ~(venue \in Blind /\ faults # 0)
                   PROVE  view.last <= End(p)
      OBVIOUS
    <3>2. CASE venue \in Blind
      <4>1. view.last <= First(m) /\ venue \in PerEvent
        BY <1>1, <1>20, <3>1, <3>2 DEF BlindInv, Blind, PerEvent
      <4>2. QED
        BY <1>6, <4>1
    <3>3. CASE venue \in Chained /\ Kind(m) = "update"
      <4>1. CurrentBook # NoBook /\ CurrentBook.last <= End(p)
        BY <1>12, <2>1, <3>3
      <4>2. view.last = CurrentBook.last
        BY <1>1, <1>2, <4>1 DEF SeenInv
      <4>3. QED
        BY <4>1, <4>2
    <3>4. CASE Counted(venue, m) /\ venue \notin Blind /\ ~(venue \in Chained /\ Kind(m) = "update")
      <4>1. End(p) = End(m)
        BY <1>17, <1>6, <3>4 DEF PerEvent, Blind, Chained, FullBook
      <4>2. QED
        BY <1>1, <1>4, <3>1, <3>4, <4>1 DEF ViewInv, Ahead, P
    <3>5. CASE ~Counted(venue, m)
      <4>1. venue \in Comparing /\ (venue \in Overlapping => Kind(m) = "update")
        BY <1>17, <3>5 DEF Counted, Comparing
      <4>2. venue \in {"korbit", "coinone"} => venue \in FullBook
        BY DEF FullBook
      <4>3. CurrentBook # NoBook
        BY <1>1, <1>4, <1>12, <2>1, <3>1, <4>1, <4>2 DEF SeenInv, Comparing
      <4>4. view.last = CurrentBook.last
        BY <1>1, <1>2, <4>3 DEF SeenInv
      <4>5. QED
        BY <1>12, <2>1, <4>1, <4>3, <4>4
    <3>6. QED
      BY <3>2, <3>3, <3>4, <3>5
  <2>5. view'.generation = view.generation =>
          (view'.last >= view.last \/ (venue \in Blind /\ faults # 0))
    BY <1>8, <1>16, <1>6, <2>1, <2>4
  <2>6. QED
    BY <2>2, <2>3, <2>5 DEF Forward
<1>35. QED
  BY <1>23, <1>24, <1>25, <1>26, <1>27, <1>28, <1>29, <1>31, <1>32, <1>33, <1>34, <1>30 DEF StreamInv

LEMMA HtxHandleStep == StreamInv /\ HtxHandle => StreamInv' /\ Forward
<1> SUFFICES ASSUME StreamInv, HtxHandle PROVE StreamInv' /\ Forward
  OBVIOUS
<1> DEFINE m == Head(queue)
           e == Head(m.events)
           r == HtxOutcome(e)
           B == CurrentRefresh.buffer
           P == Pending(queue, feed)
           Q == Pending(queue', feed')
<1>1. /\ TypedInv /\ BookInv /\ ChannelInv /\ FreshInv /\ NumberInv /\ OrderInv
      /\ ViewInv /\ BlindInv /\ SeenInv /\ BufferInv /\ GapInv
  BY DEF StreamInv
<1>2. /\ venue = "htx" /\ queue # <<>> /\ m.kind = "data" /\ queue' = Tail(queue)
      /\ generation' = (IF e.type = "refresh" THEN generation ELSE conn)
      /\ book' = r.book /\ syncID' = r.sync /\ gapCount' = r.gaps
      /\ view' = (IF r.out = "publish"
                  THEN [generation |-> conn, sync |-> r.sync, gaps |-> r.gaps,
                        last |-> r.book.last, levels |-> Top(r.book.levels, ViewDepth)]
                  ELSE view)
      /\ r.out = "request" => RequestSnapshot(r.buffer)
      /\ r.out # "request" =>
           /\ refresh' = [buffer |-> r.buffer, id |-> r.id, ids |-> refresh.ids]
           /\ r.out \in {"ignore", "error", "publish"} => run' \in {"running", "returned"}
           /\ UNCHANGED <<closing, feed>>
      /\ UNCHANGED <<venue, latest, conn, faults, handling, recovery>>
  BY DEF HtxHandle, exchangeVars
<1>3. RightBook(CurrentBook) /\ CurrentBook.last \in Nat /\ CurrentBook.last <= latest
  BY CurrentBookIsRight
<1>4. /\ latest \in Nat /\ syncID \in Nat /\ gapCount \in Nat /\ conn \in Nat /\ feed.pos \in Nat
      /\ generation \in Nat /\ view.last \in Nat /\ view.generation \in Nat /\ view.generation <= conn
      /\ view.sync \in Nat /\ view.sync <= syncID /\ view.gaps \in Nat /\ view.gaps <= gapCount
      /\ venue \in Venues /\ latest \in 0..MaxId
  BY TypedFacts
<1>5. m \in P
  BY <1>2, FirstMessage
<1>6. \A x \in P : /\ x \in Messages /\ x.kind = "data" /\ GoodMessage(venue, latest, x)
                   /\ End(x) \in Nat
  BY <1>1, PendingFacts DEF TypedInv
<1>7. /\ e \in Events /\ GoodEvent(venue, latest, e) /\ e.type \in {"update", "refresh"}
      /\ e.final \in Nat /\ End(m) = e.final /\ Kind(m) = e.type
  <2>1. GoodMessage(venue, latest, m) /\ m.events \in Seq(Events)
    BY <1>5, <1>6 DEF Messages
  <2>2. m.events # <<>> /\ Len(m.events) = 1
    BY <1>2, <2>1 DEF GoodMessage, Batching
  <2>3. e = m.events[1] /\ 1 \in DOMAIN m.events
    BY <2>1, <2>2
  <2>4. e \in Events /\ e.final \in Nat
    BY <2>1, <2>3, EventsIn
  <2>5. GoodEvent(venue, latest, e)
    BY <2>1, <2>3 DEF GoodMessage
  <2> HIDE DEF e
  <2>6. e.type \in {"update", "refresh"}
    BY <1>2, <2>4, <2>5 DEF GoodEvent, Events
  <2>7. QED
    BY <2>2, <2>3, <2>4, <2>5, <2>6 DEF End, Kind
<1>8. \A i \in DOMAIN B : B[i].final \in Nat
  <2>1. B = refresh.buffer \/ DOMAIN B = {}
    BY DEF CurrentRefresh
  <2>2. QED
    BY <1>1, <2>1, EventsIn DEF TypedInv
<1>9. BufferFits
  <2> DEFINE E == Events
  <2>1. refresh.buffer \in Seq(E) /\ refresh.id \in Nat /\ <<>> \in Seq(E)
    BY <1>1 DEF TypedInv
  <2> HIDE DEF E
  <2>2. B \in Seq(E) /\ CurrentRefresh.id \in Nat
    BY <2>1 DEF CurrentRefresh
  <2>3. QED
    BY <1>1, <2>2 DEF BufferInv, BufferFits, E
<1> HIDE DEF m, e
<1>10. HtxHandled(r, e)
  <2>1. CASE e.type = "update"
    BY <1>2, <1>3, <1>4, <1>7, <1>9, <2>1, HtxUpdateFacts DEF HtxOutcome
  <2>2. CASE e.type = "refresh"
    BY <1>2, <1>3, <1>4, <1>7, <1>9, <2>2, HtxSnapshotFacts DEF HtxOutcome
  <2>3. QED
    BY <1>7, <2>1, <2>2
<1> HIDE DEF r
<1>11. /\ r.out \in {"ignore", "error", "request", "publish"}
       /\ RightBook(r.book) /\ r.book.last <= latest
       /\ r.sync \in Nat /\ r.sync >= syncID /\ r.gaps \in Nat /\ r.gaps >= gapCount
       /\ r.buffer \in Seq(Events) /\ r.id \in Nat
       /\ r.id # 0 \/ r.out = "request" => r.buffer # <<>> /\ r.book = NoBook
       /\ r.book # NoBook => r.buffer = <<>> /\ r.gaps = gapCount
  BY <1>10 DEF HtxHandled
<1>12. \A k \in DOMAIN r.buffer :
         (e.type = "update" /\ r.buffer[k] = e) \/ (\E j \in DOMAIN B : r.buffer[k] = B[j])
  BY <1>10 DEF HtxHandled
<1>13. r.out = "publish" =>
         /\ r.book # NoBook /\ r.book.bridged
         /\ r.sync = syncID => CurrentBook # NoBook /\ CurrentBook.bridged
         /\ \/ (e.type = "update" /\ CurrentBook # NoBook /\ r.book.last = e.final /\ CurrentBook.last <= e.final)
            \/ (e.type # "update" /\ generation = conn /\ \E j \in DOMAIN B : r.book.last = B[j].final)
  BY <1>10 DEF HtxHandled
<1>14. r.out # "publish" /\ r.book # NoBook =>
         \/ r.book = CurrentBook
         \/ (e.type # "update" /\ ~r.book.bridged /\ generation = conn /\ \E j \in DOMAIN B : B[j].final <= r.book.last)
  BY <1>10 DEF HtxHandled
<1>15. /\ refresh' \in [buffer : Seq(Events), id : Nat, ids : Nat]
       /\ refresh'.buffer = r.buffer /\ (refresh'.id # 0 => r.id # 0 \/ r.out = "request")
       /\ feed' \in Feeds /\ feed'.snapshot = feed.snapshot /\ feed'.pos = feed.pos
       /\ feed'.n = feed.n /\ feed'.recent = feed.recent
  <2> DEFINE E == Seq(Events)
  <2>1. r.buffer \in E /\ refresh.ids \in Nat /\ refresh.ids + 1 \in Nat /\ r.id \in Nat /\ feed \in Feeds
    <3>1. refresh \in [buffer : E, id : Nat, ids : Nat] /\ feed \in Feeds
      BY <1>1 DEF TypedInv
    <3>2. r.buffer \in E /\ r.id \in Nat
      BY <1>11
    <3> HIDE DEF E
    <3>3. refresh.ids \in Nat
      BY <3>1
    <3>4. QED
      BY <3>1, <3>2, <3>3
  <2> HIDE DEF E
  <2>2. CASE r.out = "request"
    <3>1. CASE /\ refresh' = [buffer |-> r.buffer, id |-> refresh.ids + 1, ids |-> refresh.ids + 1]
               /\ feed' = [feed EXCEPT !.asked = refresh.ids + 1]
      <4>1. refresh' \in [buffer : E, id : Nat, ids : Nat] /\ refresh'.buffer = r.buffer
        BY <2>1, <3>1
      <4>2. /\ feed' \in Feeds /\ feed'.snapshot = feed.snapshot /\ feed'.pos = feed.pos
            /\ feed'.n = feed.n /\ feed'.recent = feed.recent
        BY <2>1, <3>1 DEF Feeds
      <4>3. QED
        BY <2>2, <4>1, <4>2 DEF E
    <3>2. CASE /\ refresh' = [buffer |-> r.buffer, id |-> 0, ids |-> refresh.ids]
               /\ feed' = feed
      <4>1. refresh' \in [buffer : E, id : Nat, ids : Nat] /\ refresh'.buffer = r.buffer
        BY <2>1, <3>2
      <4>2. QED
        BY <2>1, <2>2, <3>2, <4>1 DEF E
    <3>3. QED
      BY <1>2, <2>2, <3>1, <3>2 DEF RequestSnapshot
  <2>3. CASE r.out # "request"
    <3>1. refresh' = [buffer |-> r.buffer, id |-> r.id, ids |-> refresh.ids] /\ feed' = feed
      BY <1>2, <2>3
    <3>2. /\ refresh' \in [buffer : E, id : Nat, ids : Nat] /\ refresh'.buffer = r.buffer
          /\ refresh'.id = r.id
      BY <2>1, <3>1
    <3>3. QED
      BY <2>1, <3>1, <3>2 DEF E
  <2>4. QED
    BY <2>2, <2>3
<1>16. /\ queue' \in Seq(Messages) /\ Len(queue') <= Room' /\ Kept(queue', queue)
       /\ Q \subseteq P /\ conn # 0 /\ feed.snapshot # "none"
       /\ \A x \in Q : Follows(venue, m, x)
  <2>1. Room' = Room
    BY <1>2 DEF Room
  <2>2. QED
    BY <1>2, <1>15, <2>1, FirstMessage DEF m
<1>17. closing' \in BOOLEAN /\ run' \in {"running", "returned"}
  <2>1. closing' = closing \/ closing' = TRUE
    BY <1>2 DEF RequestSnapshot, Reconnect
  <2>2. closing' \in BOOLEAN
    BY <1>1, <2>1, Zenon DEF TypedInv
  <2>3. run' \in {"running", "returned"}
    BY <1>1, <1>2, <1>11 DEF RequestSnapshot, Reconnect, TypedInv
  <2>4. QED
    BY <2>2, <2>3
<1>18. /\ generation' = conn => CurrentBook' = r.book /\ CurrentRefresh' = refresh'
       /\ generation' # conn => /\ CurrentBook' = NoBook
                                /\ CurrentRefresh'.buffer = <<>> /\ CurrentRefresh'.id = 0
                                /\ e.type = "refresh" /\ generation # conn
  <2>1. generation' = conn => CurrentBook' = r.book /\ CurrentRefresh' = refresh'
    BY <1>2 DEF CurrentBook, CurrentRefresh
  <2>2. generation' # conn => /\ CurrentBook' = NoBook
                              /\ CurrentRefresh'.buffer = <<>> /\ CurrentRefresh'.id = 0
    BY <1>2 DEF CurrentBook, CurrentRefresh, NoBook
  <2>3. QED
    BY <1>2, <2>1, <2>2
<1>19. /\ r.out = "publish" => /\ view'.generation = conn /\ view'.sync = r.sync /\ view'.gaps = r.gaps
                               /\ view'.last = r.book.last
       /\ r.out # "publish" => view' = view
  BY <1>2
<1> HIDE DEF P, Q, B
<1>20. Counted(venue, m) <=> e.type = "update"
  BY <1>2, <1>7 DEF Counted, Overlapping
<1>21. \A j \in DOMAIN B :
         /\ B[j].type = "update" /\ GoodEvent(venue, latest, B[j]) /\ B[j].final <= feed.pos
         /\ \A x \in P : Ahead(venue, B[j].final, x)
         /\ view.generation = conn => view.last <= B[j].final
  BY <1>1 DEF BufferInv, B, P
<1>22. e.type = "update" =>
         /\ e.final <= feed.pos /\ \A x \in Q : Ahead(venue, e.final, x)
         /\ view.generation = conn => view.last <= e.final
  <2>1. e.type = "update" => e.final <= feed.pos
    BY <1>1, <1>2, <1>5, <1>7, <1>20 DEF OrderInv, P, Overlapping
  <2>2. e.type = "update" => \A x \in Q : Ahead(venue, e.final, x)
    BY <1>7, <1>16, <1>20 DEF Follows
  <2>3. e.type = "update" /\ view.generation = conn => view.last <= e.final
    BY <1>1, <1>5, <1>7, <1>20 DEF ViewInv, Ahead, P
  <2>4. QED
    BY <2>1, <2>2, <2>3
<1>23. r.book.last \in Nat
  BY <1>11, LimitType DEF RightBook
<1>24. TypedInv'
  <2>1. /\ view'.generation \in 0..generation' /\ view'.sync \in 0..r.sync /\ view'.gaps \in 0..r.gaps
        /\ view'.last \in Nat
    <3>1. CASE r.out = "publish"
      <4>1. /\ view'.generation = conn /\ view'.sync = r.sync /\ view'.gaps = r.gaps
            /\ view'.last \in Nat /\ generation' = conn
        BY <1>2, <1>7, <1>13, <1>19, <1>23, <3>1
      <4>2. conn \in 0..conn /\ r.sync \in 0..r.sync /\ r.gaps \in 0..r.gaps
        BY <1>4, <1>11
      <4>3. QED
        BY <4>1, <4>2
    <3>2. CASE r.out # "publish"
      <4>1. view' = view
        BY <1>19, <3>2
      <4>2. view.sync \in 0..r.sync /\ view.gaps \in 0..r.gaps
        BY <1>4, <1>11
      <4>3. view.generation \in 0..generation'
        BY <1>1, <1>2, <1>4 DEF TypedInv
      <4>4. QED
        BY <1>4, <4>1, <4>2, <4>3
    <3>3. QED
      BY <3>1, <3>2
  <2>2. generation' \in 0..conn
    BY <1>1, <1>2, <1>4 DEF TypedInv
  <2>3. recovery' \in {0, generation'}
    <3>1. recovery = 0
      BY <1>1, <1>2 DEF GapInv, Guarded
    <3>2. QED
      BY <1>2, <3>1
  <2>4. faults' \in Nat /\ handling' \in BOOLEAN
    BY <1>1, <1>2, Zenon DEF TypedInv
  <2>5. QED
    BY <1>1, <1>2, <1>11, <1>15, <1>16, <1>17, <2>1, <2>2, <2>3, <2>4 DEF TypedInv
<1>25. BookInv'
  BY <1>2, <1>11, KeptBook DEF BookInv
<1>26. ChannelInv'
  BY <1>2, <1>6, <1>16 DEF ChannelInv, Q
<1>27. FreshInv'
  <2>1. feed'.snapshot # "none" /\ feed'.pos # 0 /\ conn' # 0 /\ venue' = "htx"
    BY <1>1, <1>2, <1>15, <1>16 DEF FreshInv
  <2>2. QED
    BY <2>1 DEF FreshInv
<1>28. NumberInv'
  BY <1>2 DEF NumberInv, Numbered
<1>29. OrderInv'
  <2>1. \A i, j \in Data(queue') : i < j => Follows(venue, queue'[i], queue'[j])
    BY <1>1, <1>16 DEF OrderInv, Kept
  <2>2. \A i \in Data(queue') : \A k \in DOMAIN feed.recent : Follows(venue, queue'[i], feed.recent[k])
    BY <1>1, <1>16 DEF OrderInv, Kept
  <2>3. \A x \in Q : venue \notin Overlapping /\ Counted(venue, x) => End(x) <= feed.pos
    BY <1>1, <1>16 DEF OrderInv, P
  <2>4. \A k \in DOMAIN feed.recent :
          venue \notin Overlapping /\ Counted(venue, feed.recent[k]) => End(feed.recent[k]) = feed.pos
    BY <1>1 DEF OrderInv
  <2>5. QED
    BY <1>2, <1>15, <2>1, <2>2, <2>3, <2>4 DEF OrderInv, Q
<1>30. ViewInv'
  <2>1. CASE r.out = "publish"
    <3>1. (\A x \in Q : Ahead(venue, r.book.last, x)) /\ r.book.last <= feed.pos
      BY <1>13, <1>16, <1>21, <1>22, <2>1
    <3>2. QED
      BY <1>2, <1>15, <1>19, <2>1, <3>1 DEF ViewInv, Q
  <2>2. CASE r.out # "publish"
    BY <1>1, <1>2, <1>15, <1>16, <1>19, <2>2 DEF ViewInv, P, Q
  <2>3. QED
    BY <2>1, <2>2
<1>31. SeenInv'
  <2>1. venue' \notin FullBook /\ venue' = "htx" /\ conn' = conn /\ gapCount' = r.gaps
    BY <1>2 DEF FullBook
  <2>2. SUFFICES ASSUME generation' = conn, r.book # NoBook
                 PROVE  /\ r.book.bridged =>
                             view'.generation = conn /\ view'.last = r.book.last /\ view'.gaps = r.gaps
                        /\ view'.generation = conn => view'.last <= r.book.last
    BY <1>18, <2>1 DEF SeenInv, NoBook
  <2>3. CASE r.out = "publish"
    BY <1>19, <1>23, <2>3
  <2>4. CASE r.out # "publish" /\ r.book = CurrentBook
    BY <1>1, <1>2, <1>11, <1>19, <2>2, <2>4 DEF SeenInv
  <2>5. CASE r.out # "publish" /\ r.book # CurrentBook
    <3>1. PICK j \in DOMAIN B : ~r.book.bridged /\ B[j].final <= r.book.last
      BY <1>14, <2>2, <2>5
    <3>2. view.generation = conn => view.last <= r.book.last
      BY <1>4, <1>8, <1>21, <1>23, <3>1 DEF B
    <3>3. QED
      BY <1>19, <2>5, <3>1, <3>2
  <2>6. QED
    BY <2>3, <2>4, <2>5
<1>32. BufferInv'
  <2>1. CASE generation' # conn
    <3>1. DOMAIN CurrentRefresh'.buffer = {}
      BY <1>18, <2>1
    <3>2. QED
      BY <1>2, <1>18, <2>1, <3>1 DEF BufferInv, NoBook
  <2>2. CASE generation' = conn
    <3>1. CurrentRefresh'.buffer = r.buffer /\ CurrentRefresh'.id = refresh'.id /\ CurrentBook' = r.book
      BY <1>15, <1>18, <2>2
    <3>2. r.out = "publish" => DOMAIN r.buffer = {}
      BY <1>11, <1>13
    <3>3. \A k \in DOMAIN r.buffer :
            /\ r.buffer[k].type = "update" /\ GoodEvent(venue, latest, r.buffer[k])
            /\ r.buffer[k].final <= feed.pos
            /\ \A x \in Q : Ahead(venue, r.buffer[k].final, x)
            /\ view.generation = conn => view.last <= r.buffer[k].final
      BY <1>7, <1>12, <1>16, <1>21, <1>22
    <3>4. \A k \in DOMAIN r.buffer : view'.generation = conn => view'.last <= r.buffer[k].final
      BY <1>19, <3>2, <3>3
    <3>5. /\ refresh'.id # 0 => r.buffer # <<>>
          /\ r.book # NoBook => r.buffer = <<>> /\ refresh'.id = 0
      BY <1>11, <1>15
    <3>6. QED
      BY <1>2, <1>15, <3>1, <3>3, <3>4, <3>5 DEF BufferInv, NoBook, Q
  <2>3. QED
    BY <2>1, <2>2
<1>33. GapInv'
  BY <1>1, <1>2 DEF GapInv, Guarded
<1>34. Forward
  <2>1. SUFFICES ASSUME r.out = "publish" PROVE Forward
    BY <1>19 DEF Forward
  <2>2. view'.sync >= view.sync
    BY <1>4, <1>11, <1>19, <2>1
  <2>3. view'.sync = view.sync => view'.generation = view.generation /\ view'.gaps = view.gaps
    <3>1. SUFFICES ASSUME view'.sync = view.sync
                   PROVE  view'.generation = view.generation /\ view'.gaps = view.gaps
      OBVIOUS
    <3>2. r.sync = syncID
      BY <1>4, <1>11, <1>19, <2>1, <3>1
    <3>3. CurrentBook # NoBook /\ CurrentBook.bridged /\ r.gaps = gapCount
      BY <1>11, <1>13, <2>1, <3>2
    <3>4. QED
      BY <1>1, <1>19, <2>1, <3>3 DEF SeenInv
  <2>4. view.generation = conn => view.last <= r.book.last
    BY <1>13, <1>21, <1>22, <2>1
  <2>5. view'.generation = view.generation => view'.last >= view.last
    BY <1>4, <1>19, <1>23, <2>1, <2>4
  <2>6. QED
    BY <2>2, <2>3, <2>5 DEF Forward
<1>35. BlindInv'
  BY <1>2 DEF BlindInv, Blind
<1>36. QED
  BY <1>24, <1>25, <1>26, <1>27, <1>28, <1>29, <1>30, <1>31, <1>32, <1>33, <1>34, <1>35 DEF StreamInv

-----------------------------------------------------------------------------
(* Every behaviour. *)

LEMMA StreamStart == StreamBookInit => StreamInv
<1> SUFFICES ASSUME StreamBookInit PROVE StreamInv
  OBVIOUS
<1>1. /\ venue \in Venues /\ latest = FirstId /\ conn = 0 /\ closing = FALSE /\ feed = NoFeed
      /\ queue = <<>> /\ generation = 0 /\ recovery = 0 /\ book = NoBook
      /\ syncID = 0 /\ gapCount = 0 /\ refresh = NoRefresh /\ run = "running"
      /\ view.generation = 0 /\ view.sync = 0 /\ view.gaps = 0 /\ view.last = 0
      /\ faults = 0 /\ handling = FALSE
  BY DEF StreamBookInit
<1>2. /\ feed.snapshot = "none" /\ feed.pos = 0 /\ feed.recent = <<>> /\ feed.asked = 0
      /\ feed \in Feeds /\ Len(feed.recent) <= 1 /\ DOMAIN feed.recent = {}
  <2> DEFINE r == <<>>
             M == Messages
  <2>1. r \in Seq(M) /\ Len(r) <= 1 /\ DOMAIN r = {}
    OBVIOUS
  <2> HIDE DEF r
  <2>2. feed = Feed("none", 0, 0, r, 0)
    BY <1>1 DEF NoFeed, r
  <2>3. 0 \in 0..MaxId
    BY LimitType
  <2>4. /\ feed.snapshot = "none" /\ feed.pos = 0 /\ feed.recent = r /\ feed.asked = 0
        /\ feed \in Feeds
    BY <2>1, <2>2, <2>3 DEF Feed, Feeds
  <2>5. QED
    BY <2>1, <2>4 DEF r
<1>3. queue \in Seq(Messages) /\ Len(queue) <= Room /\ Data(queue) = {}
  <2> DEFINE r == <<>>
             M == Messages
  <2>1. r \in Seq(M) /\ Len(r) = 0 /\ DOMAIN r = {}
    OBVIOUS
  <2>2. QED
    BY <1>1, <2>1, StreamBookAssumption DEF Data, Room
<1>4. Pending(queue, feed) = {}
  BY <1>2, <1>3 DEF Pending
<1>5. CurrentBook = NoBook /\ RightBook(NoBook) /\ NoBook.last = 0
  BY <1>1, NoBookFacts DEF CurrentBook, NoBookIsRight
<1>6. /\ refresh \in [buffer : Seq(Events), id : Nat, ids : Nat]
      /\ CurrentRefresh.buffer = <<>> /\ CurrentRefresh.id = 0 /\ DOMAIN CurrentRefresh.buffer = {}
      /\ refresh.buffer = <<>> /\ refresh.id = 0
  <2> DEFINE E == Seq(Events)
             r == <<>>
  <2>1. r \in E /\ DOMAIN r = {}
    OBVIOUS
  <2> HIDE DEF E
  <2>2. refresh = [buffer |-> r, id |-> 0, ids |-> 0] /\ CurrentRefresh = refresh
    BY <1>1 DEF NoRefresh, CurrentRefresh
  <2> HIDE DEF r
  <2>3. refresh \in [buffer : E, id : Nat, ids : Nat] /\ refresh.buffer = r /\ refresh.id = 0
    BY <2>1, <2>2
  <2>4. QED
    BY <2>1, <2>2, <2>3 DEF E, r
<1>7. TypedInv
  <2>1. closing \in BOOLEAN /\ handling \in BOOLEAN
    BY <1>1, Zenon
  <2>2. latest \in FirstId..MaxId /\ feed.pos <= latest /\ conn \in 0..MaxGeneration
    BY <1>1, <1>2, LimitType, StreamBookAssumption
  <2>3. QED
    BY <1>1, <1>2, <1>3, <1>6, <2>1, <2>2 DEF TypedInv
<1>8. BookInv
  BY <1>1, <1>5, StreamBookAssumption DEF BookInv
<1>9. ChannelInv
  BY <1>4 DEF ChannelInv
<1>10. FreshInv
  BY <1>1, <1>2, <1>3 DEF FreshInv
<1>11. NumberInv
  BY <1>4, <1>5 DEF NumberInv
<1>12. OrderInv
  BY <1>2, <1>3, <1>4 DEF OrderInv
<1>13. ViewInv
  BY <1>1, <1>2, <1>4 DEF ViewInv
<1>14. SeenInv
  BY <1>1, <1>5 DEF SeenInv
<1>15. BufferInv
  BY <1>5, <1>6 DEF BufferInv
<1>16. GapInv
  BY <1>1 DEF GapInv
<1>17. BlindInv
  BY <1>3 DEF BlindInv
<1>18. QED
  BY <1>7, <1>8, <1>9, <1>10, <1>11, <1>12, <1>13, <1>14, <1>15, <1>16, <1>17 DEF StreamInv

\* A step keeps the invariant, and the view does not go back.
LEMMA StreamStep == StreamInv /\ [StreamBookNext]_streamBookVars => StreamInv' /\ Forward
<1> SUFFICES ASSUME StreamInv, [StreamBookNext]_streamBookVars PROVE StreamInv' /\ Forward
  OBVIOUS
<1>1. CASE HandleData
  BY <1>1, HandleDataStep
<1>2. CASE HtxHandle
  BY <1>2, HtxHandleStep
<1>3. CASE Quiet
  BY <1>3, QuietStep DEF Forward, Quiet, processorVars
<1>4. CASE \E m \in Messages : Delivers(m)
  BY <1>4, DeliverStep DEF Forward, Delivers, processorVars
<1>5. CASE Connect
  BY <1>5, ConnectStep DEF Forward, Connect, processorVars
<1>6. CASE HandleControl
  BY <1>3, <1>6, HandleControlStep
<1>7. CASE Update \/ Leave
  BY <1>3, <1>7, UpdateStep, LeaveStep
<1>8. CASE (\E pos \in FirstId..latest : SendSnapshot(pos)) \/ SendSome
  BY <1>4, <1>8, SendSnapshotStep, SendStep
<1>9. CASE \E n \in feed.pos + 2..latest : \E k \in feed.pos + 1..n - 1 : SendBatch(k, n)
  BY <1>4, <1>9, SendBatchStep
<1>10. CASE SendHeartbeat \/ Repeat
  BY <1>4, <1>10, SendHeartbeatStep, RepeatStep
<1>11. CASE \E kind \in {"refused", "notice", "malformed", "other"} : SendControl(kind)
  BY <1>3, <1>11, SendControlStep
<1>12. CASE (\E n \in feed.pos + 1..latest : Lose(n)) \/ (Lose(latest) /\ feed.snapshot = "none")
  BY <1>3, <1>12, LoseStep
<1>13. CASE HtxSubscribed \/ LoseRefresh
  BY <1>3, <1>13, HtxSubscribedStep, LoseRefreshStep
<1>14. CASE \E n \in FirstId..latest : SendRefresh(n)
  BY <1>4, <1>14, SendRefreshStep
<1>15. CASE \E n \in FirstId..feed.pos - 1 : SendOld(n)
  BY <1>4, <1>15, SendOldStep
<1>16. CASE UNCHANGED streamBookVars
  BY <1>3, <1>16, ReturnedStep
<1>17. QED
  BY <1>1, <1>2, <1>5, <1>6, <1>7, <1>8, <1>9, <1>10, <1>11, <1>12, <1>13, <1>14, <1>15, <1>16
     DEF StreamBookNext, Handle, Returned

\* The inductive invariant: what the queue and the channel may still bring fits the
\* local book (the numbers, the order of the updates, HTX's buffer), the handler has
\* seen the book, and every connection given up is counted once.
THEOREM StreamInvariant == StreamBookSpec => []StreamInv
<1>1. StreamInv /\ [StreamBookNext]_streamBookVars => StreamInv'
  BY StreamStep
<1>2. QED
  BY <1>1, StreamStart, PTL DEF StreamBookSpec

\* LocalOrderBook of every exchange with snapshots on its stream: whatever is lost,
\* repeated, sent late or in a batch, the local book is the exchange's book at the
\* update it has reached (with Kraken, as far as the checksum reaches), for every
\* history, depth and number of connections; and a gap is counted once.
THEOREM StreamBookRight == StreamBookSpec => []StreamBookIsSound
<1>1. StreamInv => StreamBookIsSound
  <2> SUFFICES ASSUME StreamInv PROVE StreamBookIsSound
    OBVIOUS
  <2>1. TypedInv /\ BookInv /\ GapInv
    BY DEF StreamInv
  <2>2. /\ book.last \in Nat /\ book.last <= latest /\ Cardinality(DOMAIN book.levels) <= Limit
        /\ book # NoBook => Verified(book.levels) = Verified(ChannelBook(book.last))
    BY <2>1, LimitType DEF BookInv, RightBook
  <2>3. /\ latest \in Nat /\ conn \in Nat /\ feed.pos \in Nat /\ feed.pos <= latest
        /\ view.generation <= generation /\ view.sync <= syncID /\ view.gaps <= gapCount
        /\ feed.snapshot \in {"none", "sent", "lost"}
    <3>1. /\ feed.pos \in Nat /\ feed.pos <= latest /\ feed.snapshot \in {"none", "sent", "lost"}
      BY <2>1, LimitType DEF TypedInv, Feeds
    <3>2. latest \in Nat /\ conn \in Nat /\ generation \in Nat
      BY TypedFacts
    <3>3. view.generation <= generation /\ view.sync <= syncID /\ view.gaps <= gapCount
      BY <2>1, <3>2 DEF TypedInv
    <3>4. QED
      BY <3>1, <3>2, <3>3
  <2>4. book.last \in 0..latest /\ feed.pos \in 0..latest
    BY <2>2, <2>3
  <2>5. StreamBookTypeOK
    BY <2>1, <2>2, <2>3, <2>4 DEF StreamBookTypeOK, TypedInv
  <2>6. gapCount \in Nat /\ (venue \in Guarded => gapCount <= conn)
    BY <2>1, <2>3 DEF GapInv, TypedInv
  <2>7. QED
    BY <2>2, <2>5, <2>6
       DEF StreamBookIsSound, StreamBookIsExchangeBook, GuardedCountOnce, GapsCauseReconnects
<1>2. QED
  BY <1>1, StreamInvariant, PTL

\* The views handed to the handler, one for each event where the handler is called for
\* each event, those before a gap included: the views of one connection never go back,
\* although messages are repeated and books come late, and a SynchronizationID stands
\* for one connection and one unbroken run of updates.  On the channels whose processor
\* cannot tell a batch sent again (Blind: OKX's five-level channel and Kraken's) the
\* first is proved as long as nothing has been lost or sent again.
THEOREM StreamViewsForward == StreamBookSpec => StreamViewsAdvance
<1>1. StreamInv /\ [StreamBookNext]_streamBookVars =>
        [view' # view =>
           /\ view'.sync >= view.sync
           /\ view'.generation = view.generation =>
                (view'.last >= view.last \/ (venue \in Blind /\ faults # 0))
           /\ view'.sync = view.sync =>
                view'.generation = view.generation /\ view'.gaps = view.gaps]_streamBookVars
  BY StreamStep DEF Forward
<1>2. QED
  BY <1>1, StreamInvariant, PTL DEF StreamBookSpec, StreamViewsAdvance

=============================================================================
