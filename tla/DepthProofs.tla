---------------------------- MODULE DepthProofs ----------------------------
(***************************************************************************)
(* Proofs about DepthSync, for every history of the exchange, every limit  *)
(* of the buffer and the snapshots, and every order of deliveries.         *)
(***************************************************************************)
EXTENDS DepthSync, SharedFacts

(* Books and the updates between them. *)

\* A book that agrees with the exchange's.
Sound(b) ==
  LET book == ExchangeBook(b.last)
  IN /\ DOMAIN b.levels \subseteq DOMAIN book
     /\ \A p \in DOMAIN b.levels : b.levels[p] = book[p]
     /\ Untruncated => b.levels = book

\* A delta that begins at or before the update after the book's, and does not end before
\* the book, takes the book to the exchange's book at the delta's end.
LEMMA AppliedIsSound ==
  ASSUME NEW b, Sound(b), b.last \in Nat,
         NEW e, e.first \in Nat, e.final \in Nat, e.first <= b.last + 1, b.last <= e.final
  PROVE  Sound(Applied(b, e)) /\ Applied(b, e).last = e.final
<1> DEFINE m == b.last
           n == e.final
           after(p) == IF p \in DOMAIN Delta(e) THEN Delta(e)[p] ELSE b.levels[p]
           new == Applied(b, e).levels
<1>1. Applied(b, e).last = n
  BY DEF Applied
<1>2. /\ DOMAIN new = {q \in DOMAIN b.levels \cup DOMAIN Delta(e) : after(q) # 0}
      /\ \A p \in DOMAIN new : new[p] = after(p)
      /\ new = [p \in DOMAIN new |-> new[p]]
  BY DEF Applied, ApplyLevels
<1>3. DOMAIN Delta(e) = Touched(e.first, n)
  BY DEF Delta
<1>4. \A p \in Touched(e.first, n) : Delta(e)[p] = Quantity(ExchangeBook(n), p)
  BY DEF Delta
<1>5. \A p : p \notin Touched(e.first, n) =>
        /\ p \in DOMAIN ExchangeBook(m) <=> p \in DOMAIN ExchangeBook(n)
        /\ p \in DOMAIN ExchangeBook(m) => ExchangeBook(m)[p] = ExchangeBook(n)[p]
  BY Untouched
<1>6. /\ DOMAIN b.levels \subseteq DOMAIN ExchangeBook(m)
      /\ \A p \in DOMAIN b.levels : b.levels[p] = ExchangeBook(m)[p]
      /\ Untruncated => b.levels = ExchangeBook(m)
  BY DEF Sound
<1>7. \A p \in DOMAIN ExchangeBook(n) : ExchangeBook(n)[p] # 0
  BY NoEmptyLevel
<1>8. ExchangeBook(n) = [p \in DOMAIN ExchangeBook(n) |-> ExchangeBook(n)[p]]
  BY DEF ExchangeBook
<1> HIDE DEF new, m, n
<1>9. ASSUME NEW p \in DOMAIN new
      PROVE  p \in DOMAIN ExchangeBook(n) /\ new[p] = ExchangeBook(n)[p]
  <2>1. CASE p \in Touched(e.first, n)
    BY <1>2, <1>3, <1>4, <2>1 DEF Quantity
  <2>2. CASE p \notin Touched(e.first, n)
    BY <1>2, <1>3, <1>5, <1>6, <2>2
  <2>3. QED
    BY <2>1, <2>2
<1>10. Untruncated => new = ExchangeBook(n)
  <2>1. SUFFICES ASSUME Untruncated PROVE new = ExchangeBook(n)
    OBVIOUS
  <2>2. ASSUME NEW p \in DOMAIN ExchangeBook(n) PROVE p \in DOMAIN new
    <3>1. CASE p \in Touched(e.first, n)
      BY <1>2, <1>3, <1>4, <1>7, <3>1 DEF Quantity
    <3>2. CASE p \notin Touched(e.first, n)
      BY <1>2, <1>3, <1>5, <1>6, <1>7, <2>1, <3>2
    <3>3. QED
      BY <3>1, <3>2
  <2>3. DOMAIN new = DOMAIN ExchangeBook(n)
    BY <1>9, <2>2
  <2>4. QED
    BY <1>2, <1>8, <1>9, <2>3
<1>11. QED
  BY <1>1, <1>9, <1>10 DEF Sound, new, n

\* The book of a snapshot is sound: the levels it has are the exchange's, and it has
\* them all when the exchange never has more prices than a snapshot holds.
LEMMA SnapshotIsSound ==
  ASSUME NEW id \in 1..MaxId
  PROVE  Sound(FromSnapshot(id)) /\ FromSnapshot(id).last = id
<1> DEFINE now == ExchangeBook(id)
           top == Top(now, SnapshotLimit)
<1>1. SnapshotLimit \in Nat
  BY DepthAssumption
<1>2. id \in 0..MaxId
  OBVIOUS
<1>3. DOMAIN now \in SUBSET Prices /\ now = [p \in DOMAIN now |-> now[p]]
  BY <1>2, BookPrices
<1>4. /\ top = [p \in Best(DOMAIN now, SnapshotLimit) |-> now[p]]
      /\ DOMAIN top \subseteq DOMAIN now
      /\ \A p \in DOMAIN top : top[p] = now[p]
  BY TopIsBest
<1>5. FromSnapshot(id).last = id /\ FromSnapshot(id).levels = top
  BY DEF FromSnapshot
<1> HIDE DEF now, top
<1>6. Untruncated => top = now
  <2>1. SUFFICES ASSUME Untruncated PROVE top = now
    OBVIOUS
  <2>2. Cardinality(Prices) <= SnapshotLimit
    BY <2>1 DEF Untruncated, Prices
  <2>3. IsFiniteSet(DOMAIN now) /\ Cardinality(DOMAIN now) <= Cardinality(Prices)
    BY <1>3, PricesAreFinite, FS_Subset
  <2>4. DOMAIN now \subseteq Nat /\ Cardinality(DOMAIN now) <= SnapshotLimit
    BY <1>1, <1>3, <2>2, <2>3, PricesAreFinite, FS_CardinalityType
  <2>5. Best(DOMAIN now, SnapshotLimit) = DOMAIN now
    BY <1>1, <2>3, <2>4, FewAreBest
  <2>6. QED
    BY <1>3, <1>4, <2>5
<1>7. QED
  BY <1>4, <1>5, <1>6 DEF Sound, now
-----------------------------------------------------------------------------
(* Snapshots and the deltas that follow them. *)

\* The updates of a delta follow its predecessor's.
Ordered(e) == e \in Events /\ e.first = e.prev + 1 /\ e.first <= e.final

\* Whatever the exchange's rule, a delta is joined to a snapshot or applied to a book
\* only when no update is missing between them and none would be undone.
LEMMA Joins ==
  ASSUME venue \in Venues, NEW e, Ordered(e), NEW id \in Nat
  PROVE  /\ ~Stale(e, id) /\ Bridges(e, id) => e.first <= id + 1 /\ id <= e.final
         /\ Verdict(e, id) = "apply" => e.first <= id + 1 /\ id <= e.final
         /\ Verdict(e, id) \in {"apply", "skip", "gap"}
<1>1. e.first \in Nat /\ e.final \in Nat /\ e.prev \in Nat /\ e.first = e.prev + 1
      /\ e.first <= e.final
  BY DEF Ordered, Events
<1>2. CASE venue = "binance"
  BY <1>1, <1>2 DEF Stale, Bridges, Verdict, SpotStale, SpotBridges, SpotApply
<1>3. CASE venue = "usdm"
  BY <1>1, <1>3 DEF Stale, Bridges, Verdict, UsdmStale, UsdmBridges, UsdmApply
<1>4. CASE venue = "mexc"
  BY <1>1, <1>4 DEF Stale, Bridges, Verdict, MexcStale, MexcBridges, MexcApply
<1>5. QED
  BY <1>2, <1>3, <1>4, DepthAssumption

\* What is known of the synchronisation after i deltas.
Joined(c, events, i) ==
  /\ c.gap \in 0..i
  /\ Sound(c.book)
  /\ \E j \in 1..i : c.book.last = events[j].final

\* One more delta.
LEMMA FollowIsSound ==
  ASSUME venue \in Venues, NEW events, NEW i \in Nat \ {0}, NEW c, Joined(c, events, i),
         \A j \in 1..(i + 1) : Ordered(events[j])
  PROVE  Joined(Follow(c, events[i + 1], i + 1), events, i + 1)
<1> DEFINE e == events[i + 1]
           d == Follow(c, e, i + 1)
<1>1. Ordered(e) /\ e.first \in Nat /\ e.final \in Nat
  BY DEF Ordered, Events
<1>2. PICK j \in 1..i : c.book.last = events[j].final
  BY DEF Joined
<1>3. c.book.last \in Nat /\ j \in 1..(i + 1)
  BY <1>2 DEF Ordered, Events
<1>4. Sound(c.book) /\ c.gap \in 0..i
  BY DEF Joined
<1>5. i + 1 \in 1..(i + 1)
  OBVIOUS
<1> HIDE DEF e
<1>6. CASE c.gap # 0 \/ Verdict(e, c.book.last) = "skip"
  <2>1. d = c
    BY <1>6 DEF Follow
  <2>2. QED
    BY <1>2, <1>3, <1>4, <2>1 DEF Joined, e
<1>7. CASE c.gap = 0 /\ Verdict(e, c.book.last) = "gap"
  <2>1. d = [book |-> c.book, gap |-> i + 1]
    BY <1>7 DEF Follow
  <2>2. d.book = c.book /\ d.gap = i + 1 /\ d.gap \in 0..(i + 1)
    BY <2>1
  <2>3. QED
    BY <1>2, <1>3, <1>4, <2>2 DEF Joined, e
<1>8. CASE c.gap = 0 /\ Verdict(e, c.book.last) = "apply"
  <2>1. d = [book |-> Applied(c.book, e), gap |-> 0]
    BY <1>8 DEF Follow
  <2>2. d.book = Applied(c.book, e) /\ d.gap = 0
    BY <2>1
  <2>3. e.first <= c.book.last + 1 /\ c.book.last <= e.final
    BY <1>1, <1>3, <1>8, Joins
  <2>4. Sound(d.book) /\ d.book.last = e.final
    BY <1>1, <1>3, <1>4, <2>2, <2>3, AppliedIsSound
  <2>5. QED
    BY <1>5, <2>2, <2>4 DEF Joined, e
<1>9. QED
  BY <1>1, <1>3, <1>6, <1>7, <1>8, Joins

\* The candidate is the exchange's book at the end of the last delta it has taken in.
LEMMA CandidateIsSound ==
  ASSUME venue \in Venues, NEW id \in 1..MaxId, NEW events \in Seq(Events), events # <<>>,
         \A i \in 1..Len(events) : Ordered(events[i]),
         ~Stale(events[1], id), Bridges(events[1], id)
  PROVE  Joined(Candidate(id, events), events, Len(events))
<1> DEFINE len == Len(events)
           first == [book |-> Applied(FromSnapshot(id), events[1]), gap |-> 0]
           Rec(f, n) == f = [i \in 1..n |-> IF i = 1 THEN first
                                             ELSE Follow(f[i - 1], events[i], i)]
           T == {n \in 1..len : ~ \E f : Rec(f, n)}
<1>1. len \in Nat \ {0} /\ 1 \in 1..len
  OBVIOUS
<1>2. Joined(first, events, 1)
  <2>1. id \in Nat /\ Ordered(events[1]) /\ events[1].first \in Nat /\ events[1].final \in Nat
    BY <1>1 DEF Ordered, Events
  <2>2. events[1].first <= id + 1 /\ id <= events[1].final
    BY <2>1, Joins
  <2>3. Sound(FromSnapshot(id)) /\ FromSnapshot(id).last = id
    BY SnapshotIsSound
  <2>4. Sound(Applied(FromSnapshot(id), events[1]))
        /\ Applied(FromSnapshot(id), events[1]).last = events[1].final
    BY <2>1, <2>2, <2>3, AppliedIsSound
  <2>5. first.book = Applied(FromSnapshot(id), events[1]) /\ first.gap = 0
    OBVIOUS
  <2>6. QED
    BY <2>4, <2>5 DEF Joined
<1>3. T \subseteq 1..len /\ T \subseteq Nat
  OBVIOUS
<1>4. \A n \in 1..len : n \in T <=> ~ \E f : Rec(f, n)
  OBVIOUS
<1> HIDE DEF T, first, len
<1>5. T = {}
  <2>1. SUFFICES ASSUME T # {} PROVE FALSE
    OBVIOUS
  <2>2. PICK n \in T : \A m \in T : n <= m
    BY <1>3, <2>1, LeastNumber
  <2>3. n # 1
    <3> DEFINE z == [i \in 1..1 |-> first]
    <3>1. Rec(z, 1)
      OBVIOUS
    <3>2. QED
      BY <1>1, <1>4, <3>1
  <2>4. n - 1 \in 1..len /\ n - 1 \notin T /\ n \in 1..len /\ n \in Nat
    BY <1>1, <1>3, <2>2, <2>3
  <2>5. PICK f : Rec(f, n - 1)
    BY <1>4, <2>4
  <2> DEFINE g == [i \in 1..n |-> IF i = n THEN Follow(f[n - 1], events[n], n) ELSE f[i]]
  <2>6. \A i \in 1..(n - 1) : f[i] = IF i = 1 THEN first ELSE Follow(f[i - 1], events[i], i)
    BY <2>5, Zenon
  <2>7. \A i \in 1..n : g[i] = IF i = 1 THEN first ELSE Follow(g[i - 1], events[i], i)
    BY <2>3, <2>4, <2>6
  <2>8. Rec(g, n)
    BY <2>7
  <2> HIDE DEF g, Rec
  <2>9. QED
    BY <1>4, <2>2, <2>4, <2>8
<1>6. \E f : Rec(f, len)
  <2>1. len \in 1..len /\ len \notin T
    BY <1>1, <1>5
  <2>2. QED
    BY <1>4, <2>1, Zenon
<1> DEFINE h == CHOOSE h : Rec(h, len)
<1>7. Rec(h, len)
  BY <1>6, Zenon
<1>8. Candidate(id, events) = h[len]
  BY Zenon DEF Candidate, first, len
<1> HIDE DEF h
<1>9. \A i \in 1..len : h[i] = IF i = 1 THEN first ELSE Follow(h[i - 1], events[i], i)
  BY <1>7, Zenon
<1> HIDE DEF Rec
<1> DEFINE U == {i \in 1..len : ~Joined(h[i], events, i)}
<1>10. U \subseteq 1..len /\ U \subseteq Nat /\ \A i \in 1..len : i \in U <=> ~Joined(h[i], events, i)
  BY <1>1
<1> HIDE DEF U
<1>11. U = {}
  <2>1. SUFFICES ASSUME U # {} PROVE FALSE
    OBVIOUS
  <2>2. PICK n \in U : \A m \in U : n <= m
    BY <1>10, <2>1, LeastNumber
  <2>3. n # 1
    BY <1>1, <1>2, <1>9, <1>10, <2>2
  <2>4. n - 1 \in 1..len /\ n \in 1..len /\ n - 1 \in Nat \ {0} /\ n - 1 \notin U
        /\ (n - 1) + 1 = n
    BY <1>1, <1>10, <2>2, <2>3
  <2>5. Joined(h[n - 1], events, n - 1)
    BY <1>10, <2>4
  <2>6. h[n] = Follow(h[n - 1], events[n], n)
    BY <1>9, <2>3, <2>4
  <2>7. \A j \in 1..n : Ordered(events[j])
    BY <1>1, <2>4 DEF len
  <2>8. Joined(Follow(h[n - 1], events[n], n), events, n)
    BY <2>4, <2>5, <2>7, FollowIsSound
  <2>9. QED
    BY <1>10, <2>2, <2>4, <2>6, <2>8
<1>12. QED
  BY <1>1, <1>8, <1>10, <1>11 DEF len

\* What trySynchronize can do: keep the snapshot for a delta to come, give it up, or
\* publish a book that is the exchange's at the end of one of the deltas.
Waits(id, gaps) ==
  /\ buffer' = <<>> /\ pending' = id /\ gapCount' = gaps
  /\ UNCHANGED <<state, retry, syncID, view, run>>
GivesUp(events, gaps) ==
  /\ buffer' \in Seq(Events) /\ Len(buffer') <= Len(events)
  /\ \A i \in 1..Len(buffer') : \E j \in 1..Len(events) : buffer'[i] = events[j]
  /\ pending' = 0 /\ retry' = TRUE /\ gapCount' \in {gaps, gaps + 1}
  /\ UNCHANGED <<state, syncID, view, run>>
Succeeds(events, g, gaps) ==
  /\ buffer' = <<>> /\ pending' = 0 /\ gapCount' = gaps /\ UNCHANGED retry
  /\ Sound(state')
  /\ \E j \in 1..Len(events) : state'.last = events[j].final
  /\ syncID' = syncID + 1
  /\ view'.last = state'.last /\ view'.sync = syncID'
  /\ view'.generation = g /\ view'.gaps = gaps
  /\ run' \in {"running", "returned"}

LEMMA SynchronizeOutcome ==
  ASSUME venue \in Venues, NEW id \in 1..MaxId, NEW events \in Seq(Events),
         \A i \in 1..Len(events) : Ordered(events[i]),
         NEW g, NEW gaps, TrySynchronize(id, events, g, gaps)
  PROVE  Waits(id, gaps) \/ GivesUp(events, gaps) \/ Succeeds(events, g, gaps)
<1> DEFINE stale == {i \in DOMAIN events : ~Stale(events[i], id)}
           left == IF stale = {} THEN <<>> ELSE SubSeq(events, Min(stale), Len(events))
           c == Candidate(id, left)
           k == Min(stale)
<1>1. DOMAIN events = 1..Len(events) /\ Len(events) \in Nat
  OBVIOUS
<1>2. stale # {} => k \in 1..Len(events) /\ ~Stale(events[k], id)
  <2>1. stale \subseteq Nat
    BY <1>1
  <2>2. stale # {} => k \in stale
    <3> HIDE DEF stale
    <3>1. QED
      BY <2>1, MinIsLeast
  <2>3. QED
    BY <1>1, <2>2
<1>3. left # <<>> => stale # {}
  BY Zenon
<1>4. left # <<>> => left = SubSeq(events, k, Len(events))
  BY Zenon
<1> HIDE DEF stale, k
<1>5. left # <<>> => /\ Len(left) = Len(events) - k + 1
                     /\ left \in Seq(Events)
                     /\ \A i \in 1..Len(left) : left[i] = events[k + i - 1]
  <2> HIDE DEF left
  <2>1. SUFFICES ASSUME left # <<>>
                 PROVE  /\ Len(left) = Len(events) - k + 1
                        /\ left \in Seq(Events)
                        /\ \A i \in 1..Len(left) : left[i] = events[k + i - 1]
    OBVIOUS
  <2> DEFINE E == Events
  <2> HIDE DEF E
  <2>2. events \in Seq(E) /\ left = SubSeq(events, k, Len(events)) /\ k \in 1..Len(events)
    BY <1>2, <1>3, <1>4, <2>1 DEF E
  <2>3. QED
    BY <2>2 DEF E
<1>6. left # <<>> => k \in 1..Len(events) /\ ~Stale(events[k], id)
  BY <1>2, <1>3
<1>7. TrySynchronize(id, events, g, gaps) <=>
        CASE left = <<>> ->
               /\ buffer' = <<>>
               /\ pending' = id
               /\ UNCHANGED <<state, retry, syncID, view, run>>
               /\ gapCount' = gaps
          [] left # <<>> /\ ~Bridges(Head(left), id) ->
               /\ buffer' = left
               /\ GiveUpSnapshot(id)
               /\ gapCount' = gaps
               /\ UNCHANGED <<state, syncID, view, run>>
          [] left # <<>> /\ Bridges(Head(left), id) /\ c.gap # 0 ->
               /\ buffer' = SubSeq(left, c.gap, Len(left))
               /\ GiveUpSnapshot(id)
               /\ gapCount' = gaps + 1
               /\ UNCHANGED <<state, syncID, view, run>>
          [] OTHER ->
               /\ buffer' = <<>>
               /\ pending' = 0
               /\ state' = c.book
               /\ syncID' = NextSync
               /\ gapCount' = gaps
               /\ UNCHANGED retry
               /\ Publish(c.book, g, NextSync, gaps)
  BY DEF TrySynchronize, stale, k
<1> HIDE DEF left, c
<1>8. CASE left = <<>>
  BY <1>7, <1>8 DEF Waits
<1>9. CASE left # <<>> /\ ~Bridges(Head(left), id)
  <2>1. /\ buffer' = left /\ pending' = 0 /\ retry' = TRUE /\ gapCount' = gaps
        /\ UNCHANGED <<state, syncID, view, run>>
    BY <1>7, <1>9 DEF GiveUpSnapshot
  <2>2. Len(left) <= Len(events) /\ \A i \in 1..Len(left) : k + i - 1 \in 1..Len(events)
    BY <1>1, <1>5, <1>6, <1>9
  <2>3. QED
    BY <1>5, <1>9, <2>1, <2>2 DEF GivesUp
<1>10. CASE left # <<>> /\ Bridges(Head(left), id)
  <2>1. left \in Seq(Events) /\ Len(left) \in 1..Len(events)
        /\ \A i \in 1..Len(left) : left[i] = events[k + i - 1] /\ k + i - 1 \in 1..Len(events)
    BY <1>1, <1>5, <1>6, <1>10
  <2>2. Head(left) = left[1] /\ left[1] = events[k]
    <3>1. Head(left) = left[1]
      BY <1>10, <2>1
    <3>2. left[1] = events[k + 1 - 1] /\ k + 1 - 1 = k
      BY <1>6, <1>10, <2>1
    <3>3. QED
      BY <3>1, <3>2
  <2>3. \A i \in 1..Len(left) : Ordered(left[i])
    BY <2>1
  <2>4. Joined(c, left, Len(left))
    BY <1>6, <1>10, <2>1, <2>2, <2>3, CandidateIsSound DEF c
  <2>5. CASE c.gap # 0
    <3>1. /\ buffer' = SubSeq(left, c.gap, Len(left))
          /\ pending' = 0 /\ retry' = TRUE /\ gapCount' = gaps + 1
          /\ UNCHANGED <<state, syncID, view, run>>
      BY <1>7, <1>10, <2>5 DEF GiveUpSnapshot
    <3>2. c.gap \in 1..Len(left)
      BY <2>1, <2>4, <2>5 DEF Joined
    <3> DEFINE E == Events
    <3> HIDE DEF E
    <3>3. left \in Seq(E)
      BY <2>1 DEF E
    <3>4. buffer' \in Seq(E) /\ Len(buffer') = Len(left) - c.gap + 1
          /\ \A i \in 1..Len(buffer') : buffer'[i] = left[c.gap + i - 1]
      BY <3>1, <3>2, <3>3
    <3>5. \A i \in 1..Len(buffer') : c.gap + i - 1 \in 1..Len(left)
      BY <2>1, <3>2, <3>4, SMTT(30)
    <3>6. Len(buffer') <= Len(events)
      BY <1>1, <2>1, <3>2, <3>4
    <3>7. \A i \in 1..Len(buffer') : \E j \in 1..Len(events) : buffer'[i] = events[j]
      <4> TAKE i \in 1..Len(buffer')
      <4>1. buffer'[i] = left[c.gap + i - 1] /\ c.gap + i - 1 \in 1..Len(left)
        BY <3>4, <3>5
      <4>2. QED
        BY <2>1, <4>1
    <3>8. QED
      BY <3>1, <3>4, <3>6, <3>7 DEF GivesUp, E
  <2>6. CASE c.gap = 0
    <3>1. /\ buffer' = <<>> /\ pending' = 0 /\ state' = c.book /\ syncID' = NextSync
          /\ gapCount' = gaps /\ UNCHANGED retry
          /\ Publish(c.book, g, NextSync, gaps)
      BY <1>7, <1>10, <2>6
    <3>2. PICK j \in 1..Len(left) : c.book.last = left[j].final
      BY <2>4 DEF Joined
    <3>3. \E i \in 1..Len(events) : state'.last = events[i].final
      BY <2>1, <3>1, <3>2
    <3>4. /\ view'.last = state'.last /\ view'.sync = syncID'
          /\ view'.generation = g /\ view'.gaps = gaps
          /\ run' \in {"running", "returned"}
      BY <3>1 DEF Publish
    <3>5. Sound(state')
      BY <2>4, <3>1 DEF Joined
    <3>6. QED
      BY <3>1, <3>3, <3>4, <3>5 DEF Succeeds, NextSync
  <2>7. QED
    BY <2>5, <2>6
<1>11. QED
  BY <1>8, <1>9, <1>10
-----------------------------------------------------------------------------
(* The inductive invariant. *)

\* Deltas wait in the order of their updates, and all of them are newer than the view.
OrderInv ==
  /\ \A i, j \in 1..Len(inputs) : i < j => inputs[i].final < inputs[j].final
  /\ \A i \in 1..Len(buffer) : \A j \in 1..Len(inputs) : buffer[i].final < inputs[j].final
  /\ \A i \in 1..Len(inputs) : view.last < inputs[i].final
  /\ \A i \in 1..Len(buffer) : view.last < buffer[i].final
  /\ view.last \in 0..pos

\* Exactly one driver once a delta has been seen, and none before.
DriverInv ==
  Running =>
    /\ generation = 0 => state = NoBook /\ pending = 0 /\ ~Fetching /\ ~retry
    /\ state # NoBook => pending = 0 /\ ~Fetching /\ ~retry
    /\ pending # 0 => ~Fetching /\ ~retry
    /\ Fetching => ~retry
    /\ generation # 0 => state # NoBook \/ pending # 0 \/ Fetching \/ retry

\* What is kept of a snapshot and of the book made of it.
BookInv ==
  /\ fetch.state = "loaded" => fetch.id # 0
  /\ state # NoBook => state.last # 0 /\ Sound(state) /\ buffer = <<>>

\* The view is that of the book, as long as there is one.
ViewInv ==
  /\ view.sync \in 0..syncID
  /\ Running /\ state # NoBook =>
       /\ view.last = state.last /\ view.sync = syncID
       /\ view.generation = generation /\ view.gaps = gapCount

DepthInv == DepthTypeOK /\ OrderInv /\ DriverInv /\ BookInv /\ ViewInv

\* What ViewsAdvance says of a step.
ViewStep ==
  view' # view =>
    /\ view'.last > view.last
    /\ view'.sync = view.sync =>
         view'.generation = view.generation /\ view'.gaps = view.gaps

\* The bounds and the assumptions they rest on.
LEMMA Bounds ==
  ASSUME StreamTypeOK
  PROVE  /\ MaxId \in Nat /\ latest \in 1..MaxId /\ conn \in Nat /\ pos \in Nat /\ pos <= latest
         /\ MaxBufferedEvents \in Nat \ {0} /\ venue \in Venues
<1>1. MaxId \in Nat
  BY ChangeAssumption DEF MaxId
<1>2. FirstId \in 1..MaxId /\ MaxGeneration \in Nat /\ MaxBufferedEvents \in Nat \ {0}
  BY DepthAssumption
<1>3. latest \in FirstId..MaxId /\ conn \in 0..MaxGeneration /\ pos \in 0..latest /\ venue \in Venues
  BY DEF StreamTypeOK
<1>4. QED
  BY <1>1, <1>2, <1>3

\* Waiting deltas are typed and ordered.
LEMMA WaitingFacts ==
  ASSUME DepthTypeOK
  PROVE  /\ Len(inputs) \in Nat /\ Len(buffer) \in Nat
         /\ \A i \in 1..Len(inputs) : inputs[i] \in Events /\ Ordered(inputs[i])
         /\ \A i \in 1..Len(buffer) : buffer[i] \in Events /\ Ordered(buffer[i])
<1> DEFINE E == Events
<1>1. inputs \in Seq(E) /\ buffer \in Seq(E)
  BY DEF DepthTypeOK, StreamTypeOK, LoopTypeOK
<1> HIDE DEF E
<1>2. /\ Len(inputs) \in Nat /\ \A i \in 1..Len(inputs) : inputs[i] \in E
      /\ Len(buffer) \in Nat /\ \A i \in 1..Len(buffer) : buffer[i] \in E
  BY <1>1
<1>3. /\ \A i \in 1..Len(inputs) : Delivered(inputs[i], conn, pos)
      /\ \A i \in 1..Len(buffer) : Delivered(buffer[i], conn, pos)
  BY DEF DepthTypeOK, StreamTypeOK, LoopTypeOK
<1>4. QED
  BY <1>2, <1>3 DEF E, Ordered, Delivered

\* Head and tail of a sequence.
LEMMA TailFacts ==
  ASSUME NEW S, NEW s \in Seq(S), s # <<>>
  PROVE  /\ 1 \in 1..Len(s) /\ Head(s) = s[1] /\ s[1] \in S
         /\ Tail(s) \in Seq(S) /\ Len(Tail(s)) = Len(s) - 1
         /\ \A j \in 1..Len(Tail(s)) : Tail(s)[j] = s[j + 1] /\ j + 1 \in 1..Len(s)
<1>1. Len(s) \in Nat /\ Len(s) # 0
  OBVIOUS
<1>2. Head(s) = s[1] /\ Tail(s) \in Seq(S) /\ Len(Tail(s)) = Len(s) - 1
  BY <1>1
<1>3. \A j \in 1..Len(Tail(s)) : Tail(s)[j] = s[j + 1]
  BY <1>1
<1>4. \A j \in 1..Len(Tail(s)) : j + 1 \in 1..Len(s)
  BY <1>1, <1>2
<1>5. QED
  BY <1>1, <1>2, <1>3, <1>4

\* The deltas that the loop has at hand: the buffered ones and, if it takes one, the
\* first of the channel.
AtHand(takes, e) ==
  (\E i \in 1..Len(buffer) : e = buffer[i]) \/ (takes /\ e = inputs[1])

\* A step of the loop takes at most one delta from the channel, keeps only deltas it has
\* at hand, and empties the buffer when it shows the book at the end of one of them.
LEMMA OrderStep ==
  ASSUME DepthTypeOK, OrderInv, NEW takes \in BOOLEAN,
         takes => inputs # <<>> /\ inputs' = Tail(inputs),
         ~takes => inputs' = inputs,
         UNCHANGED <<conn, pos>>,
         buffer' \in Seq(Events),
         \A i \in 1..Len(buffer') : AtHand(takes, buffer'[i]),
         \/ view'.last = view.last
         \/ buffer' = <<>> /\ \E e : AtHand(takes, e) /\ view'.last = e.final
  PROVE  /\ OrderInv'
         /\ inputs' \in Seq(Events) /\ Len(inputs') <= Len(inputs)
         /\ (\A i \in 1..Len(inputs) : Delivered(inputs[i], conn, pos))'
         /\ (\A i \in 1..Len(buffer) : Delivered(buffer[i], conn, pos))'
         /\ view'.last # view.last => view'.last > view.last
<1> DEFINE E == Events
<1>1. inputs \in Seq(E) /\ buffer' \in Seq(E) /\ \A e \in E : e.final \in Nat
  BY DEF DepthTypeOK, StreamTypeOK, Events
<1>2. /\ Len(inputs) \in Nat /\ \A i \in 1..Len(inputs) : inputs[i] \in E
      /\ Len(buffer) \in Nat /\ \A i \in 1..Len(buffer) : buffer[i] \in E
  BY WaitingFacts
<1>3. /\ \A i \in 1..Len(inputs) : Delivered(inputs[i], conn, pos)
      /\ \A i \in 1..Len(buffer) : Delivered(buffer[i], conn, pos)
  BY DEF DepthTypeOK, StreamTypeOK, LoopTypeOK
<1>4. pos \in Nat /\ view.last \in Nat
  BY Bounds DEF DepthTypeOK, OrderInv
<1> HIDE DEF E
<1>5. takes => /\ 1 \in 1..Len(inputs)
               /\ inputs' \in Seq(E) /\ Len(inputs') = Len(inputs) - 1
               /\ \A j \in 1..Len(inputs') : inputs'[j] = inputs[j + 1] /\ j + 1 \in 1..Len(inputs)
  <2>1. SUFFICES ASSUME takes
                 PROVE  /\ 1 \in 1..Len(inputs)
                        /\ inputs' \in Seq(E) /\ Len(inputs') = Len(inputs) - 1
                        /\ \A j \in 1..Len(inputs') :
                             inputs'[j] = inputs[j + 1] /\ j + 1 \in 1..Len(inputs)
    OBVIOUS
  <2>2. inputs # <<>> /\ inputs' = Tail(inputs)
    BY <2>1
  <2>3. QED
    BY <1>1, <2>2, TailFacts, Zenon
<1>6. inputs' \in Seq(E) /\ Len(inputs') \in Nat /\ Len(inputs') <= Len(inputs)
  BY <1>1, <1>2, <1>5
<1>7. ASSUME NEW j \in 1..Len(inputs')
      PROVE  \E i \in 1..Len(inputs) : inputs'[j] = inputs[i] /\ (takes => i > 1) /\ i >= j
  <2>1. CASE takes
    BY <1>2, <1>5, <2>1
  <2>2. CASE ~takes
    BY <1>2, <2>2
  <2>3. QED
    BY <2>1, <2>2
<1>8. ASSUME NEW e, AtHand(takes, e)
      PROVE  /\ e \in E /\ e.final \in Nat /\ Delivered(e, conn, pos) /\ view.last < e.final
             /\ \A j \in 1..Len(inputs') : e.final < inputs'[j].final
  <2>1. CASE \E i \in 1..Len(buffer) : e = buffer[i]
    BY <1>1, <1>2, <1>3, <1>7, <2>1 DEF OrderInv
  <2>2. CASE takes /\ e = inputs[1]
    BY <1>1, <1>2, <1>3, <1>5, <1>7, <2>2 DEF OrderInv
  <2>3. QED
    BY <1>8, <2>1, <2>2 DEF AtHand
<1>9. \A i, j \in 1..Len(inputs') : i < j => inputs'[i].final < inputs'[j].final
  <2>1. CASE takes
    <3>1. \A i, j \in 1..Len(inputs') : i < j => i + 1 < j + 1
      BY <1>6
    <3>2. QED
      BY <1>5, <2>1, <3>1 DEF OrderInv
  <2>2. CASE ~takes
    BY <2>2 DEF OrderInv
  <2>3. QED
    BY <2>1, <2>2
<1>10. \A i \in 1..Len(buffer') : \A j \in 1..Len(inputs') : buffer'[i].final < inputs'[j].final
  BY <1>8
<1>11. \A j \in 1..Len(inputs') : inputs'[j] \in E /\ inputs'[j].final \in Nat /\ Delivered(inputs'[j], conn, pos)
                                  /\ view.last < inputs'[j].final
  BY <1>1, <1>2, <1>3, <1>7 DEF OrderInv
<1>12. /\ view'.last \in 0..pos
       /\ \A j \in 1..Len(inputs') : view'.last < inputs'[j].final
       /\ \A i \in 1..Len(buffer') : view'.last < buffer'[i].final
       /\ view'.last # view.last => view'.last > view.last
  <2>1. CASE view'.last = view.last
    BY <1>8, <1>11, <2>1 DEF OrderInv
  <2>2. CASE buffer' = <<>> /\ \E e : AtHand(takes, e) /\ view'.last = e.final
    <3>1. PICK e : AtHand(takes, e) /\ view'.last = e.final
      BY <2>2
    <3>2. e.final \in Nat /\ e.final <= pos /\ view.last < e.final
          /\ \A j \in 1..Len(inputs') : e.final < inputs'[j].final
      BY <1>8, <3>1 DEF Delivered
    <3>3. \A i \in 1..Len(buffer') : FALSE
      BY <2>2
    <3>4. QED
      BY <1>4, <3>1, <3>2, <3>3
  <2>3. QED
    BY <2>1, <2>2
<1>13. OrderInv'
  BY <1>9, <1>10, <1>12 DEF OrderInv
<1>14. /\ (\A i \in 1..Len(inputs) : Delivered(inputs[i], conn, pos))'
       /\ (\A i \in 1..Len(buffer) : Delivered(buffer[i], conn, pos))'
  BY <1>8, <1>11 DEF Delivered
<1>15. QED
  BY <1>6, <1>12, <1>13, <1>14 DEF E

\* Requests, answers and timers: nothing is taken and nothing is shown.
LEMMA RequestStep ==
  ASSUME DepthInv, UNCHANGED <<streamVars, buffer, generation, state, pending, syncID, gapCount, view>>,
         fetch'.state \in {"none", "loading", "loaded", "failed"}, fetch'.id \in 0..latest,
         fetch'.state = "loaded" => fetch'.id # 0, retry' \in BOOLEAN,
         \/ UNCHANGED run /\ (Running => Fetching \/ retry)
              /\ (Fetching' \/ retry') /\ ~(Fetching' /\ retry')
         \/ run' = "returned" /\ UNCHANGED <<fetch, retry>>
  PROVE  DepthInv' /\ ViewStep
<1> USE DEF DepthInv, DepthTypeOK
<1>1. /\ UNCHANGED <<venue, latest, conn, pos, lost, inputs, streamDone>>
      /\ UNCHANGED <<buffer, generation, state, pending, syncID, gapCount, view>>
  BY DEF streamVars
<1>2. StreamTypeOK'
  BY <1>1 DEF StreamTypeOK, Delivered
<1>3. LoopTypeOK'
  BY <1>1 DEF LoopTypeOK, Delivered, Running
<1>4. OrderInv'
  BY <1>1 DEF OrderInv
<1>5. DriverInv'
  BY <1>1 DEF DriverInv, Running, Fetching, LoopTypeOK
<1>6. BookInv'
  BY <1>1 DEF BookInv
<1>7. ViewInv'
  BY <1>1 DEF ViewInv, Running
<1>8. QED
  BY <1>1, <1>2, <1>3, <1>4, <1>5, <1>6, <1>7 DEF ViewStep

\* The steps of that kind.
LEMMA RequestSteps ==
  ASSUME DepthInv,
         \/ RetryFires \/ SnapshotFailed \/ Leave
         \/ LoadFails \/ \E id \in 1..latest : LoadSnapshot(id)
  PROVE  DepthInv' /\ ViewStep
<1>1. /\ latest \in Nat /\ fetch.state \in {"none", "loading", "loaded", "failed"}
      /\ fetch.id \in 0..latest /\ retry \in BOOLEAN /\ (fetch.state = "loaded" => fetch.id # 0)
  BY Bounds DEF DepthInv, DepthTypeOK, LoopTypeOK, BookInv
<1>2. Running => ~(Fetching /\ retry)
  BY DEF DepthInv, DriverInv
<1>3. CASE RetryFires
  <2>1. Running /\ retry /\ ~Fetching
    BY <1>2, <1>3 DEF RetryFires
  <2>2. fetch' = [state |-> "loading", id |-> 0] /\ retry' = FALSE /\ UNCHANGED run
    BY <1>3, <2>1 DEF RetryFires, StartSnapshot
  <2>3. fetch'.state = "loading" /\ fetch'.id = 0
    BY <2>2
  <2>4. UNCHANGED <<streamVars, buffer, generation, state, pending, syncID, gapCount, view>>
    BY <1>3 DEF RetryFires
  <2>5. Fetching' /\ fetch'.id \in 0..latest /\ fetch'.state # "loaded"
    BY <1>1, <2>3 DEF Fetching
  <2>6. QED
    BY <2>1, <2>2, <2>3, <2>4, <2>5, RequestStep
<1>4. CASE SnapshotFailed
  <2>1. Running /\ Fetching /\ retry' = TRUE /\ UNCHANGED run
    BY <1>4 DEF SnapshotFailed, Fetching
  <2>2. fetch'.state = "none" /\ fetch'.id = 0
    BY <1>4 DEF SnapshotFailed, NotFetching
  <2>3. UNCHANGED <<streamVars, buffer, generation, state, pending, syncID, gapCount, view>>
    BY <1>4 DEF SnapshotFailed
  <2>4. ~Fetching' /\ fetch'.id \in 0..latest /\ fetch'.state # "loaded"
    BY <1>1, <2>2 DEF Fetching
  <2>5. QED
    BY <2>1, <2>2, <2>3, <2>4, RequestStep
<1>5. CASE Leave
  <2>1. run' = "returned" /\ UNCHANGED <<fetch, retry>>
        /\ UNCHANGED <<streamVars, buffer, generation, state, pending, syncID, gapCount, view>>
    BY <1>5 DEF Leave, bookVars
  <2>2. QED
    BY <1>1, <2>1, RequestStep
<1>6. CASE LoadFails
  <2>1. Running /\ Fetching /\ UNCHANGED <<retry, run>>
        /\ UNCHANGED <<streamVars, buffer, generation, state, pending, syncID, gapCount, view>>
    BY <1>6 DEF LoadFails, bookVars, Fetching
  <2>2. fetch'.state = "failed" /\ fetch'.id = 0
    BY <1>6 DEF LoadFails
  <2>3. QED
    BY <1>1, <1>2, <2>1, <2>2, RequestStep DEF Fetching
<1>7. CASE \E id \in 1..latest : LoadSnapshot(id)
  <2>1. PICK id \in 1..latest : LoadSnapshot(id)
    BY <1>7
  <2>2. Running /\ Fetching /\ UNCHANGED <<retry, run>>
        /\ UNCHANGED <<streamVars, buffer, generation, state, pending, syncID, gapCount, view>>
    BY <2>1 DEF LoadSnapshot, bookVars, Fetching
  <2>3. fetch'.state = "loaded" /\ fetch'.id = id
    BY <2>1 DEF LoadSnapshot
  <2>4. fetch'.id \in 0..latest /\ fetch'.id # 0
    BY <1>1, <2>3
  <2>5. QED
    BY <1>1, <1>2, <2>2, <2>3, <2>4, RequestStep DEF Fetching
<1>8. QED
  BY <1>3, <1>4, <1>5, <1>6, <1>7

\* The exchange, the stream and the session: the channel grows at its end, by deltas
\* newer than any before.
LEMMA StreamStep ==
  ASSUME DepthInv, UNCHANGED <<venue, bookVars, fetch, view, run>>,
         latest' \in latest..MaxId, conn' \in conn..MaxGeneration, pos' \in pos..latest',
         lost' \in 0..MaxLost, streamDone' \in BOOLEAN,
         \/ UNCHANGED inputs
         \/ /\ Len(inputs) < MaxBufferedEvents /\ conn # 0 /\ pos' > pos
            /\ inputs' = Append(inputs, [generation |-> conn, first |-> pos + 1,
                                         final |-> pos', prev |-> pos])
  PROVE  DepthInv' /\ ViewStep
<1> USE DEF DepthInv, DepthTypeOK
<1> DEFINE e == [generation |-> conn, first |-> pos + 1, final |-> pos', prev |-> pos]
<1>1. UNCHANGED <<buffer, generation, state, pending, retry, syncID, gapCount, fetch, view, run, venue>>
  BY DEF bookVars
<1>2. /\ latest \in Nat /\ conn \in Nat /\ pos \in Nat /\ MaxId \in Nat /\ MaxGeneration \in Nat
      /\ FirstId \in Nat /\ latest >= FirstId /\ MaxBufferedEvents \in Nat
  BY Bounds, DepthAssumption DEF StreamTypeOK
<1>3. /\ latest' \in FirstId..MaxId /\ conn' \in 0..MaxGeneration /\ pos' \in 0..latest'
      /\ latest <= latest' /\ conn <= conn' /\ pos <= pos' /\ pos' \in Nat /\ conn' \in Nat
      /\ latest' \in Nat
  BY <1>2
<1>4. ASSUME NEW d, Delivered(d, conn, pos), d \in Events PROVE Delivered(d, conn', pos')
  <2>1. d.generation \in Nat /\ d.final \in Nat /\ d.first \in Nat
    BY <1>4 DEF Events
  <2>2. QED
    BY <1>2, <1>3, <1>4, <2>1 DEF Delivered
<1>5. (\A i \in 1..Len(buffer) : Delivered(buffer[i], conn, pos))'
  <2>1. \A i \in 1..Len(buffer) : Delivered(buffer[i], conn, pos) /\ buffer[i] \in Events
    BY WaitingFacts DEF LoopTypeOK
  <2>2. \A i \in 1..Len(buffer) : Delivered(buffer[i], conn', pos')
    BY <1>1, <1>4, <2>1
  <2>3. QED
    BY <1>1, <2>2 DEF Delivered
<1>6. LoopTypeOK'
  BY <1>1, <1>2, <1>3, <1>5, SMTT(30) DEF LoopTypeOK, Running
<1>7. DriverInv' /\ BookInv' /\ ViewInv' /\ ViewStep
  BY <1>1 DEF DriverInv, BookInv, ViewInv, ViewStep, Running, Fetching
<1>8. \A i \in 1..Len(inputs) : Delivered(inputs[i], conn, pos) /\ inputs[i] \in Events
  BY WaitingFacts DEF StreamTypeOK
<1>9. CASE UNCHANGED inputs
  <2>1. (\A i \in 1..Len(inputs) : Delivered(inputs[i], conn, pos))'
    <3>1. \A i \in 1..Len(inputs) : Delivered(inputs[i], conn', pos')
      BY <1>4, <1>8, <1>9
    <3>2. QED
      BY <1>9, <3>1 DEF Delivered
  <2>2. StreamTypeOK'
    BY <1>1, <1>3, <1>9, <2>1 DEF StreamTypeOK
  <2>3. OrderInv'
    BY <1>1, <1>2, <1>3, <1>9 DEF OrderInv
  <2>4. QED
    BY <1>6, <1>7, <2>2, <2>3
<1>10. CASE /\ Len(inputs) < MaxBufferedEvents /\ conn # 0 /\ pos' > pos
            /\ inputs' = Append(inputs, e)
  <2>1. /\ e \in Events /\ Delivered(e, conn', pos') /\ e.final = pos'
    <3>1. e \in Events /\ e.final = pos' /\ e.first = pos + 1 /\ e.prev = pos /\ e.generation = conn
      BY <1>2, <1>3 DEF Events
    <3> HIDE DEF e
    <3>2. e.generation \in 1..conn' /\ e.first = e.prev + 1 /\ e.first <= e.final /\ e.final <= pos'
      BY <1>2, <1>3, <1>10, <3>1
    <3>3. QED
      BY <3>1, <3>2 DEF Delivered, e
  <2> DEFINE E == Events
  <2>2. inputs \in Seq(E) /\ e \in E
    BY <2>1 DEF StreamTypeOK
  <2> HIDE DEF e, E
  <2>3. /\ inputs' \in Seq(E) /\ Len(inputs') = Len(inputs) + 1 /\ Len(inputs) \in Nat
        /\ inputs'[Len(inputs) + 1] = e
        /\ \A i \in 1..Len(inputs) : inputs'[i] = inputs[i]
    BY <1>10, <2>2
  <2>4. \A i \in 1..Len(inputs') : i = Len(inputs) + 1 \/ i \in 1..Len(inputs)
    BY <2>3
  <2>5. (\A i \in 1..Len(inputs) : Delivered(inputs[i], conn, pos))'
    <3>1. ASSUME NEW i \in 1..Len(inputs') PROVE Delivered(inputs'[i], conn', pos')
      <4>1. CASE i = Len(inputs) + 1
        BY <2>1, <2>3, <4>1
      <4>2. CASE i \in 1..Len(inputs)
        BY <1>4, <1>8, <2>3, <4>2
      <4>3. QED
        BY <2>4, <4>1, <4>2
    <3>2. QED
      BY <3>1
  <2>6. StreamTypeOK'
    BY <1>1, <1>2, <1>3, <1>10, <2>3, <2>5, SMTT(30) DEF StreamTypeOK, E
  <2>7. e.final = pos' /\ pos' > pos
    BY <1>10, <2>1
  <2>8. \A i \in 1..Len(inputs) : inputs[i].final \in Nat /\ inputs[i].final < e.final
    BY <1>2, <1>3, <1>8, <2>7 DEF Delivered, Events
  <2>9. \A i \in 1..Len(buffer) : buffer[i].final \in Nat /\ buffer[i].final < e.final
    <3>1. \A i \in 1..Len(buffer) : Delivered(buffer[i], conn, pos) /\ buffer[i] \in Events
      BY WaitingFacts DEF LoopTypeOK
    <3>2. QED
      BY <1>2, <1>3, <2>7, <3>1, SMTT(30) DEF Delivered, Events
  <2>10. view.last \in 0..pos /\ view.last < e.final /\ view.last \in 0..pos'
    BY <1>2, <1>3, <2>7 DEF OrderInv
  <2>11. \A i, j \in 1..Len(inputs') : i < j => inputs'[i].final < inputs'[j].final
    <3> SUFFICES ASSUME NEW i \in 1..Len(inputs'), NEW j \in 1..Len(inputs'), i < j
                 PROVE  inputs'[i].final < inputs'[j].final
      OBVIOUS
    <3>1. i \in 1..Len(inputs)
      BY <2>3
    <3>2. QED
      BY <2>3, <2>4, <2>8, <3>1 DEF OrderInv
  <2>12. OrderInv'
    BY <1>1, <2>3, <2>4, <2>9, <2>10, <2>11 DEF OrderInv
  <2>13. QED
    BY <1>6, <1>7, <2>6, <2>12
<1>11. QED
  BY <1>9, <1>10

\* A step of the loop that has one driver afterwards, and shows a newer book if any.
LEMMA TakeStep ==
  ASSUME DepthInv, NEW takes \in BOOLEAN,
         takes => inputs # <<>> /\ inputs' = Tail(inputs),
         ~takes => inputs' = inputs,
         UNCHANGED <<venue, latest, conn, pos, lost, streamDone>>,
         buffer' \in Seq(Events), run' = "running" => Len(buffer') <= MaxBufferedEvents,
         \A i \in 1..Len(buffer') : AtHand(takes, buffer'[i]),
         \/ view' = view
         \/ buffer' = <<>> /\ \E e : AtHand(takes, e) /\ view'.last = e.final,
         view'.sync = view.sync => view'.generation = view.generation /\ view'.gaps = view.gaps,
         generation' \in 1..conn, pending' \in 0..latest, retry' \in BOOLEAN,
         fetch'.state \in {"none", "loading", "loaded", "failed"}, fetch'.id \in 0..latest,
         fetch'.state = "loaded" => fetch'.id # 0,
         syncID' \in Nat, gapCount' \in Nat, run' \in {"running", "returned"},
         \/ state' = NoBook
         \/ state' # NoBook /\ state'.last \in 1..pos /\ Sound(state') /\ buffer' = <<>>,
         ViewInv',
         run' = "running" =>
           /\ state' # NoBook => pending' = 0 /\ ~Fetching' /\ ~retry'
           /\ pending' # 0 => ~Fetching' /\ ~retry'
           /\ Fetching' => ~retry'
           /\ state' # NoBook \/ pending' # 0 \/ Fetching' \/ retry'
  PROVE  DepthInv' /\ ViewStep
<1> USE DEF DepthInv, DepthTypeOK
<1>1. \/ view'.last = view.last
      \/ buffer' = <<>> /\ \E e : AtHand(takes, e) /\ view'.last = e.final
  OBVIOUS
<1>2. /\ OrderInv'
      /\ inputs' \in Seq(Events) /\ Len(inputs') <= Len(inputs)
      /\ (\A i \in 1..Len(inputs) : Delivered(inputs[i], conn, pos))'
      /\ (\A i \in 1..Len(buffer) : Delivered(buffer[i], conn, pos))'
      /\ view'.last # view.last => view'.last > view.last
  BY <1>1, OrderStep
<1>3. Len(inputs) \in Nat /\ Len(inputs') \in Nat /\ Len(inputs) <= MaxBufferedEvents
      /\ MaxBufferedEvents \in Nat
  BY <1>2, WaitingFacts, Bounds DEF StreamTypeOK
<1>4. conn \in Nat /\ pos \in Nat /\ latest \in Nat
  BY Bounds
<1>5. StreamTypeOK'
  <2>1. Len(inputs') <= MaxBufferedEvents
    BY <1>2, <1>3
  <2>2. QED
    BY <1>2, <2>1 DEF StreamTypeOK
<1>6. state'.last \in 0..pos
  BY <1>4 DEF NoBook
<1>7. LoopTypeOK'
  <2>1. generation' \in 0..conn
    BY <1>4
  <2>2. QED
    BY <1>2, <1>6, <2>1 DEF LoopTypeOK, Running
<1>8. BookInv'
  <2>1. state' # NoBook => state'.last # 0 /\ Sound(state') /\ buffer' = <<>>
    BY <1>4
  <2>2. QED
    BY <2>1 DEF BookInv
<1>9. DriverInv'
  <2>1. generation' # 0
    BY <1>4
  <2>2. QED
    BY <2>1 DEF DriverInv, Running
<1>10. ViewStep
  <2>1. CASE view' = view
    BY <2>1 DEF ViewStep
  <2>2. CASE buffer' = <<>> /\ \E e : AtHand(takes, e) /\ view'.last = e.final
    <3>1. PICK e : AtHand(takes, e) /\ view'.last = e.final
      BY <2>2
    <3>2. e.final > view.last
      <4>1. CASE \E i \in 1..Len(buffer) : e = buffer[i]
        <5>1. PICK i \in 1..Len(buffer) : e = buffer[i]
          BY <4>1
        <5>2. view.last < buffer[i].final
          BY DEF OrderInv
        <5>3. QED
          BY <5>1, <5>2
      <4>2. CASE takes /\ e = inputs[1]
        <5>1. 1 \in 1..Len(inputs)
          BY <4>2, TailFacts DEF StreamTypeOK
        <5>2. view.last < inputs[1].final
          BY <5>1 DEF OrderInv
        <5>3. QED
          BY <4>2, <5>2
      <4>3. QED
        BY <3>1, <4>1, <4>2 DEF AtHand
    <3>3. QED
      BY <3>1, <3>2 DEF ViewStep
  <2>3. QED
    BY <2>1, <2>2
<1>11. QED
  BY <1>2, <1>5, <1>7, <1>8, <1>9, <1>10

\* What is known of a delta at hand.
LEMMA AtHandFacts ==
  ASSUME DepthInv, NEW takes \in BOOLEAN, takes => inputs # <<>>, NEW e, AtHand(takes, e)
  PROVE  e \in Events /\ Ordered(e) /\ e.final \in 1..pos /\ e.generation \in 1..conn
         /\ e.final > view.last
<1> USE DEF DepthInv, DepthTypeOK
<1>1. e \in Events /\ Ordered(e) /\ Delivered(e, conn, pos) /\ e.final > view.last
  <2>1. CASE \E i \in 1..Len(buffer) : e = buffer[i]
    <3>1. PICK i \in 1..Len(buffer) : e = buffer[i]
      BY <2>1
    <3>2. buffer[i] \in Events /\ Ordered(buffer[i]) /\ Delivered(buffer[i], conn, pos)
      BY WaitingFacts DEF LoopTypeOK
    <3>3. view.last < buffer[i].final
      BY DEF OrderInv
    <3>4. QED
      BY <3>1, <3>2, <3>3
  <2>2. CASE takes /\ e = inputs[1]
    <3>1. 1 \in 1..Len(inputs)
      BY <2>2, TailFacts DEF StreamTypeOK
    <3>2. inputs[1] \in Events /\ Ordered(inputs[1]) /\ Delivered(inputs[1], conn, pos)
      BY <3>1, WaitingFacts DEF StreamTypeOK
    <3>3. view.last < inputs[1].final
      BY <3>1 DEF OrderInv
    <3>4. QED
      BY <2>2, <3>2, <3>3
  <2>3. QED
    BY <2>1, <2>2 DEF AtHand
<1>2. e.first \in Nat /\ e.prev \in Nat /\ e.final \in Nat /\ pos \in Nat
  BY <1>1, Bounds DEF Events
<1>3. QED
  BY <1>1, <1>2 DEF Delivered

\* trySynchronize, with the deltas at hand and no other driver than the snapshot.
LEMMA SynchronizeStep ==
  ASSUME DepthInv, Running, NEW takes \in BOOLEAN,
         takes => inputs # <<>> /\ inputs' = Tail(inputs),
         ~takes => inputs' = inputs,
         UNCHANGED <<venue, latest, conn, pos, lost, streamDone>>,
         NEW id \in 1..latest, state = NoBook, ~retry,
         NEW events \in Seq(Events), Len(events) <= MaxBufferedEvents,
         \A i \in 1..Len(events) : AtHand(takes, events[i]),
         generation' \in 1..conn,
         TrySynchronize(id, events, generation', gapCount),
         \/ fetch'.state = "none" /\ fetch'.id \in 0..latest
         \/ run' = "running" /\ state' = NoBook /\ pending' = 0 /\ ~retry'
  PROVE  DepthInv' /\ ViewStep
<1>1. /\ latest \in Nat /\ conn \in Nat /\ pos \in Nat /\ id \in 1..MaxId /\ venue \in Venues
      /\ MaxBufferedEvents \in Nat /\ id \in 0..latest /\ id # 0 /\ 0 \in 0..latest
  BY Bounds DEF DepthInv, DepthTypeOK
<1>2. \A i \in 1..Len(events) : Ordered(events[i])
  BY AtHandFacts
<1>3. Waits(id, gapCount) \/ GivesUp(events, gapCount) \/ Succeeds(events, generation', gapCount)
  BY <1>1, <1>2, SynchronizeOutcome
<1>4. /\ syncID \in Nat /\ gapCount \in Nat /\ gapCount + 1 \in Nat /\ syncID + 1 \in Nat
      /\ view.sync \in 0..syncID /\ retry \in BOOLEAN
  BY DEF DepthInv, DepthTypeOK, LoopTypeOK, ViewInv
<1>5. <<>> \in Seq(Events) /\ Len(<<>>) = 0 /\ \A i \in 1..Len(<<>>) : FALSE
  OBVIOUS
<1>6. CASE Waits(id, gapCount)
  <2>1. /\ buffer' = <<>> /\ pending' = id /\ gapCount' = gapCount
        /\ UNCHANGED <<state, retry, syncID, view, run>>
    BY <1>6 DEF Waits
  <2>2. fetch'.state = "none" /\ fetch'.id \in 0..latest /\ ~Fetching'
    BY <1>1, <2>1 DEF Fetching
  <2>3. ViewInv'
    BY <2>1 DEF DepthInv, ViewInv
  <2>4. run' = "running" /\ state' = NoBook /\ Len(buffer') <= MaxBufferedEvents
    BY <1>1, <1>5, <2>1 DEF Running
  <2>5. QED
    BY <1>1, <1>4, <1>5, <2>1, <2>2, <2>3, <2>4, TakeStep
<1>7. CASE GivesUp(events, gapCount)
  <2>1. /\ buffer' \in Seq(Events) /\ Len(buffer') <= Len(events)
        /\ \A i \in 1..Len(buffer') : \E j \in 1..Len(events) : buffer'[i] = events[j]
        /\ pending' = 0 /\ retry' = TRUE /\ gapCount' \in {gapCount, gapCount + 1}
        /\ UNCHANGED <<state, syncID, view, run>>
    BY <1>7 DEF GivesUp
  <2>2. fetch'.state = "none" /\ fetch'.id \in 0..latest /\ ~Fetching'
    BY <2>1 DEF Fetching
  <2>3. ViewInv'
    BY <2>1 DEF DepthInv, ViewInv
  <2>4. Len(buffer') <= MaxBufferedEvents
    <3>1. Len(buffer') \in Nat /\ Len(events) \in Nat
      BY <2>1
    <3>2. QED
      BY <1>1, <2>1, <3>1
  <2>5. \A i \in 1..Len(buffer') : AtHand(takes, buffer'[i])
    BY <2>1
  <2>6. gapCount' \in Nat /\ run' = "running" /\ state' = NoBook
    BY <1>4, <2>1 DEF Running
  <2>7. QED
    BY <1>1, <1>4, <2>1, <2>2, <2>3, <2>4, <2>5, <2>6, TakeStep
<1>8. CASE Succeeds(events, generation', gapCount)
  <2>1. /\ buffer' = <<>> /\ pending' = 0 /\ gapCount' = gapCount /\ UNCHANGED retry
        /\ Sound(state')
        /\ \E j \in 1..Len(events) : state'.last = events[j].final
        /\ syncID' = syncID + 1
        /\ view'.last = state'.last /\ view'.sync = syncID'
        /\ view'.generation = generation' /\ view'.gaps = gapCount
        /\ run' \in {"running", "returned"}
    BY <1>8 DEF Succeeds
  <2>2. PICK j \in 1..Len(events) : state'.last = events[j].final
    BY <2>1
  <2>3. AtHand(takes, events[j]) /\ view'.last = events[j].final
    BY <2>1, <2>2
  <2>4. state'.last \in 1..pos
    BY <2>2, <2>3, AtHandFacts
  <2>5. state' # NoBook
    BY <1>1, <2>4 DEF NoBook
  <2>6. fetch'.state = "none" /\ fetch'.id \in 0..latest /\ ~Fetching'
    BY <2>5 DEF Fetching
  <2>7. view'.sync # view.sync /\ view'.sync \in 0..syncID'
    BY <1>4, <2>1
  <2>8. ViewInv'
    BY <2>1, <2>7 DEF ViewInv
  <2>9. \E e : AtHand(takes, e) /\ view'.last = e.final
    BY <2>3
  <2>10. /\ buffer' \in Seq(Events) /\ Len(buffer') <= MaxBufferedEvents
         /\ \A i \in 1..Len(buffer') : AtHand(takes, buffer'[i])
    BY <1>1, <1>5, <2>1
  <2>11. /\ pending' \in 0..latest /\ retry' = FALSE /\ syncID' \in Nat /\ gapCount' \in Nat
    BY <1>1, <1>4, <2>1
  <2>12. QED
    BY <2>1, <2>4, <2>5, <2>6, <2>7, <2>8, <2>9, <2>10, <2>11, TakeStep
<1>9. QED
  BY <1>3, <1>6, <1>7, <1>8

\* A snapshot arrives: it was the only driver.
LEMMA SnapshotLoadedStep ==
  ASSUME DepthInv, SnapshotLoaded
  PROVE  DepthInv' /\ ViewStep
<1>1. Running /\ fetch.state = "loaded" /\ fetch' = NotFetching
      /\ TrySynchronize(fetch.id, buffer, generation, gapCount)
      /\ UNCHANGED <<venue, latest, conn, pos, lost, inputs, streamDone, generation>>
  BY DEF SnapshotLoaded, streamVars
<1>2. Fetching /\ fetch'.state = "none" /\ fetch'.id = 0
  BY <1>1 DEF Fetching, NotFetching
<1>3. state = NoBook /\ ~retry /\ generation # 0
  BY <1>1, <1>2 DEF DepthInv, DriverInv
<1>4. latest \in Nat /\ conn \in Nat
  BY Bounds DEF DepthInv, DepthTypeOK
<1>5. generation' \in 1..conn /\ 0 \in 0..latest
  BY <1>1, <1>3, <1>4 DEF DepthInv, DepthTypeOK, LoopTypeOK
<1>6. fetch.id \in 1..latest
  BY <1>1, <1>4 DEF DepthInv, DepthTypeOK, LoopTypeOK, BookInv
<1>7. buffer \in Seq(Events) /\ Len(buffer) <= MaxBufferedEvents
  BY <1>1 DEF DepthInv, DepthTypeOK, LoopTypeOK
<1>8. \A i \in 1..Len(buffer) : AtHand(FALSE, buffer[i])
  BY DEF AtHand
<1>9. TrySynchronize(fetch.id, buffer, generation', gapCount)
  BY <1>1
<1>10. QED
  BY <1>1, <1>2, <1>3, <1>5, <1>6, <1>7, <1>8, <1>9, SynchronizeStep

\* A delta is dropped or skipped.
LEMMA DropStep ==
  ASSUME DepthInv, Running, inputs # <<>>, inputs' = Tail(inputs), generation # 0,
         UNCHANGED <<venue, latest, conn, pos, lost, streamDone, bookVars, fetch, view, run>>
  PROVE  DepthInv' /\ ViewStep
<1>1. UNCHANGED <<buffer, generation, state, pending, retry, syncID, gapCount>>
  BY DEF bookVars
<1>2. /\ conn \in Nat /\ generation \in 1..conn /\ pending \in 0..latest /\ retry \in BOOLEAN
      /\ syncID \in Nat /\ gapCount \in Nat /\ fetch.id \in 0..latest
      /\ fetch.state \in {"none", "loading", "loaded", "failed"}
      /\ (fetch.state = "loaded" => fetch.id # 0) /\ run = "running" /\ state.last \in 0..pos
      /\ pos \in Nat
  BY Bounds DEF DepthInv, DepthTypeOK, LoopTypeOK, BookInv, Running
<1>3. buffer \in Seq(Events) /\ Len(buffer) <= MaxBufferedEvents
      /\ \A i \in 1..Len(buffer) : AtHand(TRUE, buffer[i])
  BY DEF DepthInv, DepthTypeOK, LoopTypeOK, AtHand
<1>4. ViewInv'
  BY <1>1 DEF DepthInv, ViewInv, Running
<1>5. \/ state = NoBook
      \/ state # NoBook /\ state.last \in 1..pos /\ Sound(state) /\ buffer = <<>>
  BY <1>2 DEF DepthInv, BookInv
<1>6. /\ state # NoBook => pending = 0 /\ ~Fetching /\ ~retry
      /\ pending # 0 => ~Fetching /\ ~retry
      /\ Fetching => ~retry
      /\ state # NoBook \/ pending # 0 \/ Fetching \/ retry
  BY DEF DepthInv, DriverInv
<1>7. Fetching' = Fetching
  BY DEF Fetching
<1>8. QED
  BY <1>1, <1>2, <1>3, <1>4, <1>5, <1>6, <1>7, TakeStep

\* A delta comes while the book is synchronised.
LEMMA ApplyStep ==
  ASSUME DepthInv, Running, inputs # <<>>, generation # 0, state # NoBook,
         Head(inputs).generation = generation, ApplyInput(Head(inputs)),
         UNCHANGED <<venue, latest, conn, pos, lost, streamDone>>
  PROVE  DepthInv' /\ ViewStep
<1> DEFINE e == Head(inputs)
           what == Verdict(e, state.last)
<1>1. AtHand(TRUE, e) /\ inputs' = Tail(inputs)
  <2>1. e = inputs[1]
    BY TailFacts DEF DepthInv, DepthTypeOK, StreamTypeOK
  <2>2. QED
    BY <2>1 DEF AtHand, ApplyInput
<1>2. e \in Events /\ Ordered(e) /\ e.final \in 1..pos
  BY <1>1, AtHandFacts
<1>3. /\ conn \in Nat /\ generation \in 1..conn /\ pos \in Nat /\ latest \in Nat /\ venue \in Venues
      /\ MaxBufferedEvents \in Nat \ {0} /\ 0 \in 0..latest
      /\ syncID \in Nat /\ gapCount \in Nat /\ fetch.id \in 0..latest /\ state.last \in Nat
  BY Bounds DEF DepthInv, DepthTypeOK, LoopTypeOK
<1>4. buffer = <<>> /\ Sound(state) /\ pending = 0 /\ ~Fetching /\ ~retry /\ retry \in BOOLEAN
      /\ fetch.state = "none"
  BY DEF DepthInv, DepthTypeOK, LoopTypeOK, BookInv, DriverInv, Fetching
<1>5. view.last = state.last /\ view.sync = syncID /\ view.generation = generation
      /\ view.gaps = gapCount
  BY DEF DepthInv, ViewInv
<1>6. what \in {"apply", "skip", "gap"}
  BY <1>2, <1>3, Joins
<1> HIDE DEF e
<1>7. CASE what = "skip"
  <2>1. UNCHANGED <<bookVars, fetch, view, run>>
    BY <1>7 DEF ApplyInput, e
  <2>2. QED
    BY <1>1, <2>1, DropStep
<1>8. CASE what = "gap"
  <2>1. /\ gapCount' = gapCount + 1 /\ state' = NoBook /\ pending' = 0 /\ buffer' = <<e>>
        /\ StartSnapshot /\ retry' = (Fetching /\ retry)
        /\ UNCHANGED <<generation, syncID, view, run>>
    BY <1>8 DEF ApplyInput, e
  <2>2. fetch'.state = "loading" /\ fetch'.id = 0 /\ Fetching' /\ retry' = FALSE
    BY <1>4, <2>1 DEF StartSnapshot, Fetching
  <2>3. buffer' \in Seq(Events) /\ Len(buffer') = 1 /\ \A i \in 1..Len(buffer') : buffer'[i] = e
    BY <1>2, <2>1
  <2>4. \A i \in 1..Len(buffer') : AtHand(TRUE, buffer'[i])
    BY <1>1, <2>3
  <2>5. ViewInv'
    BY <2>1 DEF DepthInv, ViewInv
  <2>6. run' = "running" /\ Len(buffer') <= MaxBufferedEvents /\ gapCount' \in Nat
        /\ generation' \in 1..conn /\ fetch'.id \in 0..latest /\ pending' \in 0..latest
    BY <1>3, <2>1, <2>2, <2>3 DEF Running
  <2>7. QED
    BY <1>1, <1>3, <2>1, <2>2, <2>3, <2>4, <2>5, <2>6, TakeStep
<1>9. CASE what = "apply"
  <2>1. /\ state' = Applied(state, e)
        /\ Publish(Applied(state, e), generation, syncID, gapCount)
        /\ UNCHANGED <<buffer, generation, pending, fetch, retry, syncID, gapCount>>
    BY <1>9 DEF ApplyInput, e
  <2>2. e.first \in Nat /\ e.final \in Nat /\ e.first <= state.last + 1 /\ state.last <= e.final
    BY <1>2, <1>3, <1>9, Joins DEF Events
  <2>3. Sound(state') /\ state'.last = e.final
    BY <1>3, <1>4, <2>1, <2>2, AppliedIsSound
  <2>4. state' # NoBook
    BY <1>2, <1>3, <2>3 DEF NoBook
  <2>5. /\ view'.last = e.final /\ view'.sync = syncID /\ view'.generation = generation
        /\ view'.gaps = gapCount /\ run' \in {"running", "returned"}
    BY <2>1, <2>3 DEF Publish
  <2>6. ViewInv'
    BY <1>3, <2>1, <2>3, <2>5 DEF ViewInv
  <2>7. \E d : AtHand(TRUE, d) /\ view'.last = d.final
    BY <1>1, <2>5
  <2>8. /\ buffer' = <<>> /\ buffer' \in Seq(Events) /\ Len(buffer') <= MaxBufferedEvents
        /\ \A i \in 1..Len(buffer') : AtHand(TRUE, buffer'[i])
    BY <1>3, <1>4, <2>1
  <2>9. /\ pending' = 0 /\ retry' = FALSE /\ ~Fetching' /\ fetch'.state = "none"
        /\ fetch'.id \in 0..latest /\ pending' \in 0..latest /\ state'.last \in 1..pos
        /\ generation' \in 1..conn /\ syncID' \in Nat /\ gapCount' \in Nat
    BY <1>2, <1>3, <1>4, <2>1, <2>3 DEF Fetching
  <2>10. view'.sync = view.sync => view'.generation = view.generation /\ view'.gaps = view.gaps
    BY <1>5, <2>5
  <2>11. QED
    BY <1>1, <2>3, <2>4, <2>5, <2>6, <2>7, <2>8, <2>9, <2>10, TakeStep
<1>10. QED
  BY <1>6, <1>7, <1>8, <1>9

\* A delta is buffered: the first of a connection, which makes the loop forget what it
\* had, or one that comes while there is no book.
LEMMA BufferStep ==
  ASSUME DepthInv, Running, inputs # <<>>,
         NEW kept, NEW id,
         \/ kept = <<>> /\ id = 0
         \/ kept = buffer /\ id = pending /\ state = NoBook /\ generation # 0,
         BufferInput(Head(inputs), kept, id),
         UNCHANGED <<venue, latest, conn, pos, lost, streamDone>>
  PROVE  DepthInv' /\ ViewStep
<1> DEFINE e == Head(inputs)
           events == Append(kept, e)
<1>1. AtHand(TRUE, e) /\ inputs' = Tail(inputs) /\ generation' = e.generation
  <2>1. e = inputs[1]
    BY TailFacts DEF DepthInv, DepthTypeOK, StreamTypeOK
  <2>2. QED
    BY <2>1 DEF AtHand, BufferInput
<1>2. e \in Events /\ e.generation \in 1..conn
  BY <1>1, AtHandFacts
<1>3. /\ conn \in Nat /\ pos \in Nat /\ latest \in Nat /\ MaxBufferedEvents \in Nat \ {0}
      /\ 0 \in 0..latest /\ pending \in 0..latest /\ syncID \in Nat /\ gapCount \in Nat
      /\ fetch.id \in 0..latest /\ retry \in BOOLEAN
      /\ fetch.state \in {"none", "loading", "loaded", "failed"}
      /\ (fetch.state = "loaded" => fetch.id # 0) /\ id \in 0..latest
  BY Bounds DEF DepthInv, DepthTypeOK, LoopTypeOK, BookInv
<1>4. Fetching => ~retry
  BY DEF DepthInv, DriverInv
<1>5. events \in Seq(Events) /\ Len(events) \in Nat
      /\ \A i \in 1..Len(events) : AtHand(TRUE, events[i])
  <2> DEFINE E == Events
  <2>1. kept \in Seq(E) /\ \A i \in 1..Len(kept) : AtHand(TRUE, kept[i])
    <3>1. CASE kept = <<>>
      BY <3>1
    <3>2. CASE kept = buffer
      BY <3>2 DEF DepthInv, DepthTypeOK, LoopTypeOK, AtHand
    <3>3. QED
      BY <3>1, <3>2
  <2> HIDE DEF E, e
  <2>2. /\ events \in Seq(E) /\ Len(events) = Len(kept) + 1 /\ Len(kept) \in Nat
        /\ events[Len(kept) + 1] = e /\ \A i \in 1..Len(kept) : events[i] = kept[i]
    BY <1>2, <2>1 DEF E
  <2> HIDE DEF events
  <2>3. \A i \in 1..Len(events) : i = Len(kept) + 1 \/ i \in 1..Len(kept)
    BY <2>2
  <2>4. ASSUME NEW i \in 1..Len(events) PROVE AtHand(TRUE, events[i])
    <3>1. CASE i = Len(kept) + 1
      BY <1>1, <2>2, <3>1
    <3>2. CASE i \in 1..Len(kept)
      BY <2>1, <2>2, <3>2
    <3>3. QED
      BY <2>3, <3>1, <3>2
  <2>5. Len(events) \in Nat
    BY <2>2
  <2>6. QED
    BY <2>2, <2>4, <2>5 DEF E
<1> HIDE DEF e, events
<1>6. CASE Overflows(events)
  <2>1. run' = "returned" /\ buffer' = events /\ pending' = id /\ state' = NoBook
        /\ UNCHANGED <<retry, syncID, gapCount, view, fetch>>
    BY <1>6 DEF BufferInput, events, e
  <2>2. ViewInv'
    BY <2>1 DEF DepthInv, ViewInv
  <2>3. QED
    BY <1>1, <1>2, <1>3, <1>5, <2>1, <2>2, TakeStep
<1>7. CASE ~Overflows(events) /\ id # 0
  <2>1. /\ TrySynchronize(id, events, e.generation, gapCount)
        /\ IF run' = "running" /\ Idle(Fetching) THEN StartSnapshot ELSE UNCHANGED fetch
    BY <1>7 DEF BufferInput, events, e
  <2>2. id = pending /\ state = NoBook /\ ~Fetching /\ ~retry
    BY <1>7 DEF DepthInv, DriverInv
  <2>3. \/ fetch'.state = "none" /\ fetch'.id \in 0..latest
        \/ run' = "running" /\ state' = NoBook /\ pending' = 0 /\ ~retry'
    BY <1>3, <2>1, <2>2 DEF Idle, Fetching
  <2>4. id \in 1..latest /\ Len(events) <= MaxBufferedEvents
    BY <1>3, <1>5, <1>7 DEF Overflows
  <2>5. TrySynchronize(id, events, generation', gapCount) /\ generation' \in 1..conn
    BY <1>1, <1>2, <2>1
  <2>6. QED
    BY <1>1, <1>5, <2>2, <2>3, <2>4, <2>5, SynchronizeStep
<1>8. CASE ~Overflows(events) /\ id = 0
  <2>1. /\ buffer' = events /\ pending' = 0 /\ state' = NoBook
        /\ UNCHANGED <<retry, syncID, gapCount, view, run>>
        /\ IF Idle(Fetching) THEN StartSnapshot ELSE UNCHANGED fetch
    BY <1>8 DEF BufferInput, events, e
  <2>2. ViewInv'
    BY <2>1 DEF DepthInv, ViewInv
  <2>3. Len(events) <= MaxBufferedEvents
    BY <1>3, <1>5, <1>8 DEF Overflows
  <2>4. /\ fetch'.state \in {"none", "loading", "loaded", "failed"} /\ fetch'.id \in 0..latest
        /\ (fetch'.state = "loaded" => fetch'.id # 0)
        /\ (Fetching' => ~retry') /\ (Fetching' \/ retry')
    <3>1. CASE ~Fetching /\ ~retry
      <4>1. fetch' = [state |-> "loading", id |-> 0]
        BY <2>1, <3>1 DEF Idle, StartSnapshot
      <4>2. fetch'.state = "loading" /\ fetch'.id = 0
        BY <4>1
      <4>3. QED
        BY <1>3, <2>1, <3>1, <4>2 DEF Fetching
    <3>2. CASE Fetching \/ retry
      <4>1. UNCHANGED fetch
        BY <2>1, <3>2 DEF Idle, StartSnapshot
      <4>2. QED
        BY <1>3, <1>4, <2>1, <3>2, <4>1 DEF Fetching
    <3>3. QED
      BY <3>1, <3>2
  <2>5. run' = "running" /\ retry' \in BOOLEAN /\ generation' \in 1..conn
        /\ syncID' \in Nat /\ gapCount' \in Nat /\ pending' \in 0..latest
    BY <1>1, <1>2, <1>3, <2>1 DEF Running
  <2>6. QED
    BY <1>1, <1>5, <2>1, <2>2, <2>3, <2>4, <2>5, TakeStep
<1>9. QED
  BY <1>6, <1>7, <1>8

\* runInputs receives a delta.
LEMMA HandleInputStep ==
  ASSUME DepthInv, HandleInput
  PROVE  DepthInv' /\ ViewStep
<1> DEFINE e == Head(inputs)
<1>1. Running /\ inputs # <<>> /\ UNCHANGED <<venue, latest, conn, pos, lost, streamDone>>
  BY DEF HandleInput
<1>2. e.generation \in Nat
  <2>1. AtHand(TRUE, e)
    BY <1>1, TailFacts DEF DepthInv, DepthTypeOK, StreamTypeOK, AtHand
  <2>2. e \in Events
    BY <1>1, <2>1, AtHandFacts
  <2> HIDE DEF e
  <2>3. QED
    BY <2>2 DEF Events
<1>3. generation \in Nat
  BY Bounds DEF DepthInv, DepthTypeOK, LoopTypeOK
<1> HIDE DEF e
<1>4. CASE NewGeneration(e)
  <2>1. BufferInput(e, <<>>, 0)
    BY <1>4 DEF HandleInput, e
  <2>2. QED
    BY <1>1, <2>1, BufferStep DEF e
<1>5. CASE ~NewGeneration(e) /\ e.generation < generation
  <2>1. inputs' = Tail(inputs) /\ UNCHANGED <<bookVars, fetch, view, run>>
    BY <1>5 DEF HandleInput, e
  <2>2. generation # 0
    BY <1>5 DEF NewGeneration
  <2>3. QED
    BY <1>1, <2>1, <2>2, DropStep
<1>6. CASE ~NewGeneration(e) /\ ~(e.generation < generation)
  <2>1. generation # 0 /\ e.generation = generation
    BY <1>2, <1>3, <1>6 DEF NewGeneration
  <2>2. CASE state # NoBook
    <3>1. ApplyInput(e)
      BY <1>6, <2>2 DEF HandleInput, e
    <3>2. QED
      BY <1>1, <2>1, <2>2, <3>1, ApplyStep DEF e
  <2>3. CASE state = NoBook
    <3>1. BufferInput(e, buffer, pending)
      BY <1>6, <2>3 DEF HandleInput, e
    <3>2. QED
      BY <1>1, <2>1, <2>3, <3>1, BufferStep DEF e
  <2>4. QED
    BY <2>2, <2>3
<1>7. QED
  BY <1>4, <1>5, <1>6

\* The steps of the exchange, the stream and the session.
LEMMA StreamSteps ==
  ASSUME DepthInv,
         Update \/ Connect \/ \E n \in pos + 1..latest : Deliver(n) \/ Lose(n)
  PROVE  DepthInv' /\ ViewStep
<1>1. /\ latest \in 1..MaxId /\ MaxId \in Nat /\ conn \in Nat /\ pos \in Nat /\ pos <= latest
      /\ conn \in 0..MaxGeneration /\ lost \in 0..MaxLost /\ streamDone \in BOOLEAN
      /\ MaxGeneration \in Nat /\ MaxLost \in Nat
  BY Bounds, DepthAssumption DEF DepthInv, DepthTypeOK, StreamTypeOK
<1>2. latest \in latest..MaxId /\ conn \in conn..MaxGeneration /\ pos \in pos..latest
  BY <1>1
<1>3. CASE Update
  <2>1. latest' \in latest..MaxId /\ pos' \in pos..latest' /\ conn' \in conn..MaxGeneration
    BY <1>1, <1>3 DEF Update
  <2>2. UNCHANGED <<venue, bookVars, fetch, view, run, lost, streamDone, inputs>>
    BY <1>3 DEF Update
  <2>3. QED
    BY <1>1, <2>1, <2>2, StreamStep
<1>4. CASE Connect
  <2>1. latest' \in latest..MaxId /\ pos' \in pos..latest' /\ conn' \in conn..MaxGeneration
    BY <1>1, <1>4 DEF Connect
  <2>2. UNCHANGED <<venue, bookVars, fetch, view, run, lost, streamDone, inputs>>
    BY <1>4 DEF Connect
  <2>3. QED
    BY <1>1, <2>1, <2>2, StreamStep
<1>5. CASE \E n \in pos + 1..latest : Deliver(n) \/ Lose(n)
  <2>1. PICK n \in pos + 1..latest : Deliver(n) \/ Lose(n)
    BY <1>5
  <2>2. n \in pos..latest /\ n > pos
    BY <1>1
  <2>3. CASE Lose(n)
    <3>1. UNCHANGED <<venue, bookVars, fetch, view, run, streamDone, inputs, latest, conn>>
          /\ pos' = n /\ lost < MaxLost /\ lost' = lost + 1
      BY <2>3 DEF Lose
    <3>2. lost' \in 0..MaxLost
      BY <1>1, <3>1
    <3>3. QED
      BY <1>1, <1>2, <2>2, <3>1, <3>2, StreamStep
  <2>4. CASE Deliver(n)
    <3>1. UNCHANGED <<venue, bookVars, fetch, view, run, lost, latest, conn>> /\ pos' = n /\ conn # 0
      BY <2>4 DEF Deliver
    <3>2. CASE Len(inputs) < MaxBufferedEvents
      <4>1. /\ inputs' = Append(inputs, [generation |-> conn, first |-> pos + 1,
                                         final |-> pos', prev |-> pos])
            /\ UNCHANGED streamDone
        BY <2>4, <3>1, <3>2 DEF Deliver
      <4>2. QED
        BY <1>1, <1>2, <2>2, <3>1, <3>2, <4>1, StreamStep
    <3>3. CASE ~(Len(inputs) < MaxBufferedEvents)
      <4>1. streamDone' = TRUE /\ UNCHANGED inputs
        BY <2>4, <3>3 DEF Deliver
      <4>2. QED
        BY <1>1, <1>2, <2>2, <3>1, <4>1, StreamStep
    <3>4. QED
      BY <3>2, <3>3
  <2>5. QED
    BY <2>1, <2>3, <2>4
<1>6. QED
  BY <1>3, <1>4, <1>5
-----------------------------------------------------------------------------
(* The theorems. *)

\* No step has more than one driver left over, breaks the order of the deltas or shows
\* an older book.
LEMMA DepthStep == DepthInv /\ [DepthNext]_depthVars => DepthInv' /\ ViewStep
<1> SUFFICES ASSUME DepthInv, [DepthNext]_depthVars PROVE DepthInv' /\ ViewStep
  OBVIOUS
<1>1. CASE LoopStep
  BY <1>1, RequestSteps, SnapshotLoadedStep, HandleInputStep DEF LoopStep
<1>2. CASE Leave \/ LoadFails \/ \E id \in 1..latest : LoadSnapshot(id)
  BY <1>2, RequestSteps
<1>3. CASE Update \/ Connect \/ \E n \in pos + 1..latest : Deliver(n) \/ Lose(n)
  BY <1>3, StreamSteps
<1>4. CASE Returned \/ Quiet \/ UNCHANGED depthVars
  <2>1. UNCHANGED depthVars
    BY <1>4 DEF Returned, Quiet
  <2>2. /\ UNCHANGED <<venue, latest, conn, pos, lost, inputs, streamDone>>
        /\ UNCHANGED <<buffer, generation, state, pending, retry, syncID, gapCount>>
        /\ UNCHANGED <<fetch, view, run>>
    BY <2>1 DEF depthVars, streamVars, bookVars
  <2>3. StreamTypeOK' /\ LoopTypeOK'
    BY <2>2 DEF DepthInv, DepthTypeOK, StreamTypeOK, LoopTypeOK, Running
  <2>4. OrderInv' /\ DriverInv' /\ BookInv' /\ ViewInv' /\ ViewStep
    BY <2>2 DEF DepthInv, OrderInv, DriverInv, BookInv, ViewInv, ViewStep, Running, Fetching
  <2>5. QED
    BY <2>3, <2>4 DEF DepthInv, DepthTypeOK
<1>5. QED
  BY <1>1, <1>2, <1>3, <1>4 DEF DepthNext

\* The loop starts with nothing.
LEMMA DepthStart == DepthInit => DepthInv
<1> SUFFICES ASSUME DepthInit PROVE DepthInv
  OBVIOUS
<1>1. MaxId \in Nat
  BY ChangeAssumption DEF MaxId
<1>2. FirstId \in 1..MaxId /\ MaxGeneration \in Nat /\ MaxLost \in Nat /\ MaxBufferedEvents \in Nat
  BY DepthAssumption
<1>3. /\ inputs \in Seq(Events) /\ Len(inputs) = 0 /\ \A i \in 1..Len(inputs) : FALSE
      /\ buffer \in Seq(Events) /\ Len(buffer) = 0 /\ \A i \in 1..Len(buffer) : FALSE
  BY DEF DepthInit
<1>4. StreamTypeOK
  <2>1. FirstId \in FirstId..MaxId /\ 0 \in 0..MaxGeneration /\ 0 \in 0..MaxLost /\ 0 \in 0..FirstId
        /\ 0 <= MaxBufferedEvents
    BY <1>1, <1>2
  <2>2. QED
    BY <1>3, <2>1 DEF DepthInit, StreamTypeOK
<1>5. LoopTypeOK
  <2>1. 0 \in 0..conn /\ 0 \in 0..pos /\ 0 \in 0..latest /\ 0 <= MaxBufferedEvents /\ 0 \in Nat
    BY <1>1, <1>2 DEF DepthInit
  <2>2. state.last = 0 /\ fetch.state = "none" /\ fetch.id = 0
    BY DEF DepthInit, NoBook, NotFetching
  <2>3. QED
    BY <1>3, <2>1, <2>2 DEF DepthInit, LoopTypeOK
<1>6. OrderInv /\ ViewInv
  BY <1>3 DEF DepthInit, OrderInv, ViewInv
<1>7. DriverInv /\ BookInv
  BY DEF DepthInit, DriverInv, BookInv, NotFetching, Fetching
<1>8. QED
  BY <1>4, <1>5, <1>6, <1>7 DEF DepthInv, DepthTypeOK

\* The inductive invariant of runInputs holds in every reachable state.
THEOREM DepthInvariant == DepthSpec => []DepthInv
  BY DepthStart, DepthStep, PTL DEF DepthSpec

\* The local book is the exchange's book at the update id it claims, for every history
\* of the exchange and any order of snapshots, deltas, losses and reconnects.
THEOREM BookIsRight == DepthSpec => []BookIsExchangeBook
<1>1. DepthInv => BookIsExchangeBook
  BY DEF DepthInv, BookInv, Sound, BookIsExchangeBook
<1>2. QED
  BY <1>1, DepthInvariant, PTL

\* The loop stays within its bounds, and exactly one thing keeps it going.
THEOREM LoopDriven == DepthSpec => []LoopIsDriven
<1>1. DepthInv => DepthTypeOK
  BY DEF DepthInv
<1>2. DepthInv => OneDriver
  <2>1. SUFFICES ASSUME DepthInv, Running, generation # 0
                 PROVE  \E d \in Drivers : Drives(d) /\ \A other \in Drivers \ {d} : ~Drives(other)
    BY DEF OneDriver
  <2>2. /\ Drives("book") <=> state # NoBook
        /\ Drives("snapshot") <=> pending # 0
        /\ Drives("request") <=> Fetching
        /\ Drives("timer") <=> retry
    BY <2>1 DEF Drives, Fetching, DepthInv, DepthTypeOK, LoopTypeOK
  <2>3. /\ state # NoBook => pending = 0 /\ ~Fetching /\ ~retry
        /\ pending # 0 => ~Fetching /\ ~retry
        /\ Fetching => ~retry
        /\ state # NoBook \/ pending # 0 \/ Fetching \/ retry
    BY <2>1 DEF DepthInv, DriverInv
  <2>4. CASE state # NoBook
    BY <2>2, <2>3, <2>4 DEF Drivers
  <2>5. CASE pending # 0
    BY <2>2, <2>3, <2>5 DEF Drivers
  <2>6. CASE Fetching
    BY <2>2, <2>3, <2>6 DEF Drivers
  <2>7. CASE retry
    BY <2>2, <2>3, <2>7 DEF Drivers
  <2>8. QED
    BY <2>3, <2>4, <2>5, <2>6, <2>7
<1>3. DepthInv => LoopIsDriven
  BY <1>1, <1>2 DEF LoopIsDriven
<1>4. QED
  BY <1>3, DepthInvariant, PTL

\* Views only move forward, and those of one SynchronizationID belong to one connection
\* without a gap between them.
THEOREM ViewsMoveForward == DepthSpec => ViewsAdvance
<1>1. DepthInv /\ [DepthNext]_depthVars =>
        [view' # view =>
           /\ view'.last > view.last
           /\ view'.sync = view.sync =>
                view'.generation = view.generation /\ view'.gaps = view.gaps]_depthVars
  BY DepthStep DEF ViewStep
<1>2. QED
  BY <1>1, DepthInvariant, PTL DEF DepthSpec, ViewsAdvance
=============================================================================
