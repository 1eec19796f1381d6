----------------------------- MODULE SharedFacts -----------------------------
(***************************************************************************)
(* Facts that the proofs of several components use: about sets of numbers  *)
(* and about the levels of an order book.                                  *)
(***************************************************************************)
EXTENDS OrderBook, FiniteSetTheorems, WellFoundedInduction, TLAPS

(* Induction over numbers, by the smallest counterexample. *)

\* A non-empty set of naturals has a least element.
LEMMA LeastNumber ==
  ASSUME NEW T, T \subseteq Nat, T # {}
  PROVE  \E x \in T : \A y \in T : x <= y
<1> DEFINE R == OpToRel(<, Nat)
<1>1. IsWellFoundedOn(R, Nat)
  BY NatLessThanWellFounded
<1>2. \A y, x \in Nat : y < x => <<y, x>> \in R
  BY DEF OpToRel
<1> HIDE DEF R
<1>3. PICK x \in T : \A y \in T : ~(<<y, x>> \in R)
  BY <1>1, WFMin
<1>4. \A y \in T : ~(y < x)
  BY <1>2, <1>3
<1> QED
  BY <1>4
-----------------------------------------------------------------------------
(* The smallest and the largest of some numbers. *)

\* Min of a set of naturals is its least element.
LEMMA MinIsLeast ==
  ASSUME NEW T, T \subseteq Nat, T # {}
  PROVE  Min(T) \in T /\ \A y \in T : Min(T) <= y
<1>1. \E x \in T : \A y \in T : x <= y
  BY LeastNumber
<1>2. QED
  BY <1>1 DEF Min

\* A finite set of naturals has a bound.
LEMMA FiniteIsBounded ==
  ASSUME NEW S, S \subseteq Nat, IsFiniteSet(S)
  PROVE  \E b \in Nat : \A x \in S : x <= b
<1>1. PICK s \in Seq(S) : \A x \in S : \E n \in 1..Len(s) : s[n] = x
  BY DEF IsFiniteSet
<1>2. Len(s) \in Nat /\ \A i \in 1..Len(s) : s[i] \in Nat
  <2>1. Len(s) \in Nat /\ \A i \in 1..Len(s) : s[i] \in S
    OBVIOUS
  <2>2. QED
    BY <2>1
<1> DEFINE Bounded(n) == \E b \in Nat : \A i \in 1..n : s[i] <= b
           T == {n \in 0..Len(s) : ~Bounded(n)}
<1>3. T \subseteq 0..Len(s) /\ \A m \in 0..Len(s) : m \in T <=> ~Bounded(m)
  OBVIOUS
<1>4. Bounded(0)
  OBVIOUS
<1> HIDE DEF T, Bounded
<1>5. T = {}
  <2>1. SUFFICES ASSUME T # {} PROVE FALSE
    OBVIOUS
  <2>2. T \subseteq Nat
    BY <1>2, <1>3
  <2>3. PICK n \in T : \A m \in T : n <= m
    BY <2>1, <2>2, LeastNumber
  <2>4. n # 0
    BY <1>2, <1>3, <1>4
  <2>5. n \in 1..Len(s) /\ n - 1 \in 0..Len(s) /\ n - 1 \notin T
    BY <1>2, <1>3, <2>3, <2>4
  <2>6. PICK b \in Nat : \A i \in 1..(n - 1) : s[i] <= b
    BY <1>3, <2>5 DEF Bounded
  <2>7. b + s[n] \in Nat /\ \A i \in 1..n : s[i] <= b + s[n]
    BY <1>2, <2>5, <2>6
  <2>8. Bounded(n)
    BY <2>7 DEF Bounded
  <2>9. QED
    BY <1>3, <2>3, <2>8
<1>6. Bounded(Len(s))
  BY <1>2, <1>3, <1>5
<1>7. PICK b \in Nat : \A i \in 1..Len(s) : s[i] <= b
  BY <1>6 DEF Bounded
<1>8. QED
  BY <1>1, <1>7

\* Max of a finite set of naturals is its greatest element.
LEMMA MaxIsGreatest ==
  ASSUME NEW S, S \subseteq Nat, S # {}, IsFiniteSet(S)
  PROVE  Max(S) \in S /\ \A y \in S : Max(S) >= y
<1> DEFINE B == {b \in Nat : \A x \in S : x <= b}
<1>1. B # {}
  BY FiniteIsBounded
<1>2. B \subseteq Nat /\ \A b \in Nat : b \in B <=> \A x \in S : x <= b
  OBVIOUS
<1> HIDE DEF B
<1>3. PICK b \in B : \A a \in B : b <= a
  BY <1>1, <1>2, LeastNumber
<1>4. b \in S
  <2>1. SUFFICES ASSUME b \notin S PROVE FALSE
    OBVIOUS
  <2>2. PICK x \in S : TRUE
    OBVIOUS
  <2>3. b \in Nat /\ \A y \in S : y < b
    BY <1>2, <1>3, <2>1
  <2>4. b - 1 \in Nat /\ \A y \in S : y <= b - 1
    BY <2>2, <2>3
  <2>5. b - 1 \in B
    BY <1>2, <2>4
  <2>6. QED
    BY <1>3, <2>3, <2>5
<1>5. \E x \in S : \A y \in S : x >= y
  BY <1>2, <1>3, <1>4
<1>6. QED
  BY <1>5 DEF Max

\* Max of two naturals.
LEMMA MaxOfTwo ==
  ASSUME NEW a \in Nat, NEW b \in Nat
  PROVE  Max({a, b}) \in {a, b} /\ Max({a, b}) >= a /\ Max({a, b}) >= b
<1>1. \E x \in {a, b} : \A y \in {a, b} : x >= y
  OBVIOUS
<1>2. QED
  BY <1>1 DEF Max
-----------------------------------------------------------------------------
(* The exchange's book and the changes that lead to it. *)

\* A price that no update from first on has set has the quantity it had before.
LEMMA Untouched ==
  ASSUME NEW m \in Nat, NEW n \in Nat, NEW first \in Nat, first <= m + 1, m <= n,
         NEW p, p \notin Touched(first, n)
  PROVE  /\ p \in DOMAIN ExchangeBook(m) <=> p \in DOMAIN ExchangeBook(n)
         /\ p \in DOMAIN ExchangeBook(m) => ExchangeBook(m)[p] = ExchangeBook(n)[p]
<1>1. \A i \in first..n : Change[i].price # p
  BY DEF Touched
<1>2. {i \in 1..m : Change[i].price = p} = {i \in 1..n : Change[i].price = p}
  BY <1>1
<1>3. LastChange(p, m) = LastChange(p, n)
  BY <1>2 DEF LastChange
<1>4. p \in {Change[i].price : i \in 1..m} <=> p \in {Change[i].price : i \in 1..n}
  BY <1>1
<1>5. QED
  BY <1>3, <1>4 DEF ExchangeBook

\* A book has no level of quantity zero.
LEMMA NoEmptyLevel ==
  ASSUME NEW n, NEW p \in DOMAIN ExchangeBook(n)
  PROVE  ExchangeBook(n)[p] # 0
  BY DEF ExchangeBook

\* Prices of the exchange's whole history.
Prices == {Change[i].price : i \in DOMAIN Change}

\* There are finitely many, at most one for each change.
LEMMA PricesAreFinite ==
  /\ Prices \subseteq Nat /\ IsFiniteSet(Prices)
  /\ Cardinality(Prices) \in Nat /\ Cardinality(Prices) <= MaxId
<1> DEFINE s == [i \in 1..Len(Change) |-> Change[i].price]
<1>1. Len(Change) \in Nat /\ DOMAIN Change = 1..Len(Change)
  BY ChangeAssumption
<1>2. \A i \in 1..Len(Change) : Change[i].price \in Prices
  BY <1>1 DEF Prices
<1>3. s \in Surjection(1..Len(Change), Prices)
  <2>1. s \in [1..Len(Change) -> Prices]
    BY <1>2
  <2>2. \A p \in Prices : \E i \in 1..Len(Change) : s[i] = p
    BY <1>1 DEF Prices
  <2>3. QED
    BY <2>1, <2>2 DEF Surjection
<1>4. IsFiniteSet(1..Len(Change)) /\ Cardinality(1..Len(Change)) = Len(Change)
  <2> DEFINE len == Len(Change)
  <2>1. len \in Int /\ 1 \in Int
    BY <1>1
  <2> HIDE DEF len
  <2>2. IsFiniteSet(1..len) /\ Cardinality(1..len) = IF 1 > len THEN 0 ELSE len - 1 + 1
    BY <2>1, FS_Interval
  <2>3. QED
    BY <1>1, <2>2 DEF len
<1>5. IsFiniteSet(Prices) /\ Cardinality(Prices) <= Len(Change)
  BY <1>3, <1>4, FS_Surjection
<1>6. Prices \subseteq Nat
  <2> DEFINE Updates == [price : Nat \ {0}, quantity : Nat]
  <2>1. Change \in Seq(Updates) /\ \A c \in Updates : c.price \in Nat
    BY ChangeAssumption
  <2> HIDE DEF Updates
  <2>2. \A i \in DOMAIN Change : Change[i].price \in Nat
    BY <1>1, <2>1
  <2>3. QED
    BY <2>2 DEF Prices
<1>7. QED
  BY <1>5, <1>6, FS_CardinalityType DEF MaxId

\* A book's prices are among them.
LEMMA BookPrices ==
  ASSUME NEW n \in 0..MaxId
  PROVE  /\ DOMAIN ExchangeBook(n) \subseteq Prices
         /\ ExchangeBook(n) = [p \in DOMAIN ExchangeBook(n) |-> ExchangeBook(n)[p]]
<1>1. Len(Change) \in Nat /\ DOMAIN Change = 1..Len(Change)
  BY ChangeAssumption
<1>2. QED
  BY <1>1 DEF ExchangeBook, Prices, MaxId
-----------------------------------------------------------------------------
(* The best of some prices. *)

Above(S, p) == {q \in S : q > p}
Best(S, n) == {p \in S : Cardinality(Above(S, p)) < n}

LEMMA TopIsBest ==
  ASSUME NEW levels, NEW n
  PROVE  /\ Top(levels, n) = [p \in Best(DOMAIN levels, n) |-> levels[p]]
         /\ DOMAIN Top(levels, n) = Best(DOMAIN levels, n)
         /\ DOMAIN Top(levels, n) \subseteq DOMAIN levels
         /\ \A p \in DOMAIN Top(levels, n) : Top(levels, n)[p] = levels[p]
<1>1. Top(levels, n) = [p \in Best(DOMAIN levels, n) |-> levels[p]]
  BY DEF Top, Restrict, Best, Above
<1>2. Best(DOMAIN levels, n) \subseteq DOMAIN levels
  BY DEF Best
<1>3. QED
  BY <1>1, <1>2

\* How many there are above a price.
LEMMA AboveIsFinite ==
  ASSUME NEW S, IsFiniteSet(S), NEW p
  PROVE  /\ IsFiniteSet(Above(S, p)) /\ Cardinality(Above(S, p)) \in Nat
         /\ Cardinality(Above(S, p)) <= Cardinality(S)
<1>1. Above(S, p) \in SUBSET S
  BY DEF Above
<1>2. QED
  BY <1>1, FS_Subset, FS_CardinalityType

LEMMA BestIsFinite ==
  ASSUME NEW S, IsFiniteSet(S), NEW n
  PROVE  /\ Best(S, n) \subseteq S /\ IsFiniteSet(Best(S, n)) /\ Cardinality(Best(S, n)) \in Nat
         /\ Cardinality(Best(S, n)) <= Cardinality(S)
<1>1. Best(S, n) \in SUBSET S
  BY DEF Best
<1>2. QED
  BY <1>1, FS_Subset, FS_CardinalityType

\* There are no more than n best prices.
LEMMA BestAreFew ==
  ASSUME NEW S, S \subseteq Nat, IsFiniteSet(S), NEW n \in Nat
  PROVE  Cardinality(Best(S, n)) <= n
<1> DEFINE T == Best(S, n)
<1>1. T \subseteq S /\ IsFiniteSet(T) /\ Cardinality(T) \in Nat
  BY BestIsFinite
<1>2. \A p \in T : Cardinality(Above(S, p)) < n
  BY DEF Best
<1> SUFFICES Cardinality(T) <= n
  OBVIOUS
<1> HIDE DEF T
<1>3. CASE T = {}
  BY <1>3, FS_EmptySet
<1>4. CASE T # {}
  <2>1. T \subseteq Nat
    BY <1>1
  <2>2. PICK x \in T : \A y \in T : x <= y
    BY <1>4, <2>1, LeastNumber
  <2>3. T \ {x} \in SUBSET Above(S, x)
    BY <1>1, <2>1, <2>2 DEF Above
  <2>4. Cardinality(T \ {x}) = Cardinality(T) - 1
    BY <1>1, <2>2, FS_RemoveElement
  <2>5. IsFiniteSet(Above(S, x)) /\ Cardinality(Above(S, x)) \in Nat
    BY AboveIsFinite
  <2>6. Cardinality(T \ {x}) <= Cardinality(Above(S, x))
    BY <2>3, <2>5, FS_Subset
  <2>7. QED
    BY <1>1, <1>2, <2>2, <2>4, <2>5, <2>6
<1>5. QED
  BY <1>3, <1>4

\* All of n prices are among the n best.
LEMMA FewAreBest ==
  ASSUME NEW S, S \subseteq Nat, IsFiniteSet(S), NEW n \in Nat, Cardinality(S) <= n
  PROVE  Best(S, n) = S
<1>1. ASSUME NEW p \in S PROVE Cardinality(Above(S, p)) < n
  <2>1. Above(S, p) \in SUBSET (S \ {p})
    BY DEF Above
  <2>2. IsFiniteSet(S \ {p}) /\ Cardinality(S \ {p}) = Cardinality(S) - 1
    BY FS_RemoveElement
  <2>3. Cardinality(Above(S, p)) <= Cardinality(S) - 1
    BY <2>1, <2>2, FS_Subset
  <2>4. Cardinality(S) \in Nat /\ Cardinality(Above(S, p)) \in Nat
    BY FS_CardinalityType, AboveIsFinite
  <2>5. QED
    BY <2>3, <2>4
<1>2. QED
  BY <1>1 DEF Best

\* Of n prices or more, n are among the n best.
LEMMA EnoughAreBest ==
  ASSUME NEW S, S \subseteq Nat, IsFiniteSet(S), NEW n \in Nat, n <= Cardinality(S)
  PROVE  n <= Cardinality(Best(S, n))
<1> DEFINE Few == {k \in Nat : k <= Cardinality(S) /\ ~(k <= Cardinality(Best(S, k)))}
<1>1. Few \subseteq Nat
      /\ \A k \in Nat : k \in Few <=> k <= Cardinality(S) /\ ~(k <= Cardinality(Best(S, k)))
  OBVIOUS
<1>2. Cardinality(S) \in Nat
  BY FS_CardinalityType
<1>3. \A k \in Nat : Best(S, k) \subseteq S /\ IsFiniteSet(Best(S, k)) /\ Cardinality(Best(S, k)) \in Nat
  BY BestIsFinite
<1> HIDE DEF Few
<1>4. Few = {}
  <2>1. SUFFICES ASSUME Few # {} PROVE FALSE
    OBVIOUS
  <2>2. PICK k \in Few : \A j \in Few : k <= j
    BY <1>1, <2>1, LeastNumber
  <2>3. k \in Nat /\ k # 0 /\ k <= Cardinality(S) /\ Cardinality(Best(S, k)) < k
    BY <1>1, <1>2, <1>3, <2>2
  <2> DEFINE j == k - 1
             B == Best(S, j)
             C == Best(S, k)
  <2>4. j \in Nat /\ j < k /\ k = j + 1 /\ j <= Cardinality(S)
    BY <1>2, <2>3
  <2>5. j \notin Few
    BY <2>2, <2>3, <2>4
  <2>6. j <= Cardinality(B)
    BY <1>1, <2>4, <2>5
  <2>7. B \subseteq C
    <3>1. \A p \in S : Cardinality(Above(S, p)) \in Nat
      BY AboveIsFinite
    <3>2. ASSUME NEW p \in B PROVE p \in C
      <4>1. p \in S /\ Cardinality(Above(S, p)) < j
        BY DEF Best
      <4>2. Cardinality(Above(S, p)) < k
        BY <2>4, <3>1, <4>1
      <4>3. QED
        BY <4>1, <4>2 DEF Best
    <3>3. QED
      BY <3>2
  <2>8. B \subseteq S /\ IsFiniteSet(B) /\ IsFiniteSet(C) /\ Cardinality(B) \in Nat
        /\ Cardinality(C) \in Nat
    BY <1>3, <2>3, <2>4
  <2> HIDE DEF j
  <2>9. Cardinality(B) <= Cardinality(C)
    <3>1. B \in SUBSET C
      BY <2>7
    <3> HIDE DEF B, C
    <3>2. QED
      BY <2>8, <3>1, FS_Subset
  <2>10. Cardinality(B) = j /\ Cardinality(C) = j
    BY <2>3, <2>4, <2>6, <2>8, <2>9
  <2>11. S \ B # {}
    <3>1. CASE S \subseteq B
      <4>1. S = B
        BY <2>8, <3>1
      <4>2. QED
        BY <1>2, <2>3, <2>4, <2>10, <4>1
    <3>2. QED
      BY <3>1
  <2>12. S \ B \subseteq Nat /\ IsFiniteSet(S \ B)
    <3>1. S \ B \in SUBSET S
      OBVIOUS
    <3> HIDE DEF B
    <3>2. QED
      BY <3>1, FS_Subset
  <2>13. PICK x \in S \ B : \A y \in S \ B : x >= y
    <3> DEFINE R == S \ B
    <3>1. R \subseteq Nat /\ IsFiniteSet(R) /\ R # {}
      BY <2>11, <2>12
    <3> HIDE DEF R
    <3>2. Max(R) \in R /\ \A y \in R : Max(R) >= y
      BY <3>1, MaxIsGreatest
    <3>3. QED
      BY <3>2 DEF R
  <2>14. Above(S, x) \in SUBSET B
    BY <2>12, <2>13 DEF Above
  <2>15. Cardinality(Above(S, x)) <= j
    <3> HIDE DEF B
    <3>1. QED
      BY <2>8, <2>10, <2>14, FS_Subset
  <2>16. x \in C
    <3>1. Cardinality(Above(S, x)) \in Nat
      BY AboveIsFinite
    <3>2. QED
      BY <2>4, <2>13, <2>15, <3>1 DEF Best
  <2> HIDE DEF B, C
  <2>17. B \cup {x} \in SUBSET C
    BY <2>7, <2>16
  <2>18. Cardinality(B \cup {x}) = j + 1
    BY <2>8, <2>10, <2>13, FS_AddElement
  <2>19. Cardinality(B \cup {x}) <= Cardinality(C)
    BY <2>8, <2>17, FS_Subset
  <2>20. QED
    BY <2>4, <2>10, <2>18, <2>19
<1>5. QED
  BY <1>1, <1>4

\* A set between the best prices and all of them has the same best prices.
LEMMA BestOfBest ==
  ASSUME NEW S, S \subseteq Nat, IsFiniteSet(S), NEW n \in Nat, NEW D,
         Best(S, n) \subseteq D, D \subseteq S
  PROVE  Best(D, n) = Best(S, n)
<1>1. IsFiniteSet(D) /\ D \subseteq Nat
  <2>1. D \in SUBSET S
    OBVIOUS
  <2>2. QED
    BY <2>1, FS_Subset
<1>2. ASSUME NEW p \in Best(S, n) PROVE p \in Best(D, n)
  <2>1. Above(D, p) \in SUBSET Above(S, p)
    BY DEF Above
  <2>2. IsFiniteSet(Above(S, p)) /\ Cardinality(Above(S, p)) \in Nat /\ Cardinality(Above(D, p)) \in Nat
    BY <1>1, AboveIsFinite
  <2>3. Cardinality(Above(D, p)) <= Cardinality(Above(S, p))
    BY <2>1, <2>2, FS_Subset
  <2>4. Cardinality(Above(S, p)) < n /\ p \in D
    BY DEF Best
  <2>5. QED
    BY <2>2, <2>3, <2>4 DEF Best
<1>3. ASSUME NEW p \in Best(D, n), p \notin Best(S, n) PROVE FALSE
  <2> DEFINE A == Above(S, p)
             T == Best(A, n)
  <2>1. p \in S /\ p \in D /\ Cardinality(Above(D, p)) < n
    BY DEF Best
  <2>2. A \subseteq Nat /\ IsFiniteSet(A) /\ Cardinality(A) \in Nat
    BY AboveIsFinite DEF Above
  <2>3. n <= Cardinality(A)
    BY <1>3, <2>1, <2>2 DEF Best
  <2>4. n <= Cardinality(T)
    <3> HIDE DEF A
    <3>1. QED
      BY <2>2, <2>3, EnoughAreBest
  <2>5. \A q \in A : Above(A, q) = Above(S, q)
    <3>1. ASSUME NEW q \in A PROVE \A r \in S : r > q => r > p
      <4>1. q \in Nat /\ p \in Nat /\ q > p
        BY <2>1 DEF Above
      <4>2. QED
        BY <4>1
    <3>2. QED
      BY <3>1 DEF Above
  <2>6. T \in SUBSET Above(D, p)
    <3>1. ASSUME NEW q \in T PROVE q \in Above(D, p)
      <4>1. q \in A /\ Cardinality(Above(A, q)) < n
        BY DEF Best
      <4>2. q \in S /\ q > p
        BY <4>1 DEF Above
      <4>3. q \in Best(S, n)
        BY <2>5, <4>1, <4>2 DEF Best
      <4>4. QED
        BY <4>2, <4>3 DEF Above
    <3>2. QED
      BY <3>1
  <2>7. IsFiniteSet(Above(D, p)) /\ Cardinality(Above(D, p)) \in Nat
    BY <1>1, AboveIsFinite
  <2>8. IsFiniteSet(T) /\ Cardinality(T) \in Nat
    BY <2>2, BestIsFinite
  <2> HIDE DEF T
  <2>9. Cardinality(T) <= Cardinality(Above(D, p))
    BY <2>6, <2>7, FS_Subset
  <2>10. QED
    BY <2>1, <2>4, <2>7, <2>8, <2>9
<1>4. QED
  BY <1>2, <1>3
=============================================================================
