----------------------------- MODULE OrderBook -----------------------------
(***************************************************************************)
(* The levels of an order book, as every local_order_book.go keeps them: a *)
(* map from price to quantity per side. One side is modelled, best price   *)
(* first from the top; the other is kept the same way.                     *)
(***************************************************************************)
EXTENDS Integers, Sequences, FiniteSetsExt

CONSTANT Change       \* the exchange's updates: [price, quantity] by update id

ASSUME ChangeAssumption == Change \in Seq([price : Nat \ {0}, quantity : Nat])

MaxId == Len(Change)

\* The exchange's book after update n: a function from prices to quantities.
LastChange(p, n) == Max({i \in 1..n : Change[i].price = p})
ExchangeBook(n) ==
  LET prices == {Change[i].price : i \in 1..n}
  IN [p \in {q \in prices : Change[LastChange(q, n)].quantity # 0}
        |-> Change[LastChange(p, n)].quantity]

Quantity(levels, p) == IF p \in DOMAIN levels THEN levels[p] ELSE 0

\* The prices that updates first..final set.
Touched(first, final) == {Change[i].price : i \in first..final}

\* sortedLocalLevels: the n best levels, here the highest prices.
Top(levels, n) ==
  Restrict(levels, {p \in DOMAIN levels : Cardinality({q \in DOMAIN levels : q > p}) < n})

\* applyLocalLevel for all levels of a delta: quantity zero removes the level.
ApplyLevels(levels, delta) ==
  LET after(p) == IF p \in DOMAIN delta THEN delta[p] ELSE levels[p]
  IN [p \in {q \in DOMAIN levels \cup DOMAIN delta : after(q) # 0} |-> after(p)]
=============================================================================
