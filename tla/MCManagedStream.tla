-------------------------- MODULE MCManagedStream --------------------------
(* Instances of ManagedStream for TLC. *)
EXTENDS ManagedStream

\* The limits differ, so that lists grow to two subscriptions and that, with two
\* subscriptions, a limit is met.
MCListLimit ==
  LET large == {"okx", "bitget", "binance", "gateio", "binanceUsdm", "korbit", "htxPrivate"}
  IN [v \in Venues |-> IF v \in large THEN 2 ELSE 1]
=============================================================================
