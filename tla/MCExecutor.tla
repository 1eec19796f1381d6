----------------------------- MODULE MCExecutor -----------------------------
(* Instances of Executor for TLC. *)
EXTENDS Executor, TLC

CONSTANTS order, read, k1, k2

\* An order and a read share the key k1; the order is charged on k2 as well.
MCCharges == (order :> {k1, k2} @@ read :> {k1})
=============================================================================
