--------------------------- MODULE MCRateLimiter ---------------------------
(* Instances of RateLimiter for TLC: two rules, the second one charged together *)
(* with the first, as REST weight and order limits are. *)
EXTENDS RateLimiter, TLC

\* A light request, a heavy one, and one charged on both rules.
MCCharges == {(1 :> 1), (1 :> 2), (1 :> 1 @@ 2 :> 1)}
MCRule == [limit |-> 2, window |-> 3]
MCTighter == [limit |-> 1, window |-> 3]
MCRules == {MCRule, MCTighter}
MCInitialRules == [k \in Keys |-> MCRule]
\* The second rule is not registered yet.
MCPartRules == [k \in Keys |-> IF k = 1 THEN MCRule ELSE NoRule]
\* Callers differ only in their charges, which Init assigns in every way.
MCSymmetry == Permutations(Callers)
=============================================================================
