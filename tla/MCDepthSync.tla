---------------------------- MODULE MCDepthSync ----------------------------
(* Instances of DepthSync for TLC. *)
EXTENDS DepthSync

Set(p, q) == [price |-> p, quantity |-> q]

\* Levels come, change and go; every quantity is new, so a missed, repeated or
\* misordered update shows in the book.
MCChange == <<Set(1, 1), Set(2, 2), Set(1, 3), Set(2, 0), Set(1, 5), Set(2, 6)>>
=============================================================================
