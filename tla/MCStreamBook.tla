---------------------------- MODULE MCStreamBook ----------------------------
(* Instances of StreamBook for TLC. *)
EXTENDS StreamBook

Set(p, q) == [price |-> p, quantity |-> q]

\* With a depth of two, level 1 falls out of the book, changes unseen, and comes back.
MCChange == <<Set(1, 1), Set(2, 2), Set(3, 3), Set(1, 4), Set(2, 0)>>
=============================================================================
