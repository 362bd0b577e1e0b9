------------------------------ MODULE MCOutbox ------------------------------
(* Instances of Outbox for TLC; the values of the constants are in the     *)
(* configurations.                                                         *)
EXTENDS Outbox, TLC

CONSTANTS w1, w2, e1, e2

\* Drains and events play the same role each, so their names do not matter.
Interchangeable == Permutations({w1, w2}) \union Permutations({e1, e2})
=============================================================================
