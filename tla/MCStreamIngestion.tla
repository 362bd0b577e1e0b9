------------------------- MODULE MCStreamIngestion -------------------------
(* Instances of StreamIngestion for TLC.                                   *)
EXTENDS StreamIngestion

CONSTANTS w1, w2

\* Two payloads under one idempotency key.
ConflictingEvents == {[id |-> 1, key |-> "k"], [id |-> 2, key |-> "k"]}

\* One event id under two keys besides.
ClashingEvents == ConflictingEvents \union {[id |-> 1, key |-> "l"]}

\* The ids drawn for a message that carries none.
RedrawnEvents == {[id |-> i, key |-> "k"] : i \in 1 .. 3}
=============================================================================
