------------------------- MODULE MCStreamSupervisor -------------------------
(* An instance of StreamHealth, with the supervisor it watches, for TLC.   *)
EXTENDS StreamHealth

CONSTANTS w1

\* Two payloads under one idempotency key, and two keys under one event id.
ClashingEvents == {[id |-> 1, key |-> "k"], [id |-> 2, key |-> "k"], [id |-> 1, key |-> "l"]}
=============================================================================
