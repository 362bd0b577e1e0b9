-------------------------- MODULE MCPostgresStore --------------------------
EXTENDS PostgresStore, TLC

CONSTANTS e1, e2, e3, e4, id1, id2, id4, k1, k2, k4, r1, r2, c1

\* e2 is another payload under e1's key, e3 another key under e4's id.  What is
\* stored before, e1 and e4, has nothing in common: two rows for a prune.
MCEventId == e1 :> id1 @@ e2 :> id2 @@ e3 :> id4 @@ e4 :> id4
MCKey == e1 :> k1 @@ e2 :> k1 @@ e3 :> k2 @@ e4 :> k4
MCBatches == {<<e1>>, <<e3, e2>>}
MCEarlier == <<e1, e4>>
MCCaseOf == r1 :> c1 @@ r2 :> c1

\* Events go by the clock of their clients: they expire alone, or last.
MCCutoffs == {{"events"}, Tables \ {"audit_entries", "events"}}
=============================================================================
