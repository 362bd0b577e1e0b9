-------------------------- MODULE AuditChainProofs --------------------------
(* The audit chain holds for any number of sessions and entries, and what  *)
(* the maintenance commands copy of it is what they say it is.             *)
EXTENDS Maintenance, FiniteSetTheorems, TLAPS

-----------------------------------------------------------------------------
(* The inductive invariant.                                                *)

Inserted == rows \union Uncommitted

\* Entry r follows the entry of the table whose sequence is one less.
Chained(r, table) ==
  \/ r.sequence = 1 /\ r.previous = GENESIS_AUDIT_HASH
  \/ \E q \in table : q.sequence = r.sequence - 1 /\ r.previous = q.hash

\* What session s read is the start of the chain or an entry it still sees.
TailSeen(s) ==
  \/ tail[s] = NoTail
  \/ \E q \in Visible(s) : tail[s] = [sequence |-> q.sequence, hash |-> q.hash]

Shapes ==
  /\ backend \in Backends
  /\ pending = [s \in Sessions |-> pending[s]]
  /\ pc \in [Sessions -> {"idle", "begun", "read"}]
  /\ tail = [s \in Sessions |-> tail[s]]

Hashed == \A r \in Inserted : r.sequence \in Nat \ {0} /\ HashHolds(r)

Bounded == \E n \in Nat : \A r \in Inserted : r.sequence <= n

Distinct == \A r, q \in Inserted : r.sequence = q.sequence => r = q

CommittedChained == \A r \in rows : Chained(r, rows)

PendingChained == \A s \in Sessions : \A r \in pending[s] : Chained(r, Visible(s))

TailsSeen == \A s \in Sessions : pc[s] = "read" => TailSeen(s)

IdleHasNothing == \A s \in Sessions : pc[s] = "idle" => pending[s] = {}

CInv ==
  /\ Shapes
  /\ Hashed
  /\ Bounded
  /\ Distinct
  /\ CommittedChained
  /\ PendingChained
  /\ TailsSeen
  /\ IdleHasNothing

-----------------------------------------------------------------------------
(* Facts about tables.                                                     *)

\* A bounded table that is not empty has a newest entry: what `order by
\* sequence desc limit 1` returns is defined.
LEMMA NewestExists ==
  ASSUME NEW table, table # {}, \A r \in table : r.sequence \in Nat,
         NEW n \in Nat, \A r \in table : r.sequence <= n
  PROVE  Newest(table) \in table /\ \A q \in table : q.sequence <= Newest(table).sequence
<1> DEFINE Gaps == {n - r.sequence : r \in table}
<1>1. Gaps \subseteq Nat /\ Gaps # {}
  OBVIOUS
<1>2. PICK g \in Gaps : \A h \in Gaps : ~(<<h, g>> \in OpToRel(<, Nat))
  <2> HIDE DEF Gaps
  <2> QED BY <1>1, WFMin, NatLessThanWellFounded
<1>3. \A h \in Gaps : g <= h
  <2> HIDE DEF Gaps
  <2> SUFFICES ASSUME NEW h \in Gaps PROVE g <= h
    OBVIOUS
  <2>1. g \in Nat /\ h \in Nat
    BY <1>1
  <2>2. ~(h < g)
    BY <1>2, <2>1 DEF OpToRel
  <2> QED BY <2>1, <2>2
<1>4. PICK r \in table : g = n - r.sequence
  OBVIOUS
<1>5. \A q \in table : q.sequence <= r.sequence
  <2> SUFFICES ASSUME NEW q \in table PROVE q.sequence <= r.sequence
    OBVIOUS
  <2>1. g <= n - q.sequence
    BY <1>3
  <2> QED BY <2>1, <1>4
<1> QED BY <1>5 DEF Newest

\* In a table whose entries are hashed, distinct and chained,
\* verify_audit_chain finds nothing to report.
LEMMA ChainedIsValid ==
  ASSUME NEW table,
         \A r \in table : r.sequence \in Nat \ {0} /\ HashHolds(r),
         \A r, q \in table : r.sequence = q.sequence => r = q,
         \A r \in table : Chained(r, table)
  PROVE  Valid(table)
<1> SUFFICES ASSUME NEW r \in table PROVE LinkHolds(r, table)
  BY DEF Valid, Failing
<1>1. CASE r.sequence = 1 /\ r.previous = GENESIS_AUDIT_HASH
  <2>1. Below(r, table) = {}
    BY <1>1 DEF Below
  <2> QED BY <1>1, <2>1 DEF LinkHolds, RunningHash
<1>2. ASSUME NEW q \in table, q.sequence = r.sequence - 1, r.previous = q.hash
      PROVE  LinkHolds(r, table)
  <2>1. q \in Below(r, table)
    BY <1>2 DEF Below
  <2>2. \A p \in Below(r, table) : p.sequence <= q.sequence
    BY <1>2 DEF Below
  <2>3. Newest(Below(r, table)) \in Below(r, table)
        /\ q.sequence <= Newest(Below(r, table)).sequence
    BY <2>1, <2>2 DEF Newest
  <2>4. Newest(Below(r, table)) \in table
    BY <2>3 DEF Below
  <2>5. Newest(Below(r, table)).sequence <= q.sequence
    BY <2>2, <2>3
  <2>6. Newest(Below(r, table)).sequence = q.sequence
    BY <2>3, <2>4, <2>5
  <2>7. Newest(Below(r, table)) = q
    BY <2>4, <2>6
  <2> QED BY <1>2, <2>1, <2>7 DEF LinkHolds, RunningHash
<1> QED BY <1>1, <1>2 DEF Chained

\* An entry stays chained when its table grows.
LEMMA ChainedGrows ==
  ASSUME NEW table, NEW larger, table \subseteq larger, NEW r, Chained(r, table)
  PROVE  Chained(r, larger)
BY DEF Chained

-----------------------------------------------------------------------------
\* Ending a transaction without its rows (a conflict, an exception, a crash)
\* keeps the invariant.
LEMMA EndKeepsChain ==
  ASSUME CInv, NEW s \in Sessions, End(s), UNCHANGED <<backend, rows>>
  PROVE  CInv'
<1>1. /\ pending' = [pending EXCEPT ![s] = {}]
      /\ pc' = [pc EXCEPT ![s] = "idle"]
      /\ tail' = [tail EXCEPT ![s] = NoTail]
  BY DEF End
<1>2. Inserted' \subseteq Inserted
  BY <1>1 DEF CInv, Shapes, Inserted, Uncommitted
<1>3. Shapes'
  BY <1>1 DEF CInv, Shapes
<1>4. Hashed' /\ Distinct' /\ Bounded'
  BY <1>2 DEF CInv, Hashed, Distinct, Bounded, HashHolds
<1>5. CommittedChained'
  BY DEF CInv, CommittedChained, Chained
<1>6. PendingChained'
  BY <1>1 DEF CInv, Shapes, PendingChained, Visible, Chained
<1>7. TailsSeen'
  BY <1>1 DEF CInv, Shapes, TailsSeen, TailSeen, Visible
<1>8. IdleHasNothing'
  BY <1>1 DEF CInv, Shapes, IdleHasNothing
<1> QED BY <1>3, <1>4, <1>5, <1>6, <1>7, <1>8 DEF CInv

LEMMA InitialChain == Init => CInv
<1> SUFFICES ASSUME Init PROVE CInv
  OBVIOUS
<1>1. Inserted = {}
  BY DEF Init, Inserted, Uncommitted
<1>2. Bounded
  BY <1>1 DEF Bounded
<1> QED
  BY <1>1, <1>2 DEF Init, CInv, Shapes, Hashed, Distinct, CommittedChained,
    PendingChained, TailsSeen, IdleHasNothing

\* Every step keeps the invariant, unless it resets the demo data on Postgres.
LEMMA StepKeepsChain ==
  ASSUME ~ResetOnPostgres, CInv, [Next]_vars
  PROVE  CInv'
<1>1. ASSUME NEW s \in Sessions, NEW n \in BatchSizes, Begin(s, n) PROVE CInv'
  BY <1>1 DEF Begin, CInv, Shapes, Hashed, Bounded, Distinct, CommittedChained,
    PendingChained, TailsSeen, TailSeen, IdleHasNothing, Inserted, Uncommitted,
    Visible, Chained, HashHolds
<1>2. ASSUME NEW s \in Sessions, ReadTail(s) PROVE CInv'
  <2>1. TailSeen(s)'
    <3>1. CASE Visible(s) = {}
      BY <1>2, <3>1 DEF ReadTail, TailSeen, CInv, Shapes
    <3>2. CASE Visible(s) # {}
      <4>1. Visible(s) \subseteq Inserted
        BY DEF Visible, Inserted, Uncommitted
      <4>2. PICK n \in Nat : \A r \in Inserted : r.sequence <= n
        BY DEF CInv, Bounded
      <4>3. Newest(Visible(s)) \in Visible(s)
        BY <3>2, <4>1, <4>2, NewestExists DEF CInv, Hashed
      <4>4. tail'[s] = [sequence |-> Newest(Visible(s)).sequence,
                        hash |-> Newest(Visible(s)).hash]
        BY <1>2, <3>2 DEF ReadTail, CInv, Shapes
      <4>5. Visible(s)' = Visible(s)
        BY <1>2 DEF ReadTail, Visible
      <4> QED BY <4>3, <4>4, <4>5 DEF TailSeen
    <3> QED BY <3>1, <3>2
  <2>2. TailsSeen'
    <3> SUFFICES ASSUME NEW t \in Sessions, pc'[t] = "read", t # s PROVE TailSeen(t)'
      BY <2>1 DEF TailsSeen
    <3> QED BY <1>2 DEF ReadTail, CInv, Shapes, TailsSeen, TailSeen, Visible
  <2>3. Shapes' /\ IdleHasNothing'
    BY <1>2 DEF ReadTail, CInv, Shapes, IdleHasNothing
  <2>4. Hashed' /\ Bounded' /\ Distinct' /\ CommittedChained' /\ PendingChained'
    BY <1>2 DEF ReadTail, CInv, Hashed, Bounded, Distinct, CommittedChained,
      PendingChained, Inserted, Uncommitted, Visible, Chained, HashHolds
  <2> QED BY <2>2, <2>3, <2>4 DEF CInv
<1>3. ASSUME NEW s \in Sessions, NEW c \in todo[s], InsertEntry(s, c) PROVE CInv'
  <2> DEFINE new == NewEntry(s, c)
  <2>1. /\ new.sequence = tail[s].sequence + 1
        /\ new.previous = tail[s].hash
        /\ HashHolds(new)
    BY DEF NewEntry, HashHolds
  <2>2. TailSeen(s)
    BY <1>3 DEF InsertEntry, CInv, TailsSeen
  <2>3. new.sequence \in Nat \ {0} /\ Chained(new, Visible(s))
    <3>1. CASE tail[s] = NoTail
      BY <2>1, <3>1 DEF NoTail, Chained
    <3>2. ASSUME NEW q \in Visible(s),
                 tail[s] = [sequence |-> q.sequence, hash |-> q.hash]
          PROVE  new.sequence \in Nat \ {0} /\ Chained(new, Visible(s))
      <4>1. q.sequence \in Nat
        BY DEF CInv, Hashed, Inserted, Uncommitted, Visible
      <4> QED BY <2>1, <3>2, <4>1 DEF Chained
    <3> QED BY <2>2, <3>1, <3>2 DEF TailSeen
  <2>4. pending' = [pending EXCEPT ![s] = @ \union {new}] /\ rows' = rows
    BY <1>3 DEF InsertEntry
  <2>5. Inserted' = Inserted \union {new}
    BY <2>4 DEF Inserted, Uncommitted, CInv, Shapes
  <2>6. \A r \in Inserted : r.sequence # new.sequence
    BY <1>3, <2>1 DEF InsertEntry, SequenceIsFree, Sequences, Inserted
  <2> HIDE DEF new
  <2>7. Shapes' /\ IdleHasNothing'
    BY <1>3, <2>4 DEF InsertEntry, CInv, Shapes, IdleHasNothing
  <2>8. Hashed'
    BY <2>1, <2>3, <2>5 DEF CInv, Hashed, HashHolds
  <2>9. Distinct'
    BY <2>5, <2>6 DEF CInv, Distinct
  <2>10. Bounded'
    <3>1. PICK n \in Nat : \A r \in Inserted : r.sequence <= n
      BY DEF CInv, Bounded
    <3>2. \A r \in Inserted' : r.sequence <= n + new.sequence
      BY <2>3, <2>5, <3>1 DEF CInv, Hashed
    <3> QED BY <2>3, <3>2 DEF Bounded
  <2>11. CommittedChained'
    BY <2>4 DEF CInv, CommittedChained, Chained
  <2>12. PendingChained'
    <3> SUFFICES ASSUME NEW t \in Sessions, NEW r \in pending'[t]
                 PROVE  Chained(r, Visible(t)')
      BY DEF PendingChained, Chained
    <3>1. Visible(t) \subseteq Visible(t)'
      BY <2>4 DEF Visible, CInv, Shapes
    <3>2. r \in pending[t] \/ (t = s /\ r = new)
      BY <2>4 DEF CInv, Shapes
    <3> QED BY <2>3, <3>1, <3>2, ChainedGrows DEF CInv, PendingChained
  <2>13. TailsSeen'
    BY <1>3, <2>4 DEF InsertEntry, CInv, Shapes, TailsSeen, TailSeen, Visible
  <2> QED BY <2>7, <2>8, <2>9, <2>10, <2>11, <2>12, <2>13 DEF CInv
<1>4. ASSUME NEW s \in Sessions, InsertConflict(s) PROVE CInv'
  BY <1>4, EndKeepsChain DEF InsertConflict
<1>5. ASSUME NEW s \in Sessions, Commit(s) PROVE CInv'
  <2>1. /\ rows' = rows \union pending[s]
        /\ pending' = [pending EXCEPT ![s] = {}]
        /\ pc' = [pc EXCEPT ![s] = "idle"]
        /\ tail' = [tail EXCEPT ![s] = NoTail]
        /\ backend' = backend
    BY <1>5 DEF Commit, End
  <2>2. Inserted' = Inserted
    BY <2>1 DEF Inserted, Uncommitted, CInv, Shapes
  <2>3. Shapes' /\ IdleHasNothing'
    BY <2>1 DEF CInv, Shapes, IdleHasNothing
  <2>4. Hashed' /\ Bounded' /\ Distinct'
    BY <2>2 DEF CInv, Hashed, Bounded, Distinct, HashHolds
  <2>5. CommittedChained'
    BY <2>1 DEF CInv, CommittedChained, PendingChained, Chained, Visible
  <2>6. \A t \in Sessions : t # s => Visible(t) \subseteq Visible(t)'
    BY <2>1 DEF CInv, Shapes, Visible
  <2>7. PendingChained'
    <3> SUFFICES ASSUME NEW t \in Sessions, NEW r \in pending'[t]
                 PROVE  Chained(r, Visible(t)')
      BY DEF PendingChained, Chained
    <3>1. t # s /\ r \in pending[t]
      BY <2>1 DEF CInv, Shapes
    <3> QED BY <2>6, <3>1, ChainedGrows DEF CInv, PendingChained
  <2>8. TailsSeen'
    <3> SUFFICES ASSUME NEW t \in Sessions, pc'[t] = "read" PROVE TailSeen(t)'
      BY DEF TailsSeen
    <3>1. t # s /\ tail'[t] = tail[t] /\ pc[t] = "read"
      BY <2>1 DEF CInv, Shapes
    <3> QED BY <2>6, <3>1 DEF CInv, TailsSeen, TailSeen
  <2> QED BY <2>3, <2>4, <2>5, <2>7, <2>8 DEF CInv
<1>6. ASSUME NEW s \in Sessions, Rollback(s) PROVE CInv'
  BY <1>6, EndKeepsChain DEF Rollback
<1>7. CASE ResetDemoData
  <2>1. /\ rows' = {}
        /\ UNCHANGED <<backend, pending, pc, tail>>
        /\ \A s \in Sessions : pc[s] = "idle"
    BY <1>7, ParametersAssumption DEF ResetDemoData, WriteLockFree, CInv, Shapes
  <2>2. \A s \in Sessions : pending[s] = {}
    BY <2>1 DEF CInv, IdleHasNothing
  <2>3. Inserted' = {}
    BY <2>1, <2>2 DEF Inserted, Uncommitted
  <2>4. Bounded'
    BY <2>3 DEF Bounded
  <2> QED BY <2>1, <2>2, <2>3, <2>4 DEF CInv, Shapes, Hashed, Distinct,
        CommittedChained, PendingChained, TailsSeen, IdleHasNothing
<1>8. CASE UNCHANGED vars
  BY <1>8 DEF vars, CInv, Shapes, Hashed, Bounded, Distinct, CommittedChained,
    PendingChained, TailsSeen, TailSeen, IdleHasNothing, Inserted, Uncommitted,
    Visible, Chained, HashHolds
<1> QED BY <1>1, <1>2, <1>3, <1>4, <1>5, <1>6, <1>7, <1>8 DEF Next, Step

\* No interleaving of appends, conflicts, rollbacks and commits of any number
\* of sessions, on either store, leaves a table that verify_audit_chain would
\* reject, as long as the demo reset is not run on Postgres meanwhile.
THEOREM ChainAlwaysValid ==
  ASSUME ~ResetOnPostgres
  PROVE  Spec => []ChainValid
<1>1. CInv /\ [Next]_vars => CInv'
  BY StepKeepsChain
<1>2. CInv => ChainValid
  BY ChainedIsValid DEF CInv, Hashed, Distinct, CommittedChained, Inserted, ChainValid
<1> QED BY InitialChain, <1>1, <1>2, PTL DEF Spec

-----------------------------------------------------------------------------
(* Committed entries stay, and new ones come last.                         *)

\* The sequences of the committed entries have no gaps.
LEMMA NoGaps ==
  ASSUME CInv, NEW r \in rows, NEW k \in 1 .. r.sequence
  PROVE  \E q \in rows : q.sequence = k
<1> SUFFICES ASSUME \A q \in rows : q.sequence # k PROVE FALSE
  OBVIOUS
<1> DEFINE n == r.sequence
           Distances == {d \in Nat : \E q \in rows : q.sequence = k + d}
<1>1. \A q \in rows : q.sequence \in Nat \ {0}
  BY DEF CInv, Hashed, Inserted
<1>2. Distances \subseteq Nat /\ n - k \in Distances
  BY <1>1
<1>3. PICK d \in Distances : \A e \in Distances : ~(<<e, d>> \in OpToRel(<, Nat))
  <2> HIDE DEF Distances
  <2> QED BY <1>2, WFMin, NatLessThanWellFounded
<1>4. PICK q \in rows : q.sequence = k + d
  BY <1>3
<1>5. d \in Nat /\ d # 0
  <2>1. d \in Nat /\ k \in Nat
    BY <1>1
  <2>2. d = 0 => q.sequence = k
    BY <1>4, <2>1
  <2> QED BY <2>1, <2>2
<1>6. PICK p \in rows : p.sequence = k + (d - 1)
  <2>1. q.sequence # 1 /\ Chained(q, rows)
    BY <1>4, <1>5 DEF CInv, CommittedChained
  <2> QED BY <1>4, <1>5, <2>1 DEF Chained
<1>7. d - 1 \in Distances
  BY <1>5, <1>6
<1>8. <<d - 1, d>> \in OpToRel(<, Nat)
  BY <1>5 DEF OpToRel
<1> QED BY <1>3, <1>7, <1>8

\* What a session has inserted comes after everything that is committed, also
\* what was committed after it read the tail.
LEMMA UncommittedIsNewer ==
  ASSUME CInv, NEW s \in Sessions, NEW r \in pending[s], r \notin rows, NEW q \in rows
  PROVE  q.sequence < r.sequence
<1> SUFFICES ASSUME ~(q.sequence < r.sequence) PROVE FALSE
  OBVIOUS
<1>1. r \in Inserted /\ q \in Inserted
  BY DEF Inserted, Uncommitted
<1>2. r.sequence \in Nat \ {0} /\ q.sequence \in Nat
  BY <1>1 DEF CInv, Hashed
<1>3. r.sequence \in 1 .. q.sequence
  BY <1>2
<1>4. PICK p \in rows : p.sequence = r.sequence
  BY <1>3, NoGaps
<1>5. p = r
  BY <1>1, <1>4 DEF CInv, Distinct, Inserted
<1> QED BY <1>5

\* What a step does to the committed table.
LEMMA AppendOnlyStep ==
  ASSUME CInv, [Next]_vars
  PROVE  \/ resets' = resets + 1
         \/ /\ resets' = resets /\ rows \subseteq rows'
            /\ \A r \in rows' \ rows, q \in rows : q.sequence < r.sequence
<1>1. ASSUME rows' = rows, resets' = resets
      PROVE  /\ resets' = resets /\ rows \subseteq rows'
             /\ \A r \in rows' \ rows, q \in rows : q.sequence < r.sequence
  BY <1>1
<1>2. ASSUME NEW s \in Sessions, Commit(s)
      PROVE  /\ resets' = resets /\ rows \subseteq rows'
             /\ \A r \in rows' \ rows, q \in rows : q.sequence < r.sequence
  BY <1>2, UncommittedIsNewer DEF Commit
<1>3. ASSUME NEW s \in Sessions, ReadTail(s) \/ InsertConflict(s) \/ Rollback(s)
      PROVE  rows' = rows /\ resets' = resets
  BY <1>3 DEF ReadTail, InsertConflict, Rollback
<1>4. ASSUME NEW s \in Sessions, NEW c, InsertEntry(s, c)
      PROVE  rows' = rows /\ resets' = resets
  BY <1>4 DEF InsertEntry
<1>5. ASSUME NEW s \in Sessions, NEW n, Begin(s, n)
      PROVE  rows' = rows /\ resets' = resets
  BY <1>5 DEF Begin
<1>6. CASE UNCHANGED vars
  BY <1>1, <1>6 DEF vars
<1>7. CASE ResetDemoData
  BY <1>7 DEF ResetDemoData
<1> QED BY <1>1, <1>2, <1>3, <1>4, <1>5, <1>6, <1>7 DEF Next, Step

\* Committed audit entries are never rewritten and new ones come after all of
\* them, for any number of sessions; only a reset removes entries.
THEOREM AuditOnlyGrows ==
  ASSUME ~ResetOnPostgres
  PROVE  Spec => AuditIsAppendOnly
<1>1. CInv /\ [Next]_vars =>
        [\/ resets' = resets + 1
         \/ /\ rows \subseteq rows'
            /\ \A r \in rows' \ rows, q \in rows : q.sequence < r.sequence]_vars
  BY AppendOnlyStep
<1>2. CInv /\ [Next]_vars => CInv'
  BY StepKeepsChain
<1> QED BY InitialChain, <1>1, <1>2, PTL DEF Spec, AuditIsAppendOnly

-----------------------------------------------------------------------------
(* What verification proves about a table somebody changed.                *)

\* The fields of an entry, and that a change is never number 0.
Recorded ==
  /\ changes \in Nat
  /\ \A s \in Sessions : todo[s] \subseteq Nat \ {0}
  /\ \A r \in Inserted :
       /\ r = [sequence |-> r.sequence, change |-> r.change,
               previous |-> r.previous, hash |-> r.hash]
       /\ r.change \in Nat \ {0}

LEMMA RecordedKept ==
  ASSUME CInv, Recorded, [Next]_vars
  PROVE  Recorded'
<1>1. ASSUME Inserted' \subseteq Inserted, changes' = changes,
             \A s \in Sessions : todo'[s] \subseteq todo[s]
      PROVE  Recorded'
  BY <1>1 DEF Recorded
<1>2. ASSUME NEW s \in Sessions, NEW n \in BatchSizes, Begin(s, n) PROVE Recorded'
  <2>1. /\ changes' = changes + n /\ n \in Nat /\ Inserted' = Inserted
        /\ \A t \in Sessions : todo'[t] = todo[t] \/ todo'[t] = changes + 1 .. changes + n
    BY <1>2, ParametersAssumption DEF Begin, Inserted, Uncommitted
  <2> QED BY <2>1 DEF Recorded
<1>3. ASSUME NEW s \in Sessions, End(s), UNCHANGED changes,
             rows' = rows \/ rows' = rows \union pending[s]
      PROVE  Recorded'
  <2>1. Inserted' \subseteq Inserted
    BY <1>3 DEF End, Inserted, Uncommitted, CInv, Shapes
  <2>2. \A t \in Sessions : todo'[t] \subseteq todo[t]
    BY <1>3 DEF End
  <2> QED BY <1>1, <1>3, <2>1, <2>2
<1>4. ASSUME NEW s \in Sessions, NEW c \in todo[s], InsertEntry(s, c) PROVE Recorded'
  <2> DEFINE new == NewEntry(s, c)
  <2>1. /\ new = [sequence |-> new.sequence, change |-> new.change,
                  previous |-> new.previous, hash |-> new.hash]
        /\ new.change = c
    BY DEF NewEntry
  <2>2. pending' = [pending EXCEPT ![s] = @ \union {new}] /\ rows' = rows
    BY <1>4 DEF InsertEntry
  <2> HIDE DEF new
  <2>3. Inserted' \subseteq Inserted \union {new}
    BY <2>2 DEF Inserted, Uncommitted, CInv, Shapes
  <2>4. \A t \in Sessions : todo'[t] \subseteq todo[t]
    BY <1>4 DEF InsertEntry
  <2>5. changes' = changes /\ c \in Nat \ {0}
    BY <1>4 DEF InsertEntry, Recorded
  <2> QED BY <2>1, <2>3, <2>4, <2>5 DEF Recorded
<1>5. ASSUME NEW s \in Sessions, ReadTail(s) PROVE Recorded'
  BY <1>1, <1>5 DEF ReadTail, Inserted, Uncommitted
<1>6. CASE ResetDemoData
  <2>1. Inserted' \subseteq Inserted
    BY <1>6 DEF ResetDemoData, Inserted, Uncommitted
  <2> QED BY <1>1, <1>6, <2>1 DEF ResetDemoData
<1>7. CASE UNCHANGED vars
  BY <1>1, <1>7 DEF vars, Inserted, Uncommitted
<1>8. ASSUME NEW s \in Sessions, InsertConflict(s) \/ Commit(s) \/ Rollback(s) PROVE Recorded'
  BY <1>3, <1>8 DEF InsertConflict, Commit, Rollback
<1> QED BY <1>2, <1>4, <1>5, <1>6, <1>7, <1>8 DEF Next, Step

\* Entry r of the table is the next of entry q.
LEMMA Predecessor ==
  ASSUME CInv, NEW r \in rows, r.sequence # 1
  PROVE  \E q \in rows :
           q.sequence = r.sequence - 1 /\ r.previous = <<q.sequence, q.change, q.previous>>
BY DEF CInv, CommittedChained, Chained, Hashed, HashHolds, Hash, Inserted

\* Losing entries from the middle breaks the link of the first one after.
LEMMA LossIsDetected ==
  ASSUME CInv, NEW lost \in SUBSET rows, Valid(rows \ lost),
         NEW l \in lost, NEW r \in rows \ lost
  PROVE  r.sequence < l.sequence
<1> SUFFICES ASSUME ~(r.sequence < l.sequence) PROVE FALSE
  OBVIOUS
<1> DEFINE kept == rows \ lost
           Distances == {d \in Nat : \E q \in kept : q.sequence = l.sequence + d}
<1>1. \A q \in rows : q.sequence \in Nat \ {0} /\ q.hash = <<q.sequence, q.change, q.previous>>
  BY DEF CInv, Hashed, HashHolds, Hash, Inserted
<1>2. \A p, q \in rows : p.sequence = q.sequence => p = q
  BY DEF CInv, Distinct, Inserted
<1>3. Distances \subseteq Nat /\ r.sequence - l.sequence \in Distances
  BY <1>1
<1>4. PICK d \in Distances : \A e \in Distances : ~(<<e, d>> \in OpToRel(<, Nat))
  <2> HIDE DEF Distances
  <2> QED BY <1>3, WFMin, NatLessThanWellFounded
<1>5. PICK first \in kept : first.sequence = l.sequence + d
  BY <1>4
<1>6. d \in Nat /\ d # 0 /\ first.sequence # 1
  <2>1. d \in Nat /\ l.sequence \in Nat \ {0} /\ first \in rows /\ first # l
    BY <1>1
  <2>2. first.sequence # l.sequence
    BY <1>2, <2>1
  <2> QED BY <1>5, <2>1, <2>2
<1>7. PICK q \in rows :
        q.sequence = first.sequence - 1 /\ first.previous = <<q.sequence, q.change, q.previous>>
  BY <1>5, <1>6, Predecessor
<1>8. q \notin kept
  <2>1. q \in kept => d - 1 \in Distances
    BY <1>1, <1>5, <1>6, <1>7
  <2>2. <<d - 1, d>> \in OpToRel(<, Nat)
    BY <1>6 DEF OpToRel
  <2> QED BY <1>4, <2>1, <2>2
<1>9. first.previous = RunningHash(first, kept)
  BY <1>5 DEF Valid, Failing, LinkHolds
<1>10. CASE Below(first, kept) = {}
  <2>1. first.previous = <<>>
    BY <1>9, <1>10 DEF RunningHash, GENESIS_AUDIT_HASH
  <2>2. <<q.sequence, q.change, q.previous>> # <<>>
    OBVIOUS
  <2> QED BY <1>7, <2>1, <2>2
<1>11. CASE Below(first, kept) # {}
  <2> DEFINE p == Newest(Below(first, kept))
  <2>1. p \in Below(first, kept)
    <3>1. \A b \in Below(first, kept) : b.sequence \in Nat /\ b.sequence <= first.sequence
      BY <1>1, <1>5 DEF Below
    <3>2. first.sequence \in Nat
      BY <1>1, <1>5
    <3> QED BY <1>11, <3>1, <3>2, NewestExists
  <2>2. p \in kept /\ first.previous = p.hash
    BY <1>9, <1>11, <2>1 DEF RunningHash, Below
  <2> HIDE DEF p
  <2>3. <<p.sequence, p.change, p.previous>> = <<q.sequence, q.change, q.previous>>
    BY <1>1, <1>7, <2>2
  <2>4. p = q
    BY <1>2, <1>7, <2>2, <2>3
  <2> QED BY <1>8, <2>2, <2>4
<1> QED BY <1>10, <1>11

\* A changed entry is the first one that fails.
LEMMA EditIsLocated ==
  ASSUME CInv, Recorded, NEW r \in rows
  PROVE  LET edited == (rows \ {r}) \union {[r EXCEPT !.change = 0]} IN
         ~Valid(edited) /\ FailureSequence(edited) = r.sequence
<1> DEFINE e == [r EXCEPT !.change = 0]
           edited == (rows \ {r}) \union {e}
<1>1. /\ \A q \in rows : q.sequence \in Nat \ {0} /\ HashHolds(q)
      /\ \A p, q \in rows : p.sequence = q.sequence => p = q
  BY DEF CInv, Hashed, Distinct, Inserted
<1>2. /\ e.sequence = r.sequence /\ e.change = 0
      /\ e.previous = r.previous /\ e.hash = r.hash /\ r.change # 0
  <2>1. r = [sequence |-> r.sequence, change |-> r.change,
             previous |-> r.previous, hash |-> r.hash] /\ r.change # 0
    BY DEF Recorded, Inserted
  <2>2. [[sequence |-> r.sequence, change |-> r.change, previous |-> r.previous,
          hash |-> r.hash] EXCEPT !.change = 0]
          = [sequence |-> r.sequence, change |-> 0, previous |-> r.previous, hash |-> r.hash]
    OBVIOUS
  <2> QED BY <2>1, <2>2
<1> HIDE DEF e
<1>3. ~HashHolds(e)
  BY <1>1, <1>2 DEF HashHolds, Hash
<1>4. e \in Failing(edited)
  BY <1>3 DEF Failing
<1>5. ASSUME NEW q \in edited, q.sequence < r.sequence PROVE q \notin Failing(edited)
  <2>1. q \in rows /\ q # r
    BY <1>1, <1>2, <1>5
  <2>2. Below(q, edited) = Below(q, rows)
    <3>1. ~(r.sequence < q.sequence)
      BY <1>1, <1>5, <2>1
    <3> QED BY <1>2, <3>1 DEF Below
  <2>3. Valid(rows)
    BY <1>1, ChainedIsValid DEF CInv, CommittedChained
  <2>4. LinkHolds(q, rows)
    BY <2>1, <2>3 DEF Valid, Failing
  <2> QED BY <1>1, <2>1, <2>2, <2>4 DEF Failing, LinkHolds, RunningHash
<1>6. /\ r.sequence \in Sequences(Failing(edited))
      /\ \A k \in Sequences(Failing(edited)) : k \in Nat /\ r.sequence <= k
  <2>1. r.sequence \in Sequences(Failing(edited))
    BY <1>2, <1>4 DEF Sequences
  <2>2. ASSUME NEW q \in Failing(edited) PROVE q.sequence \in Nat /\ r.sequence <= q.sequence
    <3>1. q \in edited /\ q.sequence \in Nat
      BY <1>1, <1>2, <2>2 DEF Failing
    <3> QED BY <1>1, <1>5, <2>2, <3>1
  <2> QED BY <2>1, <2>2 DEF Sequences
<1>7. FailureSequence(edited) = r.sequence
  <2>1. ASSUME NEW n \in Sequences(Failing(edited)),
               \A k \in Sequences(Failing(edited)) : n <= k
        PROVE  n = r.sequence
    BY <1>6, <2>1
  <2> QED BY <1>6, <2>1 DEF FailureSequence
<1> QED BY <1>4, <1>7 DEF Valid, e

\* verify_audit_chain notices the loss of any entries but the last ones, and a
\* changed entry is the one it reports, whatever the table has become.
THEOREM VerificationDetectsDamage ==
  ASSUME ~ResetOnPostgres
  PROVE  Spec => []DamageIsDetected
<1>1. Init => Recorded
  BY DEF Init, Recorded, Inserted, Uncommitted
<1>2. CInv /\ Recorded /\ [Next]_vars => CInv' /\ Recorded'
  BY StepKeepsChain, RecordedKept
<1>3. CInv /\ Recorded => DamageIsDetected
  BY LossIsDetected, EditIsLocated DEF DamageIsDetected
<1> QED BY InitialChain, <1>1, <1>2, <1>3, PTL DEF Spec

-----------------------------------------------------------------------------
(* The maintenance commands.  A file that was written whole stays a part   *)
(* of the chain as it was, because the chain only grows until a reset      *)
(* starts a new epoch.                                                     *)

A == "audit_archive"
B == "sqlite_backup"

\* Every table is finite.
FiniteTables ==
  /\ IsFiniteSet(rows)
  /\ \A s \in Sessions : IsFiniteSet(pending[s])

\* f is what one statement once read of a table that is now `table`, in the
\* epoch of that read; the present epoch is `epoch`.
PastTable(f, table, epoch) ==
  /\ f = Whole(f.rows, f.epoch)
  /\ f.epoch \in 0 .. epoch
  /\ \A r \in f.rows : r.sequence \in Nat
  /\ f.rows # {} => \E r \in f.rows : r.sequence = Last(f.rows)
  /\ f.epoch = epoch => f.rows \subseteq table

GoodListing(f, table, epoch) == PastTable(f, table, epoch) /\ IsSegment(f.rows)

Verified(m, table, epoch) ==
  /\ GoodListing(m.digest, table, epoch)
  /\ m.valid
  /\ m.digest.epoch = m.verified_at => Last(m.digest.rows) <= m.checked

GoodBackup(f, table, epoch) ==
  /\ PastTable(f, table, epoch)
  /\ Valid(f.rows)
  /\ f.epoch = epoch => \A r \in table : r.sequence <= Last(f.rows) => r \in f.rows

ArchiveInv ==
  /\ left[A] \in {<<>>, <<"verify", "write", "sign">>, <<"write", "sign">>, <<"sign">>}
  /\ left[A] # <<>> => GoodListing(held[A].digest, rows, resets)
  /\ left[A] \in {<<"write", "sign">>, <<"sign">>} => Verified(held[A], rows, resets)
  /\ manifest["archive"] = Nothing \/ Verified(manifest["archive"], rows, resets)

BackupInv ==
  /\ left[B] \in {<<>>, <<"begin_copy", "end_copy", "sign">>, <<"end_copy", "sign">>, <<"sign">>}
  /\ left[B] = <<"end_copy", "sign">> => GoodBackup(held[B].snapshot, rows, resets)
  /\ left[B] = <<"sign">> => GoodBackup(file["backup"], rows, resets)
  /\ manifest["backup"] = Nothing \/ GoodBackup(manifest["backup"].digest, rows, resets)

MShapes ==
  /\ left = [c \in Commands |-> left[c]]
  /\ held = [c \in Commands |-> held[c]]
  /\ file = [f \in {"archive", "backup", "restored"} |-> file[f]]
  /\ manifest = [f \in {"archive", "backup"} |-> manifest[f]]
  /\ resets \in Nat

MInv == CInv /\ FiniteTables /\ MShapes /\ ArchiveInv /\ BackupInv

\* What a file holds does not become false as the store goes on.
LEMMA CopiesAge ==
  ASSUME CInv, CInv', [Next]_vars, resets \in Nat
  PROVE  /\ resets' \in Nat
         /\ \A f : GoodListing(f, rows, resets) => GoodListing(f, rows', resets')
         /\ \A f : GoodBackup(f, rows, resets) => GoodBackup(f, rows', resets')
         /\ \A m : Verified(m, rows, resets) => Verified(m, rows', resets')
<1>1. CASE resets' = resets + 1
  <2>1. \A f : f.epoch \in 0 .. resets => f.epoch \in 0 .. resets' /\ f.epoch # resets'
    BY <1>1
  <2> QED BY <1>1, <2>1 DEF GoodListing, GoodBackup, Verified, PastTable
<1>2. CASE /\ resets' = resets /\ rows \subseteq rows'
           /\ \A r \in rows' \ rows, q \in rows : q.sequence < r.sequence
  <2>1. ASSUME NEW f, PastTable(f, rows, resets) PROVE PastTable(f, rows', resets')
    BY <1>2, <2>1 DEF PastTable
  <2>2. ASSUME NEW f, GoodBackup(f, rows, resets) PROVE GoodBackup(f, rows', resets')
    <3> SUFFICES ASSUME f.epoch = resets, NEW r \in rows' \ rows PROVE ~(r.sequence <= Last(f.rows))
      BY <1>2, <2>1, <2>2 DEF GoodBackup
    <3>1. r.sequence \in Nat \ {0}
      BY DEF CInv, Hashed, Inserted
    <3>2. CASE f.rows = {}
      BY <3>1, <3>2 DEF Last
    <3>3. CASE f.rows # {}
      <4>1. PICK q \in f.rows : q.sequence = Last(f.rows) /\ q \in rows /\ q.sequence \in Nat
        BY <2>2, <3>3 DEF GoodBackup, PastTable
      <4> QED BY <1>2, <3>1, <4>1
    <3> QED BY <3>2, <3>3
  <2> QED BY <1>2, <2>1, <2>2 DEF GoodListing, Verified
<1> QED BY <1>1, <1>2, AppendOnlyStep

\* A step of the store keeps the table finite.
LEMMA TablesStayFinite ==
  ASSUME CInv, FiniteTables, [Next]_vars
  PROVE  FiniteTables'
<1>1. ASSUME rows' \in {rows, {}}, \A s \in Sessions : pending'[s] \in {pending[s], {}}
      PROVE  FiniteTables'
  BY <1>1, FS_EmptySet DEF FiniteTables
<1>2. ASSUME NEW s \in Sessions, End(s)
      PROVE  \A t \in Sessions : pending'[t] \in {pending[t], {}}
  BY <1>2 DEF End, CInv, Shapes
<1>3. ASSUME NEW s \in Sessions, Commit(s) PROVE FiniteTables'
  <2>1. IsFiniteSet(rows \union pending[s])
    BY FS_Union DEF FiniteTables
  <2> QED BY <1>2, <1>3, <2>1, FS_EmptySet DEF Commit, FiniteTables
<1>4. ASSUME NEW s \in Sessions, NEW c \in todo[s], InsertEntry(s, c) PROVE FiniteTables'
  <2>1. IsFiniteSet(pending[s] \union {NewEntry(s, c)})
    BY FS_AddElement DEF FiniteTables
  <2>2. \A t \in Sessions : pending'[t] \in {pending[t], pending[s] \union {NewEntry(s, c)}}
    BY <1>4 DEF InsertEntry, CInv, Shapes
  <2> QED BY <1>4, <2>1, <2>2 DEF InsertEntry, FiniteTables
<1>5. ASSUME NEW s \in Sessions, InsertConflict(s) \/ Rollback(s) PROVE FiniteTables'
  BY <1>1, <1>2, <1>5 DEF InsertConflict, Rollback
<1>6. ASSUME NEW s \in Sessions, ReadTail(s) PROVE FiniteTables'
  BY <1>1, <1>6 DEF ReadTail
<1>7. ASSUME NEW s \in Sessions, NEW n, Begin(s, n) PROVE FiniteTables'
  BY <1>1, <1>7 DEF Begin
<1>8. CASE ResetDemoData
  BY <1>1, <1>8 DEF ResetDemoData
<1>9. CASE UNCHANGED vars
  BY <1>1, <1>9 DEF vars
<1> QED BY <1>3, <1>4, <1>5, <1>6, <1>7, <1>8, <1>9 DEF Next, Step

-----------------------------------------------------------------------------
(* What one statement reads of the table.                                  *)

\* The image of a finite set is finite and no larger.
LEMMA FiniteImage ==
  ASSUME NEW S, IsFiniteSet(S), NEW f, f = [x \in S |-> f[x]]
  PROVE  /\ IsFiniteSet({f[x] : x \in S})
         /\ Cardinality({f[x] : x \in S}) <= Cardinality(S)
<1>1. f \in Surjection(S, {f[x] : x \in S})
  BY DEF Surjection
<1> QED BY <1>1, FS_Surjection

\* The chain starts at 1, so a valid table of n entries ends at n.
LEMMA SequenceIsCounted ==
  ASSUME CInv, IsFiniteSet(rows), NEW r \in rows
  PROVE  r.sequence <= Cardinality(rows)
<1> DEFINE f == [q \in rows |-> q.sequence]
           Image == {f[q] : q \in rows}
<1>1. r.sequence \in Nat \ {0}
  BY DEF CInv, Hashed, Inserted
<1>2. 1 .. r.sequence \subseteq Image
  <2> SUFFICES ASSUME NEW k \in 1 .. r.sequence PROVE k \in Image
    OBVIOUS
  <2>1. PICK q \in rows : q.sequence = k
    BY NoGaps
  <2> QED BY <2>1
<1>3. IsFiniteSet(Image) /\ Cardinality(Image) <= Cardinality(rows)
  <2>1. f = [q \in rows |-> f[q]]
    OBVIOUS
  <2> HIDE DEF f
  <2> QED BY <2>1, FiniteImage
<1> HIDE DEF Image
<1>4. Cardinality(1 .. r.sequence) <= Cardinality(Image)
  BY <1>2, <1>3, FS_Subset
<1>5. Cardinality(1 .. r.sequence) = r.sequence
  BY <1>1, FS_Interval
<1>6. Cardinality(Image) \in Nat /\ Cardinality(rows) \in Nat
  BY <1>3, FS_CardinalityType
<1> QED BY <1>1, <1>3, <1>4, <1>5, <1>6

\* A part of the table has a last entry.
LEMMA PartHasLast ==
  ASSUME CInv, NEW part \in SUBSET rows, part # {}
  PROVE  /\ Newest(part) \in part /\ Last(part) = Newest(part).sequence
         /\ \A r \in part : r.sequence <= Last(part)
<1>1. PICK n \in Nat : \A r \in Inserted : r.sequence <= n
  BY DEF CInv, Bounded
<1>2. \A r \in part : r.sequence \in Nat /\ r.sequence <= n
  BY <1>1 DEF CInv, Hashed, Inserted
<1> QED BY <1>2, NewestExists DEF Last

LEMMA PartIsPast ==
  ASSUME CInv, resets \in Nat, NEW part \in SUBSET rows
  PROVE  PastTable(Whole(part, resets), rows, resets)
<1>1. Whole(part, resets).rows = part /\ Whole(part, resets).epoch = resets
  BY DEF Whole
<1>2. \A r \in part : r.sequence \in Nat
  BY DEF CInv, Hashed, Inserted
<1>3. part # {} => \E r \in part : r.sequence = Last(part)
  BY PartHasLast
<1> QED BY <1>1, <1>2, <1>3 DEF PastTable

LEMMA SnapshotIsGood ==
  ASSUME CInv, resets \in Nat
  PROVE  GoodBackup(Snapshot, rows, resets)
<1>1. Snapshot.rows = rows
  BY DEF Snapshot, Whole
<1>2. Valid(rows)
  BY ChainedIsValid DEF CInv, Hashed, Distinct, CommittedChained, Inserted
<1>3. PastTable(Snapshot, rows, resets)
  BY PartIsPast DEF Snapshot
<1> QED BY <1>1, <1>2, <1>3 DEF GoodBackup

\* The newest entries of the table are consecutive.
LEMMA ListingIsGood ==
  ASSUME CInv, IsFiniteSet(rows), resets \in Nat
  PROVE  GoodListing(Whole(ListAuditEntries(rows, Limit), resets), rows, resets)
<1> DEFINE list == ListAuditEntries(rows, Limit)
           NotOlder(r) == {q \in rows : r.sequence <= q.sequence}
<1>1. /\ list \subseteq rows
      /\ \A r \in rows : r.sequence \in Nat \ {0} /\ HashHolds(r)
      /\ \A r, q \in rows : r.sequence = q.sequence => r = q
  BY DEF ListAuditEntries, CInv, Hashed, Distinct, Inserted
<1>2. ASSUME NEW r \in list, NEW q \in list, q.sequence + 1 = r.sequence
      PROVE  r.previous = q.hash
  <2>1. r.sequence # 1
    BY <1>1, <1>2
  <2>2. PICK p \in rows :
          p.sequence = r.sequence - 1 /\ r.previous = <<p.sequence, p.change, p.previous>>
    BY <1>1, <2>1, Predecessor
  <2>3. p = q
    BY <1>1, <1>2, <2>2
  <2> QED BY <1>1, <2>2, <2>3 DEF HashHolds, Hash
<1>3. ASSUME NEW r \in list, r.sequence # Last(list)
      PROVE  \E q \in list : q.sequence = r.sequence + 1
  <2>1. Newest(list) \in list /\ r.sequence <= Newest(list).sequence
        /\ Newest(list).sequence # r.sequence
    BY <1>1, <1>3, PartHasLast
  <2>2. r.sequence + 1 \in 1 .. Newest(list).sequence /\ Newest(list) \in rows
    BY <1>1, <2>1
  <2>3. PICK q \in rows : q.sequence = r.sequence + 1
    BY <2>2, NoGaps
  <2>4. NotOlder(q) \subseteq NotOlder(r)
    BY <1>1, <2>3
  <2>5. IsFiniteSet(NotOlder(r)) /\ IsFiniteSet(NotOlder(q))
    BY FS_Subset
  <2>6. Cardinality(NotOlder(q)) <= Cardinality(NotOlder(r))
        /\ Cardinality(NotOlder(q)) \in Nat /\ Cardinality(NotOlder(r)) \in Nat
    BY <2>4, <2>5, FS_Subset, FS_CardinalityType
  <2>7. Cardinality(NotOlder(r)) <= Limit
    BY DEF ListAuditEntries
  <2>8. Cardinality(NotOlder(q)) <= Limit
    <3> HIDE DEF NotOlder
    <3> QED BY <2>6, <2>7, MaintenanceAssumption
  <2>9. q \in list
    BY <2>8 DEF ListAuditEntries
  <2> QED BY <2>3, <2>9
<1>4. IsSegment(list)
  BY <1>1, <1>2, <1>3 DEF IsSegment
<1> HIDE DEF list
<1>5. Whole(list, resets).rows = list
  BY DEF Whole
<1> QED BY <1>1, <1>4, <1>5, PartIsPast DEF GoodListing, list

\* What verify_audit_chain answers, about entries listed before.
LEMMA CheckedCoversListed ==
  ASSUME CInv, IsFiniteSet(rows), NEW f, GoodListing(f, rows, resets)
  PROVE  Valid(rows) /\ (f.epoch = resets => Last(f.rows) <= EntriesChecked(rows))
<1>1. Valid(rows)
  BY ChainedIsValid DEF CInv, Hashed, Distinct, CommittedChained, Inserted
<1>2. EntriesChecked(rows) = Cardinality(rows) /\ Cardinality(rows) \in Nat
  BY <1>1, FS_CardinalityType DEF EntriesChecked
<1>3. ASSUME f.epoch = resets PROVE Last(f.rows) <= Cardinality(rows)
  <2>1. CASE f.rows = {}
    BY <1>2, <2>1 DEF Last
  <2>2. CASE f.rows # {}
    <3>1. PICK r \in f.rows : r.sequence = Last(f.rows) /\ r \in rows
      BY <1>3, <2>2 DEF GoodListing, PastTable
    <3> QED BY <3>1, SequenceIsCounted
  <2> QED BY <2>1, <2>2
<1> QED BY <1>1, <1>2, <1>3

-----------------------------------------------------------------------------
(* The steps of the commands.                                              *)

\* The archive command takes its steps in their order.
LEMMA ArchiveSteps ==
  ASSUME ArchiveInv, NEW step, At(A, step)
  PROVE  \/ step = "list" /\ left' = [left EXCEPT ![A] = <<"verify", "write", "sign">>]
         \/ /\ step = "verify" /\ left[A] = <<"verify", "write", "sign">>
            /\ left' = [left EXCEPT ![A] = <<"write", "sign">>]
         \/ /\ step = "write" /\ left[A] = <<"write", "sign">>
            /\ left' = [left EXCEPT ![A] = <<"sign">>]
         \/ step = "sign" /\ left[A] = <<"sign">> /\ left' = [left EXCEPT ![A] = <<>>]
<1>1. CASE left[A] = <<>>
  <2>1. Steps[A] = <<"list", "verify", "write", "sign">>
    BY DEF Steps, A
  <2> QED BY <1>1, <2>1 DEF At
<1>2. CASE left[A] = <<"verify", "write", "sign">>
  BY <1>2 DEF At
<1>3. CASE left[A] = <<"write", "sign">>
  BY <1>3 DEF At
<1>4. CASE left[A] = <<"sign">>
  BY <1>4 DEF At
<1> QED BY <1>1, <1>2, <1>3, <1>4 DEF ArchiveInv

\* So does the backup command.
LEMMA BackupSteps ==
  ASSUME BackupInv, NEW step, At(B, step)
  PROVE  \/ step = "unlink" /\ left' = [left EXCEPT ![B] = <<"begin_copy", "end_copy", "sign">>]
         \/ /\ step = "begin_copy" /\ left[B] = <<"begin_copy", "end_copy", "sign">>
            /\ left' = [left EXCEPT ![B] = <<"end_copy", "sign">>]
         \/ /\ step = "end_copy" /\ left[B] = <<"end_copy", "sign">>
            /\ left' = [left EXCEPT ![B] = <<"sign">>]
         \/ step = "sign" /\ left[B] = <<"sign">> /\ left' = [left EXCEPT ![B] = <<>>]
<1>1. CASE left[B] = <<>>
  <2>1. Steps[B] = <<"unlink", "begin_copy", "end_copy", "sign">>
    BY DEF Steps, B
  <2> QED BY <1>1, <2>1 DEF At
<1>2. CASE left[B] = <<"begin_copy", "end_copy", "sign">>
  BY <1>2 DEF At
<1>3. CASE left[B] = <<"end_copy", "sign">>
  BY <1>3 DEF At
<1>4. CASE left[B] = <<"sign">>
  BY <1>4 DEF At
<1> QED BY <1>1, <1>2, <1>3, <1>4 DEF BackupInv

\* A step of the archive command keeps what is known about the archive.
LEMMA ArchiveKeepsArchive ==
  ASSUME MInv, UNCHANGED vars, ArchiveLists \/ ArchiveVerifies \/ ArchiveWrites \/ ArchiveSigns
  PROVE  ArchiveInv'
<1> USE DEF MInv
<1>1. /\ A \in Commands /\ rows' = rows /\ resets' = resets
      /\ left = [c \in Commands |-> left[c]] /\ held = [c \in Commands |-> held[c]]
      /\ manifest = [f \in {"archive", "backup"} |-> manifest[f]]
  BY DEF vars, A, Commands, MShapes
<1>2. CASE ArchiveLists
  <2>1. left' = [left EXCEPT ![A] = <<"verify", "write", "sign">>]
    BY <1>2, ArchiveSteps DEF ArchiveLists, Archive, A
  <2>2. left'[A] = <<"verify", "write", "sign">>
    BY <1>1, <2>1
  <2>3. held'[A].digest = Whole(ListAuditEntries(rows, Limit), resets) /\ manifest' = manifest
    BY <1>1, <1>2 DEF ArchiveLists, Archive, Holds, A
  <2>4. GoodListing(held'[A].digest, rows', resets')
    BY <1>1, <2>3, ListingIsGood DEF FiniteTables, MShapes
  <2> QED BY <1>1, <2>2, <2>3, <2>4 DEF ArchiveInv
<1>3. CASE ArchiveVerifies
  <2>1. left[A] = <<"verify", "write", "sign">> /\ left' = [left EXCEPT ![A] = <<"write", "sign">>]
    BY <1>3, ArchiveSteps DEF ArchiveVerifies, Archive, A
  <2>2. left'[A] = <<"write", "sign">>
    BY <1>1, <2>1
  <2>3. /\ held'[A].digest = held[A].digest /\ held'[A].valid = Valid(rows)
        /\ held'[A].checked = EntriesChecked(rows) /\ held'[A].verified_at = resets
        /\ manifest' = manifest
    BY <1>1, <1>3 DEF ArchiveVerifies, Archive, Holds, A
  <2>4. GoodListing(held[A].digest, rows, resets)
    BY <2>1 DEF ArchiveInv
  <2>5. Verified(held'[A], rows', resets')
    BY <1>1, <2>3, <2>4, CheckedCoversListed DEF Verified, FiniteTables
  <2> QED BY <1>1, <2>2, <2>3, <2>4, <2>5 DEF ArchiveInv
<1>4. CASE ArchiveWrites
  <2>1. left[A] = <<"write", "sign">> /\ left' = [left EXCEPT ![A] = <<"sign">>]
    BY <1>4, ArchiveSteps DEF ArchiveWrites, A
  <2>2. left'[A] = <<"sign">>
    BY <1>1, <2>1
  <2> QED BY <1>1, <1>4, <2>1, <2>2 DEF ArchiveWrites, ArchiveInv
<1>5. CASE ArchiveSigns
  <2>1. left[A] = <<"sign">> /\ left' = [left EXCEPT ![A] = <<>>]
    BY <1>5, ArchiveSteps DEF ArchiveSigns, A
  <2>2. left'[A] = <<>>
    BY <1>1, <2>1
  <2>3. manifest'["archive"] = held[A]
    BY <1>1, <1>5 DEF ArchiveSigns, A
  <2> QED BY <1>1, <2>1, <2>2, <2>3 DEF ArchiveInv
<1> QED BY <1>2, <1>3, <1>4, <1>5

\* A step of the backup command keeps what is known about the backup.
LEMMA BackupKeepsBackup ==
  ASSUME MInv, UNCHANGED vars, BackupUnlinks \/ BackupBeginsCopy \/ BackupEndsCopy \/ BackupSigns
  PROVE  BackupInv'
<1> USE DEF MInv
<1>1. /\ B \in Commands /\ rows' = rows /\ resets' = resets
      /\ left = [c \in Commands |-> left[c]] /\ held = [c \in Commands |-> held[c]]
      /\ file = [f \in {"archive", "backup", "restored"} |-> file[f]]
      /\ manifest = [f \in {"archive", "backup"} |-> manifest[f]]
  BY DEF vars, B, Commands, MShapes
<1>2. CASE BackupUnlinks
  <2>1. left' = [left EXCEPT ![B] = <<"begin_copy", "end_copy", "sign">>] /\ manifest' = manifest
    BY <1>2, BackupSteps DEF BackupUnlinks, B
  <2>2. left'[B] = <<"begin_copy", "end_copy", "sign">>
    BY <1>1, <2>1
  <2> QED BY <1>1, <2>1, <2>2 DEF BackupInv
<1>3. CASE BackupBeginsCopy
  <2>1. left' = [left EXCEPT ![B] = <<"end_copy", "sign">>] /\ manifest' = manifest
    BY <1>3, BackupSteps DEF BackupBeginsCopy, B
  <2>2. left'[B] = <<"end_copy", "sign">>
    BY <1>1, <2>1
  <2>3. held'[B].snapshot = Snapshot
    BY <1>1, <1>3 DEF BackupBeginsCopy, Holds, B
  <2>4. GoodBackup(held'[B].snapshot, rows', resets')
    BY <1>1, <2>3, SnapshotIsGood DEF MShapes
  <2> QED BY <1>1, <2>1, <2>2, <2>4 DEF BackupInv
<1>4. CASE BackupEndsCopy
  <2>1. left[B] = <<"end_copy", "sign">> /\ left' = [left EXCEPT ![B] = <<"sign">>]
        /\ manifest' = manifest
    BY <1>4, BackupSteps DEF BackupEndsCopy, B
  <2>2. left'[B] = <<"sign">>
    BY <1>1, <2>1
  <2>3. file'["backup"] = held[B].snapshot
    BY <1>1, <1>4 DEF BackupEndsCopy, B
  <2> QED BY <1>1, <2>1, <2>2, <2>3 DEF BackupInv
<1>5. CASE BackupSigns
  <2>1. left[B] = <<"sign">> /\ left' = [left EXCEPT ![B] = <<>>]
    BY <1>5, BackupSteps DEF BackupSigns, B
  <2>2. left'[B] = <<>>
    BY <1>1, <2>1
  <2>3. manifest'["backup"].digest = file["backup"]
    BY <1>1, <1>5 DEF BackupSigns
  <2> QED BY <1>1, <2>1, <2>2, <2>3 DEF BackupInv
<1> QED BY <1>2, <1>3, <1>4, <1>5

\* Steps that are not about the archive, or not about the backup.
LEMMA ArchiveUntouched ==
  ASSUME ArchiveInv, UNCHANGED vars, left'[A] = left[A], held'[A] = held[A],
         manifest'["archive"] = manifest["archive"]
  PROVE  ArchiveInv'
BY DEF ArchiveInv, vars

LEMMA BackupUntouched ==
  ASSUME BackupInv, UNCHANGED vars, left'[B] = left[B], held'[B] = held[B],
         file'["backup"] = file["backup"], manifest'["backup"] = manifest["backup"]
  PROVE  BackupInv'
BY DEF BackupInv, vars

\* Every step of a maintenance command keeps the invariant.
LEMMA MaintenanceKeeps ==
  ASSUME MInv, Maintains, UNCHANGED vars
  PROVE  MShapes' /\ ArchiveInv' /\ BackupInv'
<1> USE DEF MInv
<1>1. /\ A \in Commands /\ B \in Commands /\ A # B /\ resets \in Nat
      /\ left = [c \in Commands |-> left[c]] /\ held = [c \in Commands |-> held[c]]
      /\ file = [f \in {"archive", "backup", "restored"} |-> file[f]]
      /\ manifest = [f \in {"archive", "backup"} |-> manifest[f]]
  BY DEF A, B, Commands, MShapes
<1>2. CASE ArchiveLists \/ ArchiveVerifies \/ ArchiveWrites \/ ArchiveSigns
  <2>1. PICK l : left' = [left EXCEPT ![A] = l]
    BY <1>2 DEF ArchiveLists, ArchiveVerifies, Archive, ArchiveWrites, ArchiveSigns, At, A
  <2>2. PICK h : held' = [held EXCEPT ![A] = h] \/ held' = held
    BY <1>2 DEF ArchiveLists, ArchiveVerifies, Archive, ArchiveWrites, ArchiveSigns, Holds, Forgets, A
  <2>3. PICK f : file' = [file EXCEPT !["archive"] = f] \/ file' = file
    BY <1>2 DEF ArchiveLists, ArchiveVerifies, Archive, ArchiveWrites, ArchiveSigns
  <2>4. PICK m : manifest' = [manifest EXCEPT !["archive"] = m] \/ manifest' = manifest
    BY <1>2 DEF ArchiveLists, ArchiveVerifies, Archive, ArchiveWrites, ArchiveSigns
  <2>5. MShapes'
    BY <1>1, <2>1, <2>2, <2>3, <2>4 DEF MShapes, vars
  <2>6. left'[B] = left[B] /\ held'[B] = held[B]
    BY <1>1, <2>1, <2>2
  <2>7. file'["backup"] = file["backup"] /\ manifest'["backup"] = manifest["backup"]
    BY <1>1, <2>3, <2>4
  <2>8. BackupInv'
    BY <2>6, <2>7, BackupUntouched
  <2> QED BY <1>2, <2>5, <2>8, ArchiveKeepsArchive
<1>3. CASE BackupUnlinks \/ BackupBeginsCopy \/ BackupEndsCopy \/ BackupSigns
  <2>1. PICK l : left' = [left EXCEPT ![B] = l]
    BY <1>3 DEF BackupUnlinks, BackupBeginsCopy, BackupEndsCopy, BackupSigns, At, B
  <2>2. PICK h : held' = [held EXCEPT ![B] = h] \/ held' = held
    BY <1>3 DEF BackupUnlinks, BackupBeginsCopy, BackupEndsCopy, BackupSigns, Holds, Forgets, B
  <2>3. PICK f : file' = [file EXCEPT !["backup"] = f] \/ file' = file
    BY <1>3 DEF BackupUnlinks, BackupBeginsCopy, BackupEndsCopy, BackupSigns
  <2>4. PICK m : manifest' = [manifest EXCEPT !["backup"] = m] \/ manifest' = manifest
    BY <1>3 DEF BackupUnlinks, BackupBeginsCopy, BackupEndsCopy, BackupSigns
  <2>5. MShapes'
    BY <1>1, <2>1, <2>2, <2>3, <2>4 DEF MShapes, vars
  <2>6. left'[A] = left[A] /\ held'[A] = held[A]
    BY <1>1, <2>1, <2>2
  <2>7. manifest'["archive"] = manifest["archive"]
    BY <1>1, <2>4
  <2>8. ArchiveInv'
    BY <2>6, <2>7, ArchiveUntouched
  <2> QED BY <1>3, <2>5, <2>8, BackupKeepsBackup
<1>4. CASE RestoreCopies
  <2>1. PICK l : left' = [left EXCEPT !["sqlite_restore"] = l]
    BY <1>4 DEF RestoreCopies, At
  <2>2. PICK f : file' = [file EXCEPT !["restored"] = f]
    BY <1>4 DEF RestoreCopies
  <2>3. held' = held /\ manifest' = manifest
    BY <1>4 DEF RestoreCopies
  <2>4. MShapes'
    BY <1>1, <2>1, <2>2, <2>3 DEF MShapes, vars
  <2>5. left'[A] = left[A] /\ left'[B] = left[B]
    BY <1>1, <2>1 DEF A, B
  <2>6. file'["backup"] = file["backup"]
    BY <1>1, <2>2
  <2> QED BY <2>3, <2>4, <2>5, <2>6, ArchiveUntouched, BackupUntouched
<1>5. ASSUME NEW c \in Commands, Killed(c) PROVE MShapes' /\ ArchiveInv' /\ BackupInv'
  <2>1. /\ left' = [left EXCEPT ![c] = <<>>] /\ held' = [held EXCEPT ![c] = Nothing]
        /\ file' = file \/ file' = [file EXCEPT !["archive"] = Torn]
        /\ manifest' = manifest
    BY <1>5 DEF Killed, Forgets
  <2>2. MShapes'
    BY <1>1, <2>1 DEF MShapes, vars
  <2>3. left'[A] = <<>> \/ (left'[A] = left[A] /\ held'[A] = held[A])
    BY <1>1, <2>1
  <2>4. left'[B] = <<>> \/ (left'[B] = left[B] /\ held'[B] = held[B])
    BY <1>1, <2>1
  <2>5. file'["backup"] = file["backup"]
    BY <1>1, <2>1
  <2>6. ArchiveInv'
    <3>1. CASE left'[A] = <<>>
      BY <2>1, <3>1 DEF ArchiveInv, vars
    <3> QED BY <2>1, <2>3, <3>1, ArchiveUntouched
  <2>7. BackupInv'
    <3>1. CASE left'[B] = <<>>
      BY <2>1, <3>1 DEF BackupInv, vars
    <3> QED BY <2>1, <2>4, <2>5, <3>1, BackupUntouched
  <2> QED BY <2>2, <2>6, <2>7
<1> QED BY <1>2, <1>3, <1>4, <1>5 DEF Maintains

\* So does every step of the store, whatever the commands have read.
LEMMA StoreKeepsCopies ==
  ASSUME ~ResetOnPostgres, MInv, [Next]_vars, UNCHANGED mvars
  PROVE  MInv'
<1> USE DEF MInv
<1>1. CInv' /\ FiniteTables'
  BY StepKeepsChain, TablesStayFinite
<1>2. UNCHANGED <<left, held, file, manifest>>
  BY DEF mvars
<1>3. MShapes'
  BY <1>1, <1>2, CopiesAge DEF MShapes
<1>4. ArchiveInv'
  <2>1. \A m : Verified(m, rows, resets) => Verified(m, rows', resets')
    BY <1>1, CopiesAge DEF MShapes
  <2>2. \A f : GoodListing(f, rows, resets) => GoodListing(f, rows', resets')
    BY <1>1, CopiesAge DEF MShapes
  <2> QED BY <1>2, <2>1, <2>2 DEF ArchiveInv
<1>5. BackupInv'
  <2>1. \A f : GoodBackup(f, rows, resets) => GoodBackup(f, rows', resets')
    BY <1>1, CopiesAge DEF MShapes
  <2> QED BY <1>2, <2>1 DEF BackupInv
<1> QED BY <1>1, <1>3, <1>4, <1>5

LEMMA MaintenanceInvariant ==
  ASSUME ~ResetOnPostgres
  PROVE  MSpec => []MInv
<1>1. MInit => MInv
  <2> SUFFICES ASSUME MInit PROVE MInv
    OBVIOUS
  <2>1. CInv
    BY InitialChain DEF MInit
  <2>2. FiniteTables
    BY FS_EmptySet DEF MInit, Init, FiniteTables
  <2>3. A \in Commands /\ B \in Commands
    BY DEF A, B, Commands
  <2> QED BY <2>1, <2>2, <2>3 DEF MInit, Init, MInv, MShapes, ArchiveInv, BackupInv
<1>2. MInv /\ [MNext]_<<vars, mvars>> => MInv'
  <2> SUFFICES ASSUME MInv, [MNext]_<<vars, mvars>> PROVE MInv'
    OBVIOUS
  <2>1. CASE [Next]_vars /\ UNCHANGED mvars
    BY <2>1, StoreKeepsCopies
  <2>2. CASE Maintains /\ UNCHANGED vars
    <3>1. CInv' /\ FiniteTables'
      BY <2>2, StepKeepsChain, TablesStayFinite DEF MInv
    <3> QED BY <2>2, <3>1, MaintenanceKeeps DEF MInv
  <2> QED BY <2>1, <2>2 DEF MNext
<1> QED BY <1>1, <1>2, PTL DEF MSpec

\* Whatever is written while an archive is made, and wherever earlier archive
\* commands were killed: an archive that its manifest signs is an unbroken part
\* of the chain, verified as far as it goes.
THEOREM ArchivesAreVerified ==
  ASSUME ~ResetOnPostgres
  PROVE  MSpec => []ArchiveIsVerified
<1>1. MInv => ArchiveIsVerified
  <2> SUFFICES ASSUME MInv, file["archive"] # Absent, manifest["archive"].digest = file["archive"]
               PROVE  /\ file["archive"].is = "whole" /\ IsSegment(file["archive"].rows)
                      /\ manifest["archive"].valid
                      /\ file["archive"].epoch = manifest["archive"].verified_at =>
                            Last(file["archive"].rows) <= manifest["archive"].checked
                      /\ file["archive"].epoch = resets => file["archive"].rows \subseteq rows
    BY DEF ArchiveIsVerified
  <2>1. manifest["archive"] # Nothing
    BY DEF Nothing, Archive
  <2>2. Verified(manifest["archive"], rows, resets)
    BY <2>1 DEF MInv, ArchiveInv
  <2>3. \A t, n : Whole(t, n).is = "whole"
    BY DEF Whole
  <2> QED BY <2>2, <2>3 DEF Verified, GoodListing, PastTable
<1> QED BY <1>1, MaintenanceInvariant, PTL

\* However a backup, a restore, kills and the store's transactions interleave, one
\* backup and one restore running at a time: a restored file that the backup's
\* manifest signs is a table the store had.
THEOREM RestoresArePastStores ==
  ASSUME ~ResetOnPostgres
  PROVE  MSpec => []RestoredIsAPastStore
<1>1. MInv => RestoredIsAPastStore
  <2> DEFINE restored == file["restored"]
  <2> SUFFICES ASSUME MInv, restored # Absent, manifest["backup"].digest = restored
               PROVE  /\ restored.is = "whole" /\ Valid(restored.rows)
                      /\ restored.epoch = resets =>
                           restored.rows = {r \in rows : r.sequence <= Last(restored.rows)}
    BY DEF RestoredIsAPastStore
  <2>1. manifest["backup"] # Nothing
    BY DEF Nothing, Archive
  <2>2. GoodBackup(restored, rows, resets)
    BY <2>1 DEF MInv, BackupInv
  <2>3. \A t, n : Whole(t, n).is = "whole"
    BY DEF Whole
  <2> HIDE DEF restored
  <2>4. ASSUME restored.epoch = resets, NEW r \in restored.rows
        PROVE  r \in rows /\ r.sequence <= Last(restored.rows)
    <3>1. restored.rows \subseteq rows /\ restored.rows # {}
      BY <2>2, <2>4 DEF GoodBackup, PastTable
    <3> QED BY <3>1, PartHasLast DEF MInv
  <2> QED BY <2>2, <2>3, <2>4 DEF GoodBackup, PastTable
<1> QED BY <1>1, MaintenanceInvariant, PTL
=============================================================================
