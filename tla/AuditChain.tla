----------------------------- MODULE AuditChain -----------------------------
(***************************************************************************)
(* The hash-chained audit log of storage/sqlite_store.py and               *)
(* storage/postgres_store.py.  Every operation that changes the database   *)
(* ends its transaction with _append_audit: read the newest entry, hash    *)
(* the new one over it, insert.  verify_audit_chain walks the table.       *)
(*                                                                         *)
(* SQLite takes its write lock before the tail is read, because another    *)
(* statement of the same transaction has already written.  Postgres runs   *)
(* at READ COMMITTED: two transactions may read the same tail, and only    *)
(* the primary key on `sequence` keeps their entries apart.                *)
(*                                                                         *)
(* A SHA-256 digest is modelled by the tuple of what it digests: digests   *)
(* are equal exactly when their inputs are.                                *)
(***************************************************************************)
EXTENDS Naturals, FiniteSets

CONSTANTS
  Sessions,          \* database connections, one per API call or CLI process
  Backends,          \* subset of {"sqlite", "postgres"}
  BatchSizes,        \* entries one transaction appends (add_events: several)
  ResetOnPostgres,   \* whether reset_demo_data may run on Postgres
  MaxChanges,        \* bound: audited changes attempted
  MaxResets          \* bound: demo resets

ASSUME ParametersAssumption ==
  /\ Backends \subseteq {"sqlite", "postgres"}
  /\ BatchSizes \subseteq Nat \ {0}
  /\ ResetOnPostgres \in BOOLEAN
  /\ MaxChanges \in Nat
  /\ MaxResets \in Nat

GENESIS_AUDIT_HASH == <<>>

\* _hash_json(_audit_hash_payload(...)): created_at, actor, action, target and
\* trace are part of `change`, the identity of the audited change.
Hash(sequence, change, previous) == <<sequence, change, previous>>

VARIABLES
  backend,   \* which store the deployment uses
  rows,      \* committed rows of audit_entries
  pending,   \* rows each session has inserted and not committed
  pc,        \* where each session is: "idle", "begun", "read"
  tail,      \* the newest entry it read: [sequence, hash]
  todo,      \* the audited changes its transaction still has to append
  changes,   \* audited changes attempted so far
  resets     \* demo resets so far

vars == <<backend, rows, pending, pc, tail, todo, changes, resets>>

NoTail == [sequence |-> 0, hash |-> GENESIS_AUDIT_HASH]

Init ==
  /\ backend \in Backends
  /\ rows = {}
  /\ pending = [s \in Sessions |-> {}]
  /\ pc = [s \in Sessions |-> "idle"]
  /\ tail = [s \in Sessions |-> NoTail]
  /\ todo = [s \in Sessions |-> {}]
  /\ changes = 0
  /\ resets = 0

Uncommitted == UNION {pending[s] : s \in Sessions}

\* Fault: the rows the transaction itself inserted are not read back.
Visible_CommittedOnly(s) == rows

\* What a statement of session s sees.
Visible(s) == rows \union pending[s]

Sequences(table) == {r.sequence : r \in table}

Newest(table) == CHOOSE r \in table : \A q \in table : q.sequence <= r.sequence

\* SQLite lets one transaction write at a time.
WriteLockFree == backend = "sqlite" => \A s \in Sessions : pc[s] = "idle"

\* The operation's own INSERT, UPDATE or DELETE opens its transaction, which
\* is about n audited changes.
Begin(s, n) ==
  /\ pc[s] = "idle"
  /\ WriteLockFree
  /\ changes + n <= MaxChanges
  /\ pc' = [pc EXCEPT ![s] = "begun"]
  /\ todo' = [todo EXCEPT ![s] = changes + 1 .. changes + n]
  /\ changes' = changes + n
  /\ UNCHANGED <<backend, rows, pending, tail, resets>>

\* _append_audit, first statement: the newest entry.
ReadTail(s) ==
  /\ pc[s] = "begun"
  /\ todo[s] # {}
  /\ tail' = [tail EXCEPT ![s] =
                IF Visible(s) = {} THEN NoTail
                ELSE [sequence |-> Newest(Visible(s)).sequence,
                      hash |-> Newest(Visible(s)).hash]]
  /\ pc' = [pc EXCEPT ![s] = "read"]
  /\ UNCHANGED <<backend, rows, pending, todo, changes, resets>>

End(s) ==
  /\ pc' = [pc EXCEPT ![s] = "idle"]
  /\ pending' = [pending EXCEPT ![s] = {}]
  /\ todo' = [todo EXCEPT ![s] = {}]
  /\ tail' = [tail EXCEPT ![s] = NoTail]

\* The entry the second statement of _append_audit inserts for change c.
NewEntry(s, c) ==
  LET sequence == tail[s].sequence + 1 IN
  [sequence |-> sequence, change |-> c, previous |-> tail[s].hash,
   hash |-> Hash(sequence, c, tail[s].hash)]

\* Fault: no primary key on sequence.
SequenceIsFree_Unchecked(s) == TRUE

\* A sequence that another session has inserted and not committed makes the
\* statement wait until that session ends.
SequenceIsFree(s) == tail[s].sequence + 1 \notin Sequences(rows \union Uncommitted)

\* _append_audit, second statement.
InsertEntry(s, c) ==
  /\ pc[s] = "read"
  /\ c \in todo[s]
  /\ \A d \in todo[s] : c <= d
  /\ SequenceIsFree(s)
  /\ pending' = [pending EXCEPT ![s] = @ \union {NewEntry(s, c)}]
  /\ todo' = [todo EXCEPT ![s] = @ \ {c}]
  /\ pc' = [pc EXCEPT ![s] = "begun"]
  /\ UNCHANGED <<backend, rows, tail, changes, resets>>

\* The sequence was taken by a committed entry: unique violation, the
\* exception rolls the whole operation back.
InsertConflict(s) ==
  /\ pc[s] = "read"
  /\ tail[s].sequence + 1 \in Sequences(rows)
  /\ End(s)
  /\ UNCHANGED <<backend, rows, changes, resets>>

Commit(s) ==
  /\ pc[s] = "begun"
  /\ todo[s] = {}
  /\ rows' = rows \union pending[s]
  /\ End(s)
  /\ UNCHANGED <<backend, changes, resets>>

\* An exception after the first write, or a crash.
Rollback(s) ==
  /\ pc[s] # "idle"
  /\ End(s)
  /\ UNCHANGED <<backend, rows, changes, resets>>

\* reset_demo_data empties audit_entries with the other tables.  On Postgres
\* the DELETE takes the rows it can see and waits for nobody.
ResetDemoData ==
  /\ resets < MaxResets
  /\ WriteLockFree
  /\ backend = "postgres" => ResetOnPostgres
  /\ rows' = {}
  /\ resets' = resets + 1
  /\ UNCHANGED <<backend, pending, pc, tail, todo, changes>>

Step(s) ==
  \/ ReadTail(s)
  \/ \E c \in todo[s] : InsertEntry(s, c)
  \/ InsertConflict(s)
  \/ Commit(s)

Next ==
  \/ \E s \in Sessions, n \in BatchSizes : Begin(s, n)
  \/ \E s \in Sessions : Step(s) \/ Rollback(s)
  \/ ResetDemoData

Spec == Init /\ [][Next]_vars

\* A session is the thread of a request or a process: once it has begun, it
\* executes the next statement unless the database makes it wait.
Fairness == \A s \in Sessions : WF_vars(Step(s))

FairSpec == Spec /\ Fairness

-----------------------------------------------------------------------------
(* verify_audit_chain over a table.                                        *)

Below(r, table) == {q \in table : q.sequence < r.sequence}

\* `previous_hash` as the loop reaches entry r.
RunningHash(r, table) ==
  IF Below(r, table) = {} THEN GENESIS_AUDIT_HASH ELSE Newest(Below(r, table)).hash

\* Fault: the link to the previous entry is not compared.
LinkHolds_Unchecked(r, table) == TRUE

LinkHolds(r, table) == r.previous = RunningHash(r, table)

HashHolds(r) == r.hash = Hash(r.sequence, r.change, r.previous)

Failing(table) == {r \in table : ~LinkHolds(r, table) \/ ~HashHolds(r)}

Valid(table) == Failing(table) = {}

\* The report names the first failing entry.
FailureSequence(table) ==
  CHOOSE n \in Sequences(Failing(table)) : \A k \in Sequences(Failing(table)) : n <= k

-----------------------------------------------------------------------------
(* Properties.                                                             *)

TypeOK ==
  /\ backend \in Backends
  /\ \A r \in rows \union Uncommitted :
       /\ DOMAIN r = {"sequence", "change", "previous", "hash"}
       /\ r.sequence \in Nat \ {0} /\ r.change \in 1 .. changes
  /\ pending \in [Sessions -> SUBSET Uncommitted]
  /\ pc \in [Sessions -> {"idle", "begun", "read"}]
  /\ \A s \in Sessions : tail[s].sequence \in Nat
  /\ todo \in [Sessions -> SUBSET (1 .. changes)]
  /\ changes \in 0 .. MaxChanges
  /\ resets \in 0 .. MaxResets

\* verify_audit_chain finds every committed table valid: no interleaving of
\* appends, conflicts, rollbacks and (SQLite) resets forks or breaks the chain.
ChainValid == Valid(rows)

\* Committed entries are never rewritten, and new ones come after all of them;
\* only a reset removes entries.
AuditIsAppendOnly ==
  [][\/ resets' = resets + 1
     \/ /\ rows \subseteq rows'
        /\ \A r \in rows' \ rows, q \in rows : q.sequence < r.sequence]_vars

\* What verification proves about a table somebody changed afterwards: losing
\* any entries but the last ones is noticed, and so is a changed entry, which
\* the report locates.
DamageIsDetected ==
  /\ \A lost \in SUBSET rows :
       Valid(rows \ lost) =>
         \A l \in lost, r \in rows \ lost : r.sequence < l.sequence
  /\ \A r \in rows :
       LET edited == (rows \ {r}) \union {[r EXCEPT !.change = 0]} IN
       ~Valid(edited) /\ FailureSequence(edited) = r.sequence

\* Sessions that wait for each other's sequence numbers never form a cycle:
\* every transaction that has begun ends.
EverySessionEnds == \A s \in Sessions : pc[s] # "idle" ~> pc[s] = "idle"
=============================================================================
