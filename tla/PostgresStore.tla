---------------------------- MODULE PostgresStore ----------------------------
(***************************************************************************)
(* PostgresStore (storage/postgres_store.py): every write operation over   *)
(* the seven tables, as the statements it sends in one transaction at READ *)
(* COMMITTED, by API threads, drains and stream workers that each have a   *)
(* connection of their own.  A statement sees what is committed when it    *)
(* starts and its own transaction's writes; it waits for a transaction     *)
(* that holds a row it writes or a unique value it inserts, and a DELETE   *)
(* takes its rows one by one, in any order.  An error rolls the            *)
(* transaction back, and no caller tries again.                            *)
(* Hashes of the audit chain are in AuditChain; here an audit entry is its *)
(* sequence, on which any two concurrent writers collide.                  *)
(***************************************************************************)
EXTENDS Naturals, Sequences, FiniteSetsExt

CONSTANTS
  Sessions,     \* connections
  Events,       \* envelopes; equal when their payloads are
  EventId,      \* [Events -> event_id]
  Key,          \* [Events -> idempotency_key]
  Batches,      \* lists of events that add_events and reset_demo_data get
  Decisions, Cases, Reviews, DeadLetters,  \* uuids, each used once
  CaseOf,       \* [Reviews -> Cases]
  Cutoffs,      \* sets of tables whose rows have all expired when prune runs
  Earlier,      \* events added before, one after the other
  MaxAttempts,  \* mark_outbox_failed's max_attempts
  MaxCalls      \* bound: calls started

ASSUME StoreAssumption ==
  /\ Batches \subseteq Seq(Events)
  /\ Earlier \in Seq(Events)
  /\ \A m, n \in DOMAIN Earlier :
       EventId[Earlier[m]] = EventId[Earlier[n]] \/ Key[Earlier[m]] = Key[Earlier[n]] => m = n
  /\ CaseOf \in [Reviews -> Cases]
  /\ MaxAttempts \in Nat \ {0}
  /\ MaxCalls \in Nat

Tables == {"events", "outbox_messages", "decisions", "review_cases",
           "review_decisions", "stream_dead_letters", "audit_entries"}

VARIABLES
  db,          \* the committed rows of each table
  inserted,    \* rows each open transaction has written
  deleted,     \* rows each open transaction has deleted or replaced
  call,        \* the operation each session is in
  todo,        \* the statements of its transaction it has still to send
  queue,       \* the events it has still to add, each in a transaction of its own
  sight,       \* what the transaction has read: the attempts, or the last sequence
  listed,      \* the ids a DELETE goes by: given in a list, or seen before it waited
  counted,     \* the rows prune_retention and retention_report count
  used,        \* the uuids given to decisions, cases, reviews and dead letters
  calls,       \* calls started
  answers,     \* events acknowledged and not pruned or reset (only properties read it)
  pruned,      \* rows retention has deleted (only properties read it)
  overlapped   \* a reset ran beside another call (only properties read it)

transaction == <<inserted, deleted, sight, listed, counted>>
ghosts == <<answers, pruned, overlapped>>
vars == <<db, transaction, call, todo, queue, used, calls, ghosts>>

EventRow(e) == [id |-> EventId[e], key |-> Key[e], event |-> e]

NoRows == [t \in Tables |-> {}]

NoList == [on |-> FALSE, ids |-> {}]

\* A message as _enqueue_outbox writes it.
NewMessage(e) == [id |-> EventId[e], event |-> e, status |-> "PENDING", attempts |-> 0]

\* init_schema, and what earlier calls left.
Init ==
  /\ db = [NoRows EXCEPT
       !["events"] = {EventRow(Earlier[n]) : n \in DOMAIN Earlier},
       !["outbox_messages"] = {NewMessage(Earlier[n]) : n \in DOMAIN Earlier},
       !["audit_entries"] = {[id |-> n, action |-> "event.ingested", target |-> Earlier[n]] :
                               n \in DOMAIN Earlier}]
  /\ inserted = [s \in Sessions |-> NoRows]
  /\ deleted = [s \in Sessions |-> NoRows]
  /\ call = [s \in Sessions |-> "none"]
  /\ todo = [s \in Sessions |-> <<>>]
  /\ queue = [s \in Sessions |-> <<>>]
  /\ sight = [s \in Sessions |-> 0]
  /\ listed = [s \in Sessions |-> NoList]
  /\ counted = [s \in Sessions |-> {}]
  /\ used = {} /\ calls = 0
  /\ answers = {Earlier[n] : n \in DOMAIN Earlier}
  /\ pruned = {} /\ overlapped = FALSE

-----------------------------------------------------------------------------
(* The operations as scripts of statements.                                *)

Commit == <<[do |-> "commit"]>>

Insert(table, row) == <<[do |-> "insert", table |-> table, row |-> row]>>

InsertOrNothing(table, row) == <<[do |-> "insert_or_nothing", table |-> table, row |-> row]>>

DeleteFrom(table) == <<[do |-> "delete", table |-> table, rowcount |-> FALSE]>>

\* prune_retention counts what a DELETE by a column returns as its rowcount,
DeleteExpired(table) == <<[do |-> "delete", table |-> table, rowcount |-> TRUE]>>

\* and by a timestamp in JSON the ids it has picked from a SELECT before.
DeleteListed(table) == <<[do |-> "list_ids", table |-> table]>> \o DeleteFrom(table)

\* _append_audit: read the newest sequence, insert the next one.
AppendAudit(action, target) ==
  <<[do |-> "read_tail"], [do |-> "insert_entry", action |-> action, target |-> target]>>

\* The SELECT of the row that the marks return: that it is gone raises KeyError
\* only after the commit.
ReadMarked(id) == <<[do |-> "read_marked", id |-> id]>>

\* Fault: the message is enqueued in a transaction of its own.
EnqueueOutbox_AfterCommit(e) ==
  Commit \o InsertOrNothing("outbox_messages", NewMessage(e))

EnqueueOutbox(e) == InsertOrNothing("outbox_messages", NewMessage(e))

AddEvent(e) ==
  <<[do |-> "look_up", event |-> e]>> \o Insert("events", EventRow(e)) \o EnqueueOutbox(e)
    \o AppendAudit("event.ingested", e) \o Commit

\* The events of its batch are added by transactions that follow.
ResetDemoData ==
  DeleteFrom("review_decisions") \o DeleteFrom("review_cases") \o DeleteFrom("decisions")
    \o DeleteFrom("stream_dead_letters") \o DeleteFrom("outbox_messages")
    \o DeleteFrom("events") \o DeleteFrom("audit_entries") \o Commit

\* Fault: the entry is appended before the row is changed.
MarkOutboxPublished_AuditFirst(id) ==
  AppendAudit("outbox.published", id) \o <<[do |-> "publish", id |-> id]>>
    \o ReadMarked(id) \o Commit

MarkOutboxPublished(id) ==
  <<[do |-> "publish", id |-> id]>> \o AppendAudit("outbox.published", id)
    \o ReadMarked(id) \o Commit

MarkOutboxFailed(id) ==
  <<[do |-> "read_attempts", id |-> id], [do |-> "count_attempt", id |-> id]>>
    \o AppendAudit("outbox.failed", id) \o ReadMarked(id) \o Commit

SaveDecision(d) ==
  Insert("decisions", [id |-> d]) \o AppendAudit("decision.created", d) \o Commit

SaveReviewCase(c) ==
  Insert("review_cases", [id |-> c, status |-> "pending"])
    \o AppendAudit("review.case_created", c) \o Commit

\* A case that is gone when it is read is not closed; the review is kept.
SaveReviewDecision(r) ==
  <<[do |-> "read_case", id |-> CaseOf[r]]>>
    \o Insert("review_decisions", [id |-> r, case |-> CaseOf[r]])
    \o <<[do |-> "close_case", id |-> CaseOf[r]]>>
    \o AppendAudit("review.decided", r) \o Commit

SaveStreamDeadLetter(l) ==
  Insert("stream_dead_letters", [id |-> l]) \o AppendAudit("stream.dead_lettered", l) \o Commit

\* Which rows have expired is the request's as_of and days against each
\* table's own clock (an event's is its client's occurred_at); a table
\* without expired rows locks nothing.  The audit table is only counted.
PruneRetention(tables) ==
  LET Expired(t, script) == IF t \in tables THEN script ELSE <<>>
      ByColumn(t) == Expired(t, DeleteExpired(t))
      ByJson(t) == Expired(t, DeleteListed(t))
  IN ByColumn("outbox_messages") \o ByColumn("stream_dead_letters") \o ByColumn("events")
       \o ByJson("decisions") \o ByJson("review_cases") \o ByJson("review_decisions")
       \o AppendAudit("retention.pruned", "retention") \o Commit

Count(table) == <<[do |-> "count", table |-> table]>>

\* Each table is counted in a transaction of its own: the report is not of
\* one moment.
RetentionReport(tables) ==
  LET Expired(t) == IF t \in tables THEN Count(t) ELSE <<>>
  IN Expired("events") \o Expired("decisions") \o Expired("review_cases")
       \o Expired("review_decisions") \o Expired("outbox_messages")
       \o Expired("stream_dead_letters") \o Expired("audit_entries") \o Commit

-----------------------------------------------------------------------------
(* READ COMMITTED.                                                         *)

View(s, t) == (db[t] \ deleted[s][t]) \cup inserted[s][t]

Row(s, t, id) == {r \in View(s, t) : r.id = id}

\* Primary keys, and the unique idempotency_key.
Clash(t, q, r) == q.id = r.id \/ (t = "events" /\ q.key = r.key)

NextEntry(s) == sight[s] + 1

\* The rows a statement inserts and the ids it writes to.
Inserts(s, statement) ==
  CASE statement.do \in {"insert", "insert_or_nothing"} -> {statement.row}
    [] statement.do = "insert_entry" ->
         {[id |-> NextEntry(s), action |-> statement.action, target |-> statement.target]}
    [] OTHER -> {}

\* Fault: the DELETE repeats the condition in place of the listed ids.
Chosen_ByCondition(s, t) == {r.id : r \in View(s, t)}

Chosen(s, t) == IF listed[s].on THEN listed[s].ids ELSE {r.id : r \in View(s, t)}

Targets(s, statement) ==
  CASE statement.do \in {"publish", "count_attempt", "close_case"} -> {statement.id}
    [] statement.do = "delete" -> Chosen(s, statement.table)
    [] OTHER -> {}

TableOf(statement) ==
  CASE statement.do = "insert_entry" -> "audit_entries"
    [] statement.do \in {"publish", "count_attempt"} -> "outbox_messages"
    [] statement.do = "close_case" -> "review_cases"
    [] OTHER -> statement.table

Runs(s) == todo[s] # <<>>

Statement(s) == Head(todo[s])

Writes(s) ==
  Runs(s) /\ Statement(s).do \in {"insert", "insert_or_nothing", "insert_entry", "publish",
                                  "count_attempt", "close_case", "delete"}

WaitsFor(s) ==
  IF ~Writes(s) THEN {}
  ELSE LET statement == Statement(s)
           t == TableOf(statement)
       IN {o \in Sessions \ {s} :
             \/ \E r \in Inserts(s, statement), q \in inserted[o][t] \cup deleted[o][t] :
                  Clash(t, q, r)
             \/ \E q \in deleted[o][t] : q.id \in Targets(s, statement)}

\* A set of sessions each of which waits for another of the set.
IsKnot(D) == D # {} /\ \A s \in D : WaitsFor(s) \cap D # {}

Deadlocked(s) ==
  /\ WaitsFor(s) # {}
  /\ \E D \in SUBSET Sessions : s \in D /\ IsKnot(D) /\ \A C \in SUBSET D : IsKnot(C) => C = D

-----------------------------------------------------------------------------
(* The statements.                                                         *)

\* The call goes on with these statements, and has these events to add after
\* them; without any it is over.
Goes(s, statements, events) ==
  /\ todo' = [todo EXCEPT ![s] = statements]
  /\ queue' = [queue EXCEPT ![s] = events]
  /\ listed' = [listed EXCEPT ![s] = NoList]
  /\ call' = [call EXCEPT ![s] = IF statements = <<>> THEN "none" ELSE @]

Advances(s) == Goes(s, Tail(todo[s]), queue[s])

\* add_events: one transaction for each event, so an exception leaves the
\* earlier ones stored.
AddsNext(s) ==
  IF queue[s] = <<>> THEN Goes(s, <<>>, <<>>)
  ELSE Goes(s, AddEvent(Head(queue[s])), Tail(queue[s]))

Forgets(s) ==
  /\ inserted' = [inserted EXCEPT ![s] = NoRows]
  /\ deleted' = [deleted EXCEPT ![s] = NoRows]
  /\ sight' = [sight EXCEPT ![s] = 0]
  /\ counted' = [counted EXCEPT ![s] = {}]

\* The call raises.
Ends(s) == Goes(s, <<>>, <<>>)

\* Fault: the connection stays open after an error.
Rollback_Leaked(s) ==
  /\ Ends(s)
  /\ UNCHANGED <<db, inserted, deleted, sight, counted, used, calls, ghosts>>

Rollback(s) ==
  /\ Forgets(s)
  /\ Ends(s)
  /\ UNCHANGED <<db, used, calls, ghosts>>

Touches(s, t, olds, news) ==
  /\ inserted' = [inserted EXCEPT ![s][t] = (@ \ olds) \cup news]
  /\ deleted' = [deleted EXCEPT ![s][t] = @ \cup (olds \cap db[t])]
  /\ UNCHANGED <<db, sight, used, calls, ghosts>>

Changes(s, t, olds, news) == Touches(s, t, olds, news) /\ Advances(s)

Replaces(s, t, olds, news) == Changes(s, t, olds, news) /\ UNCHANGED counted

Sees(s, number) ==
  /\ sight' = [sight EXCEPT ![s] = number]
  /\ Advances(s)
  /\ UNCHANGED <<db, inserted, deleted, counted, used, calls, ghosts>>

\* Fault: the payload hashes are not compared.
SamePayload_Unchecked(row, e) == TRUE

SamePayload(row, e) == row.event = e

\* add_event's SELECT: a new key goes on; a known one is answered at once,
\* or raises DuplicatePayloadConflict.
LookUp(s, e) ==
  LET known == {r \in View(s, "events") : r.key = Key[e]}
  IN \/ known = {} /\ Sees(s, 0)
     \/ \E row \in known :
          IF ~SamePayload(row, e) THEN Rollback(s)
          ELSE /\ answers' = answers \cup {e}
               /\ AddsNext(s)
               /\ UNCHANGED <<db, inserted, deleted, sight, counted, used, calls, pruned,
                              overlapped>>

\* UniqueViolation, unless the statement says on conflict do nothing.
InsertRow(s, statement) ==
  LET t == TableOf(statement)
      rows == Inserts(s, statement)
      taken == \E r \in rows, q \in View(s, t) : Clash(t, q, r)
  IN \/ ~taken /\ Replaces(s, t, {}, rows)
     \/ taken /\ statement.do = "insert_or_nothing" /\ Replaces(s, t, {}, {})
     \/ taken /\ statement.do # "insert_or_nothing" /\ Rollback(s)

Publish(s, id) ==
  LET rows == Row(s, "outbox_messages", id)
  IN Replaces(s, "outbox_messages", rows, {[r EXCEPT !.status = "PUBLISHED"] : r \in rows})

\* The SELECT of attempts finds no row: None["attempts"] raises TypeError.
ReadAttempts(s, id) ==
  \/ Row(s, "outbox_messages", id) = {} /\ Rollback(s)
  \/ \E r \in Row(s, "outbox_messages", id) : Sees(s, r.attempts)

CountAttempt(s, id) ==
  LET rows == Row(s, "outbox_messages", id)
      attempts == sight[s] + 1
      status == IF attempts >= MaxAttempts THEN "DEAD_LETTER" ELSE "FAILED"
  IN Replaces(s, "outbox_messages", rows,
              {[r EXCEPT !.attempts = attempts, !.status = status] : r \in rows})

CloseCase(s, id) ==
  LET rows == IF sight[s] = 0 THEN {} ELSE Row(s, "review_cases", id)
  IN Replaces(s, "review_cases", rows, {[r EXCEPT !.status = "closed"] : r \in rows})

Named(t, ids) == {<<t, id>> : id \in ids}

ListIds(s, t) ==
  LET ids == {r.id : r \in View(s, t)} IN
  /\ listed' = [listed EXCEPT ![s] = [on |-> TRUE, ids |-> ids]]
  /\ counted' = [counted EXCEPT ![s] = @ \cup Named(t, ids)]
  /\ todo' = [todo EXCEPT ![s] = Tail(@)]
  /\ UNCHANGED <<db, inserted, deleted, sight, call, queue, used, calls, ghosts>>

CountRows(s, t) ==
  /\ counted' = [counted EXCEPT ![s] = @ \cup Named(t, {r.id : r \in View(s, t)})]
  /\ Advances(s)
  /\ UNCHANGED <<db, inserted, deleted, sight, used, calls, ghosts>>

\* The rows a DELETE has still to delete, and what it counts of those it does.
Victims(s, t) == {r \in View(s, t) : r.id \in Chosen(s, t)}

CountsDeleted(s, statement, rows) ==
  counted' = [counted EXCEPT ![s] =
    IF statement.rowcount THEN @ \cup Named(statement.table, {r.id : r \in rows}) ELSE @]

\* A DELETE gets the last of its rows, or finds nothing left.
DeleteRows(s, statement) ==
  LET t == statement.table
      rows == Victims(s, t)
  IN Changes(s, t, rows, {}) /\ CountsDeleted(s, statement, rows)

\* Keys that a committed delete forgets, and what retention took.
Forgotten(s) == {q.event : q \in deleted[s]["events"]}

Commits(s) ==
  /\ db' = [t \in Tables |-> View(s, t)]
  /\ answers' = (answers \ Forgotten(s)) \cup {r.event : r \in inserted[s]["events"]}
  /\ pruned' = pruned \cup
       IF call[s] = "prune_retention"
       THEN UNION {{<<t, r.id>> : r \in deleted[s][t]} : t \in {"events", "outbox_messages"}}
       ELSE {}
  /\ Forgets(s)
  /\ IF Tail(todo[s]) = <<>> THEN AddsNext(s) ELSE Advances(s)
  /\ UNCHANGED <<used, calls, overlapped>>

Executes(s, statement) ==
  \/ statement.do = "look_up" /\ LookUp(s, statement.event)
  \/ /\ statement.do \in {"insert", "insert_or_nothing", "insert_entry"}
     /\ InsertRow(s, statement)
  \/ /\ statement.do = "read_tail"
     /\ Sees(s, Max({0} \cup {r.id : r \in View(s, "audit_entries")}))
  \/ statement.do = "publish" /\ Publish(s, statement.id)
  \/ statement.do = "read_attempts" /\ ReadAttempts(s, statement.id)
  \/ statement.do = "count_attempt" /\ CountAttempt(s, statement.id)
  \/ statement.do = "read_marked" /\ Sees(s, 0)
  \/ /\ statement.do = "read_case"
     /\ Sees(s, Cardinality(Row(s, "review_cases", statement.id)))
  \/ statement.do = "close_case" /\ CloseCase(s, statement.id)
  \/ statement.do = "delete" /\ DeleteRows(s, statement)
  \/ statement.do = "count" /\ CountRows(s, statement.table)
  \/ statement.do = "list_ids" /\ ListIds(s, statement.table)
  \/ statement.do = "commit" /\ Commits(s)

Execute(s) ==
  /\ Runs(s)
  /\ WaitsFor(s) = {}
  /\ Executes(s, Statement(s))

Deleting(s) == Writes(s) /\ Statement(s).do = "delete"

\* A DELETE deletes only what it saw when it started.
ListsVictims(s, t) ==
  listed' = [listed EXCEPT ![s] = [on |-> TRUE, ids |-> Chosen(s, t)]]

\* Another transaction has deleted or replaced the row.
IsHeld(s, t, id) == \E o \in Sessions \ {s} : \E q \in deleted[o][t] : q.id = id

\* A DELETE gets a row and goes on to the next, for which it may have to wait.
DeleteRow(s) ==
  /\ Deleting(s)
  /\ LET t == Statement(s).table IN
     \E id \in Chosen(s, t) :
       /\ Row(s, t, id) \notin {{}, Victims(s, t)} /\ ~IsHeld(s, t, id)
       /\ Touches(s, t, Row(s, t, id), {})
       /\ CountsDeleted(s, Statement(s), Row(s, t, id))
       /\ ListsVictims(s, t)
       /\ UNCHANGED <<call, todo, queue>>

\* A DELETE finds its first row held.
DeleteWaits(s) ==
  /\ Deleting(s)
  /\ WaitsFor(s) # {} /\ ~listed[s].on
  /\ ListsVictims(s, Statement(s).table)
  /\ UNCHANGED <<db, inserted, deleted, sight, counted, call, todo, queue, used, calls, ghosts>>

\* Postgres ends one transaction of a cycle of waits.
DeadlockDetected(s) == Deadlocked(s) /\ Rollback(s)

\* The process or its connection is lost.
ConnectionLost(s) == Runs(s) /\ Rollback(s)

-----------------------------------------------------------------------------
(* The callers: API handlers, drains, stream workers, maintenance.         *)

Starts(s, operation, script, events) ==
  /\ ~Runs(s)
  /\ calls < MaxCalls
  /\ calls' = calls + 1
  /\ call' = [call EXCEPT ![s] = operation]
  /\ todo' = [todo EXCEPT ![s] = script]
  /\ queue' = [queue EXCEPT ![s] = events]
  /\ overlapped' = (overlapped \/
       \E o \in Sessions \ {s} :
         Runs(o) /\ "reset_demo_data" \in {operation, call[o]})
  /\ UNCHANGED <<db, transaction, answers, pruned>>

Calls(s, operation, script) == Starts(s, operation, script, <<>>) /\ UNCHANGED used

\* A uuid4 is new.
Saves(s, operation, id, script) ==
  /\ id \notin used
  /\ used' = used \cup {id}
  /\ Starts(s, operation, script, <<>>)

Ingests(s) ==
  \E batch \in Batches \ {<<>>} :
    /\ Starts(s, "add_events", AddEvent(Head(batch)), Tail(batch))
    /\ UNCHANGED used

Records(s) ==
  \/ \E d \in Decisions : Saves(s, "save_decision", d, SaveDecision(d))
  \/ \E c \in Cases : Saves(s, "save_review_case", c, SaveReviewCase(c))
  \/ \E r \in Reviews :
       /\ \E c \in db["review_cases"] : c.id = CaseOf[r]
       /\ Saves(s, "save_review_decision", r, SaveReviewDecision(r))
  \/ \E l \in DeadLetters : Saves(s, "save_stream_dead_letter", l, SaveStreamDeadLetter(l))

Drains(s) ==
  \E m \in db["outbox_messages"] :
    /\ m.status \in {"PENDING", "FAILED"}
    /\ \/ Calls(s, "mark_outbox_published", MarkOutboxPublished(m.id))
       \/ Calls(s, "mark_outbox_failed", MarkOutboxFailed(m.id))

Reports(s, tables) == Calls(s, "retention_report", RetentionReport(tables))

\* Without `execute` a prune is a report.
Prunes(s, tables, execute) ==
  IF execute THEN Calls(s, "prune_retention", PruneRetention(tables))
  ELSE Reports(s, tables)

Maintains(s) ==
  \/ \E tables \in Cutoffs :
       Reports(s, tables) \/ \E execute \in BOOLEAN : Prunes(s, tables, execute)
  \/ \E batch \in Batches :
       /\ Starts(s, "reset_demo_data", ResetDemoData, batch)
       /\ UNCHANGED used

Next ==
  \E s \in Sessions :
    \/ Ingests(s) \/ Records(s) \/ Drains(s) \/ Maintains(s)
    \/ Execute(s) \/ DeleteRow(s) \/ DeleteWaits(s)
    \/ DeadlockDetected(s) \/ ConnectionLost(s)

Spec == Init /\ [][Next]_vars

\* What a session has still to send, which each of its statements changes.
unsent == <<todo, queue>>

\* A caller sends its next statement; Postgres finds deadlocks after
\* deadlock_timeout.
Fairness ==
  \A s \in Sessions : WF_unsent(Execute(s) \/ DeadlockDetected(s))

FairSpec == Spec /\ Fairness

-----------------------------------------------------------------------------
(* Properties.                                                             *)

\* However adds of one idempotency key race, an event that a caller was told
\* is stored is stored, until a prune or a reset deletes it: the loser of a
\* race is told an error, never the winner's payload as its own.
AnsweredIsStored == answers \subseteq {r.event : r \in db["events"]}

Creation ==
  [events |-> "event.ingested", decisions |-> "decision.created",
   review_cases |-> "review.case_created", review_decisions |-> "review.decided",
   stream_dead_letters |-> "stream.dead_lettered"]

Audited(action, target) ==
  \E a \in db["audit_entries"] : a.action = action /\ a.target = target

\* Unless a reset ran beside another call, what a transaction writes stays
\* together: every row has the audit entry of its creation, an event has its
\* outbox message unless one of the two was pruned, and the audit sequence
\* has no gap.
CommittedTogether ==
  ~overlapped =>
    /\ \A r \in db["events"] : Audited("event.ingested", r.event)
    /\ \A t \in DOMAIN Creation \ {"events"} : \A r \in db[t] : Audited(Creation[t], r.id)
    /\ \A r \in db["events"] :
         <<"outbox_messages", r.id>> \notin pruned =>
           \E m \in db["outbox_messages"] : m.id = r.id
    /\ \A m \in db["outbox_messages"] :
         <<"events", m.id>> \notin pruned => \E r \in db["events"] : r.event = m.event
    /\ \A a \in db["audit_entries"] : a.id \in 1 .. Cardinality(db["audit_entries"])

\* Without a reset, only prunes deadlock, and only with each other, when they
\* take the rows of a table in different orders: every other operation writes
\* one row of a table, in the order of prune_retention's tables, and the audit
\* sequence last.  A reset deletes the tables in the opposite order.
OnlyDeletesDeadlock ==
  \A s \in Sessions : Deadlocked(s) =>
    \/ \E o \in Sessions : call[o] = "reset_demo_data"
    \/ /\ call[s] = "prune_retention"
       /\ \E o \in Sessions \ {s} : call[o] = "prune_retention"

\* The audit entry of a prune accounts for it: every row it deleted is
\* counted, and a counted row is gone, though perhaps by another prune or
\* reset beside it (rows picked by their JSON are counted before the DELETE).
PruneIsAccounted ==
  [][\A s \in Sessions :
       call[s] = "prune_retention" /\ db' # db /\ todo'[s] = <<>> /\ Runs(s) =>
         LET taken(t) == {r.id : r \in db[t]} \ {r.id : r \in db'[t]} IN
         /\ \A t \in Tables \ {"audit_entries"} : Named(t, taken(t)) \subseteq counted[s]
         /\ \A t \in Tables : \A r \in db'[t] : <<t, r.id>> \notin counted[s]]_vars

\* Every call returns or raises, whatever locks the others hold.
EveryCallEnds == \A s \in Sessions : []<>(~Runs(s))
=============================================================================
