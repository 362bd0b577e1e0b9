------------------------------- MODULE Outbox -------------------------------
(***************************************************************************)
(* The transactional outbox of fraud_v2: storage/sqlite_store.py keeps an  *)
(* events table and an outbox_messages table, add_event writes a row of    *)
(* each in one transaction, and `outbox-drain` processes run               *)
(* OutboxWorker.run_once (workers/outbox.py) over the rows.                *)
(*                                                                         *)
(* Nothing prevents two drains from overlapping: each is a process with a  *)
(* connection of its own, and what it listed or read is stale as soon as   *)
(* the statement ends.  SQLite runs a SELECT outside the write             *)
(* transaction, which starts at the first INSERT, UPDATE or DELETE; so one *)
(* action is one SELECT, one write transaction or one publish call.        *)
(*                                                                         *)
(* A message is named by the rank of its created_at: the uuid of the code  *)
(* is fresh at every insert, and rows are listed in creation order.        *)
(***************************************************************************)
EXTENDS Naturals, FiniteSets

CONSTANTS
  Workers,        \* drain processes
  DryRun,         \* those started without --publish (the default)
  Events,         \* event envelopes the API accepts
  MaxAttempts,    \* OutboxWorker.max_attempts
  BatchSize,      \* OutboxWorker.batch_size
  Maintenance,    \* subset of {"prune", "reset"}: what operators run meanwhile
  MaxMessages,    \* bound: outbox rows ever created
  MaxFailures,    \* bound: RuntimeErrors per message
  MaxTimeouts,    \* bound: TimeoutErrors per message
  MaxCrashes,     \* bound: drains killed, or stopped by a locked database
  NoRow,          \* the row was never created, or was deleted
  NoTarget        \* target of an audit entry that is about no message

ASSUME WorkersAssumption == IsFiniteSet(Workers) /\ DryRun \subseteq Workers
ASSUME BoundsAssumption ==
  /\ MaxAttempts \in Nat \ {0}
  /\ BatchSize \in Nat \ {0}
  /\ MaxMessages \in Nat
  /\ MaxFailures \in Nat
  /\ MaxTimeouts \in Nat
  /\ MaxCrashes \in Nat
ASSUME MaintenanceAssumption == Maintenance \subseteq {"prune", "reset"}

MsgId == 1 .. MaxMessages

Status == {"PENDING", "PUBLISHED", "FAILED", "DEAD_LETTER"}

Row == [event : Events, status : Status, attempts : Nat]

ASSUME NoRowAssumption == NoRow \notin Row

VARIABLES
  events,      \* ids in the events table
  outbox,      \* the outbox_messages table
  created,     \* number of outbox rows ever inserted
  audit,       \* audit entries (their order and hashes are in AuditChain)
  deliveries,  \* how many copies of each message reached the topic
  failures,    \* RuntimeErrors publish has raised for each message
  timeouts,    \* TimeoutErrors publish has raised for each message
  crashes,     \* drains that died between two steps
  pc,          \* where each drain is in run_once
  batch,       \* the messages it listed and has not reached yet
  current,     \* its loop variable `message`
  read         \* the attempts value mark_outbox_failed selected

store == <<events, outbox, created, audit>>
broker == <<deliveries, failures, timeouts>>
drain == <<pc, batch, current, read>>
vars == <<store, broker, crashes, drain>>

AuditActions == {"event.ingested", "outbox.published", "outbox.failed",
                   "retention.pruned"}

Entry(action, target, attempts) ==
  [action |-> action, target |-> target, attempts |-> attempts]

TypeOK ==
  /\ events \subseteq Events
  /\ outbox \in [MsgId -> Row \union {NoRow}]
  /\ created \in 0 .. MaxMessages
  /\ audit \subseteq [action : AuditActions,
                      target : Events \union MsgId \union {NoTarget},
                      attempts : Nat]
  /\ deliveries \in [MsgId -> Nat]
  /\ failures \in [MsgId -> Nat]
  /\ timeouts \in [MsgId -> Nat]
  /\ crashes \in Nat
  /\ pc \in [Workers -> {"idle", "publish", "published", "failed", "counted"}]
  /\ batch \in [Workers -> SUBSET MsgId]
  /\ current \in [Workers -> MsgId \union {0}]
  /\ read \in [Workers -> Nat]

Exists(m) == outbox[m] # NoRow

Init ==
  /\ events = {}
  /\ outbox = [m \in MsgId |-> NoRow]
  /\ created = 0
  /\ audit = {}
  /\ deliveries = [m \in MsgId |-> 0]
  /\ failures = [m \in MsgId |-> 0]
  /\ timeouts = [m \in MsgId |-> 0]
  /\ crashes = 0
  /\ pc = [w \in Workers |-> "idle"]
  /\ batch = [w \in Workers |-> {}]
  /\ current = [w \in Workers |-> 0]
  /\ read = [w \in Workers |-> 0]

-----------------------------------------------------------------------------
(* The store: ingestion, and the two maintenance operations that delete.   *)

\* `insert or ignore`: a row for this event id that is still there wins.
EnqueueOutbox(e) ==
  IF \E m \in MsgId : Exists(m) /\ outbox[m].event = e
    THEN UNCHANGED <<outbox, created>>
    ELSE /\ created < MaxMessages
         /\ created' = created + 1
         /\ outbox' = [outbox EXCEPT ![created + 1] =
                         [event |-> e, status |-> "PENDING", attempts |-> 0]]

\* The write transaction of add_event for an event the store does not hold.
AddEvent(e) ==
  /\ e \notin events
  /\ events' = events \union {e}
  /\ EnqueueOutbox(e)
  /\ audit' = audit \union {Entry("event.ingested", e, 0)}
  /\ UNCHANGED <<broker, crashes, drain>>

\* prune_retention: rows older than the cut-off go whatever their status;
\* events go by the client's occurred_at, so any of them may be old enough.
PruneRetention(cutoff, old) ==
  /\ "prune" \in Maintenance
  /\ events' = events \ old
  /\ outbox' = [m \in MsgId |-> IF m < cutoff THEN NoRow ELSE outbox[m]]
  /\ audit' = audit \union {Entry("retention.pruned", NoTarget, 0)}
  /\ UNCHANGED <<created, broker, crashes, drain>>

\* reset_demo_data: every table is emptied in one transaction, the audit
\* trail too; the demo events then come back through AddEvent.
ResetDemoData ==
  /\ "reset" \in Maintenance
  /\ events' = {}
  /\ outbox' = [m \in MsgId |-> NoRow]
  /\ audit' = {}
  /\ UNCHANGED <<created, broker, crashes, drain>>

-----------------------------------------------------------------------------
(* OutboxWorker.run_once.                                                  *)

\* Faults a change to list_outbox_messages could introduce: dead letters are
\* listed too; every row is listed; a FAILED row is not.
Drainable_DeadLetters == {m \in MsgId : Exists(m) /\ outbox[m].status # "PUBLISHED"}
Drainable_AllRows == {m \in MsgId : Exists(m)}
Drainable_PendingOnly == {m \in MsgId : Exists(m) /\ outbox[m].status = "PENDING"}

Drainable == {m \in MsgId : Exists(m) /\ outbox[m].status \in {"PENDING", "FAILED"}}

\* list_outbox_messages: the BatchSize oldest rows still to be published.
ListOutboxMessages(w) ==
  /\ pc[w] = "idle"
  /\ Drainable # {}
  /\ batch' = [batch EXCEPT ![w] =
                 {m \in Drainable : Cardinality({k \in Drainable : k < m}) < BatchSize}]
  /\ pc' = [pc EXCEPT ![w] = "publish"]
  /\ UNCHANGED <<store, broker, crashes, current, read>>

\* Fault: `order by created_at desc`.
Take_NewestFirst(w, m) ==
  /\ pc[w] = "publish"
  /\ m \in batch[w]
  /\ \A k \in batch[w] : k <= m

\* The for loop takes the next message of the list.
Take(w, m) ==
  /\ pc[w] = "publish"
  /\ m \in batch[w]
  /\ \A k \in batch[w] : m <= k

Hold(w, m) ==
  /\ current' = [current EXCEPT ![w] = m]
  /\ batch' = [batch EXCEPT ![w] = @ \ {m}]

Forget(w) ==
  /\ current' = [current EXCEPT ![w] = 0]
  /\ read' = [read EXCEPT ![w] = 0]

\* The rest of the loop after the message, or the end of run_once.
Continue(w) ==
  /\ pc' = [pc EXCEPT ![w] = IF batch[w] = {} THEN "idle" ELSE "publish"]
  /\ UNCHANGED batch
  /\ Forget(w)

\* An exception run_once does not catch ends it with the rest of its list.
Abort(w) ==
  /\ pc' = [pc EXCEPT ![w] = "idle"]
  /\ batch' = [batch EXCEPT ![w] = {}]
  /\ Forget(w)

\* publish returned.  A dry run records the message and sends nothing.
PublishReturns(w, m) ==
  /\ Take(w, m)
  /\ Hold(w, m)
  /\ pc' = [pc EXCEPT ![w] = "published"]
  /\ deliveries' = IF w \in DryRun THEN deliveries
                                   ELSE [deliveries EXCEPT ![m] = @ + 1]
  /\ UNCHANGED <<store, failures, timeouts, crashes, read>>

PublishFails(w, m, next) ==
  /\ Take(w, m)
  /\ w \notin DryRun
  /\ failures[m] < MaxFailures
  /\ failures' = [failures EXCEPT ![m] = @ + 1]
  /\ Hold(w, m)
  /\ pc' = [pc EXCEPT ![w] = next]
  /\ UNCHANGED <<store, deliveries, timeouts, crashes, read>>

\* Fault: the except branch falls through, without its `continue`.
PublishRaisesRuntimeError_FallsThrough(w, m) == PublishFails(w, m, "published")

\* publish raised RuntimeError: nothing was sent.
PublishRaisesRuntimeError(w, m) == PublishFails(w, m, "failed")

\* flush(10) left the message queued: TimeoutError is an OSError, so it
\* escapes run_once.  The broker may still have taken the message.
PublishRaisesTimeoutError(w, m) ==
  /\ Take(w, m)
  /\ w \notin DryRun
  /\ timeouts[m] < MaxTimeouts
  /\ timeouts' = [timeouts EXCEPT ![m] = @ + 1]
  /\ deliveries' \in {deliveries, [deliveries EXCEPT ![m] = @ + 1]}
  /\ Abort(w)
  /\ UNCHANGED <<store, failures, crashes>>

\* mark_outbox_published: the update has no status guard.  When the row is
\* gone it changes nothing, the audit entry still commits, and the lookup of
\* the row that follows raises KeyError.
MarkOutboxPublished(w) ==
  LET m == current[w] IN
  /\ pc[w] = "published"
  /\ audit' = audit \union {Entry("outbox.published", m, 0)}
  /\ \/ /\ Exists(m)
        /\ outbox' = [outbox EXCEPT ![m].status = "PUBLISHED"]
        /\ Continue(w)
     \/ /\ ~Exists(m)
        /\ Abort(w)
        /\ UNCHANGED outbox
  /\ UNCHANGED <<events, created, broker, crashes>>

\* The SELECT of mark_outbox_failed, before its write transaction starts.
\* A row that is gone raises TypeError and nothing is written.
ReadAttempts(w) ==
  LET m == current[w] IN
  /\ pc[w] = "failed"
  /\ \/ /\ Exists(m)
        /\ read' = [read EXCEPT ![w] = outbox[m].attempts]
        /\ pc' = [pc EXCEPT ![w] = "counted"]
        /\ UNCHANGED <<batch, current>>
     \/ ~Exists(m) /\ Abort(w)
  /\ UNCHANGED <<store, broker, crashes>>

\* Faults: the count stays; it is taken twice.
Recount_Forgotten(n) == n
Recount_Twice(n) == n + 2

Recount(n) == n + 1

\* Fault: dead-lettered one attempt early.
FailedStatus_Early(n) == IF n >= MaxAttempts - 1 THEN "DEAD_LETTER" ELSE "FAILED"

FailedStatus(n) == IF n >= MaxAttempts THEN "DEAD_LETTER" ELSE "FAILED"

\* The write transaction of mark_outbox_failed, from the attempts it read.
MarkOutboxFailed(w) ==
  LET m == current[w]
      attempts == Recount(read[w])
  IN
  /\ pc[w] = "counted"
  /\ audit' = audit \union {Entry("outbox.failed", m, attempts)}
  /\ \/ /\ Exists(m)
        /\ outbox' = [outbox EXCEPT ![m].status = FailedStatus(attempts),
                                   ![m].attempts = attempts]
        /\ Continue(w)
     \/ /\ ~Exists(m)
        /\ Abort(w)
        /\ UNCHANGED outbox
  /\ UNCHANGED <<events, created, broker, crashes>>

\* The process is killed, or sqlite raises OperationalError on a locked
\* database: what it held in memory is gone.
Crash(w) ==
  /\ pc[w] # "idle"
  /\ crashes < MaxCrashes
  /\ crashes' = crashes + 1
  /\ Abort(w)
  /\ UNCHANGED <<store, broker>>

-----------------------------------------------------------------------------
Mark(w) ==
  \/ MarkOutboxPublished(w)
  \/ ReadAttempts(w)
  \/ MarkOutboxFailed(w)

Drain(w) ==
  \/ ListOutboxMessages(w)
  \/ \E m \in MsgId : PublishReturns(w, m) \/ PublishRaisesRuntimeError(w, m)
  \/ Mark(w)

Maintain ==
  \/ \E cutoff \in 1 .. MaxMessages + 1, old \in SUBSET events : PruneRetention(cutoff, old)
  \/ ResetDemoData

Next ==
  \/ \E e \in Events : AddEvent(e)
  \/ Maintain
  \/ \E w \in Workers : Drain(w)
  \/ \E w \in Workers, m \in MsgId : PublishRaisesTimeoutError(w, m)
  \/ \E w \in Workers : Crash(w)

Spec == Init /\ [][Next]_vars

\* Nothing in the repository schedules `outbox-drain`: the assumption is that
\* whoever runs it keeps running it, so a drain that can step eventually does.
Fairness == \A w \in Workers : WF_vars(Drain(w))

FairSpec == Spec /\ Fairness

-----------------------------------------------------------------------------
(* Properties.                                                             *)

Terminal(m) == Exists(m) /\ outbox[m].status \in {"PUBLISHED", "DEAD_LETTER"}

\* A row says PUBLISHED only if a copy of its message reached the topic,
\* whatever overlapping drains, crashes, time-outs and deletions happened in
\* between (mark_outbox_published runs only after publish returned).
PublishedWasDelivered ==
  \A m \in MsgId :
    Exists(m) /\ outbox[m].status = "PUBLISHED" => deliveries[m] >= 1

\* A row is dead-lettered only after publish really failed MaxAttempts times:
\* stale reads of `attempts` by overlapping drains can lose a count in
\* mark_outbox_failed, never invent one.
DeadLetterNeedsFailures ==
  \A m \in MsgId :
    Exists(m) /\ outbox[m].status = "DEAD_LETTER" => failures[m] >= MaxAttempts

\* The audit trail shows every attempt a row claims: no attempts value is
\* reached without an outbox.failed entry for each value below it.
AttemptsAreAudited ==
  \A m \in MsgId :
    Exists(m) => \A k \in 1 .. outbox[m].attempts :
                   Entry("outbox.failed", m, k) \in audit

Tried(m) == deliveries[m] > 0 \/ failures[m] > 0 \/ timeouts[m] > 0

\* list_outbox_messages serves the oldest first and run_once keeps that order:
\* no message reaches the topic before an older row was tried at least once.
OldestFirst ==
  \A m, k \in MsgId :
    deliveries[m] > 0 /\ k < m /\ Exists(k) => Tried(k)

\* With one drain at a time, PUBLISHED and DEAD_LETTER are final: such a row
\* changes only by being deleted.  (Two drains break this: the mark operations
\* have no status guard.)
TerminalIsFinal ==
  [][\A m \in MsgId :
       Terminal(m) => outbox'[m] \in {outbox[m], NoRow}]_vars

\* With one drain at a time, every extra copy of a message on the topic is
\* explained by a drain that died or timed out between publish and mark.
DeliveriesExplained ==
  \A m \in MsgId : deliveries[m] <= 1 + timeouts[m] + crashes

\* With one drain at a time, a failed publish goes uncounted in `attempts`
\* only if the drain died before it recorded it.
FailuresCounted ==
  \A m \in MsgId :
    Exists(m) /\ (\A w \in Workers : ~(current[w] = m /\ pc[w] \in {"failed", "counted"}))
      => failures[m] <= outbox[m].attempts + crashes

\* docs/spec-plan.md:578: a message whose publish keeps failing is dead-lettered
\* after the threshold.
ThresholdDeadLetters ==
  \A m \in MsgId :
    Exists(m) /\ (\A w \in Workers : pc[w] = "idle")
              /\ failures[m] + timeouts[m] >= MaxAttempts
      => Terminal(m)

\* When drains keep running, every row ends in PUBLISHED or DEAD_LETTER for
\* good (or is deleted): overlapping drains may undo each other's mark, but
\* not for ever, and a time-out or a crash only delays the message.
EveryMessageSettles ==
  \A m \in MsgId : Exists(m) ~> [](~Exists(m) \/ Terminal(m))
=============================================================================
