# fraud_v2: a verification project

`fraud_v2` is a local fraud-decision platform in Python: an event store with an
outbox and a hash-chained audit log, a stream consumer, a scoring engine, a
review queue whose verdicts come back as labels, and the governance and
maintenance commands around them.  Every API call is a thread and every CLI
command a process; all of them meet in one SQLite or Postgres database, each
with a connection of its own.  What is hard here is therefore what happens
*between two transactions* of one handler.

The modules in this directory model that behaviour in TLA+, TLC checks them on
small instances, and TLAPS proves the most important facts for all instances.
Paths below are relative to `src/fraud_v2/` unless they start with `docs/`.

    tlc -config Outbox_overlap.cfg MCOutbox        # one run; see "Runs"
    tlapm OutboxProofs.tla                         # one proof module

## 1. Inventory

| component | code | state | operations | talks to | module |
|---|---|---|---|---|---|
| Event store | `storage/sqlite_store.py`, `storage/postgres_store.py` | tables `events`, `decisions`, `review_cases`, `review_decisions`, `outbox_messages`, `stream_dead_letters`, `audit_entries` | `add_event(s)`, `save_*`, `list_*`, `prune_retention`, `reset_demo_data` | everyone | `PostgresStore` (every write, statement by statement); SQLite as the transactions of `Outbox`, `AuditChain`, `StreamIngestion`, `ReviewWorkflow` |
| Transactional outbox | `workers/outbox.py`, `infrastructure/redpanda_publisher.py` | `outbox_messages` rows; the list and the message each drain holds | enqueue, list, publish, `mark_outbox_published`, `mark_outbox_failed` | store, broker | `Outbox` |
| Audit chain | `_append_audit`, `verify_audit_chain` of both stores | `audit_entries`: sequence, previous hash, hash | append inside every write transaction, verify, reset | every operation of the store | `AuditChain` |
| Stream ingestion | `workers/stream_consumer.py`, `infrastructure/redpanda_dead_letter_publisher.py` | consumer position, committed offset, known keys, report | poll, decode, `add_event`, dead-letter, publish, commit | broker, store, API | `StreamIngestion`, `AtLeastOnceLog` |
| Stream supervisor | `workers/stream_supervisor.py` | batch counters, failure streak, totals | create consumer, run batch, count, give up | stream ingestion | `StreamSupervisor` |
| Scoring: features, graph, rules, policy bands | `features/builder.py`, `graph/service.py`, `rules/engine.py`, `decision/engine.py`, `policy/thresholds.py` | none: functions of the stored events | `build`, `distance_to_confirmed_fraud`, `evaluate`, `preview`, `tier_action` | store | `Scoring` |
| Review workflow | `decision/engine.py` (`score`), `review/service.py` | decisions, cases, reviews, label events; what each request holds | `score`, `ensure_case_for_decision`, `decide` | store, scoring | `ReviewWorkflow` |
| Retention and demo reset | `storage/*_store.py`, `domain/retention.py` | ages of rows | `prune_retention`, `reset_demo_data` | all tables | `PostgresStore`, and on SQLite in `Outbox`, `AuditChain`, `ReviewWorkflow` |
| Policy registry and approvals | `policy/registry.py`, `policy/approvals.py`, `cli/main.py` | `registry`, `approvals` and the policy file the API loads | register, promote, approve, promote-approved | API (reads the active policy) | `PolicyGovernance` |
| Model registry | `models/registry.py` | a JSON file | register, promote | training | `PolicyGovernance` |
| Backup, audit archive | `storage/backup.py`, `compliance/audit_archive.py` | backup, restored and archive files, two manifests | create, restore, archive | store | `Maintenance` |
| Stream health and lag | `observability/stream_health.py`, `infrastructure/redpanda_lag.py` | a lag report; the readings of one command | `stream-lag`, `stream-health` | broker, supervisor's receipt, dead letters | `StreamHealth` |
| Simulation workbench, cockpit | `simulation/workbench.py`, `cockpit.py` | none: functions of events and toggles | `run_simulation`, the signals of the page | scoring | `Workbench` |
| API, CLI | `api/main.py`, `cli/main.py` | none of their own | call the above | all | the threads and processes of the modules |
| Authentication, secrets, training, shadow models, replay and evaluation, synthetic data, converters, compliance text, readiness reports, Redis cache, Neo4j projection | | | | | not modelled (section 8) |

How the components interact:

* `add_event` writes the event, its outbox row and its audit entry in one
  transaction; the drain reads the outbox later, in another process, and the
  consumer reads the topic back, in a third.  Only database rows, the topic and
  the committed offset connect them.
* a request to score runs `preview` on one SELECT of all events, saves the
  decision in a second transaction, reads it back in a third and queues the
  case in a fourth.  A verdict takes a SELECT and three transactions; its label
  changes later scores of the same user and, through the graph, of neighbours.
* `prune_retention` and `reset_demo_data` delete rows under all of these.
* the registries are JSON files that every command reads whole and writes whole,
  without a lock; the API reads one of them for each decision.
* the maintenance and monitoring commands read the store, the broker and each
  other's files at several moments while everything else goes on.

What is hard, and which property watches it, is listed line by line in
`PROJECT.json` under "hazards": stale reads by overlapping drains, marks
without a status guard, deaths between publish and mark, the race for the audit
tail on Postgres, redelivery and rebalances, dead letters that fail half-way,
exceptions no clause catches, verdicts cut in the middle, two analysts on
one case, lost updates and torn writes of the registries, approvals of a text
that is swapped before its promotion, deadlocks between a reset and the rest or
between two prunes, marks of rows that are gone, an event id that is taken,
counts of rows that another transaction deleted, and reports put together from
readings of different moments.

What makes each component correct:

* *outbox*: a row says PUBLISHED or DEAD_LETTER only when that was earned, rows
  go out oldest first, and every row settles;
* *audit chain*: the committed chain always verifies, only grows, and shows
  damage;
* *ingestion*: no offset is committed for a message that is neither stored nor
  dead-lettered, nothing is both, and the report adds up;
* *supervisor*: totals agree with the store, and it gives up after exactly its
  streak of failures;
* *health report*: HEALTHY hides no missing event;
* *Postgres store*: what was acknowledged is stored, a row and its audit entry stay
  together, only resets and prunes can deadlock, and a prune accounts for what it took;
* *registries*: never two active entries; the API only serves a policy that was
  active; a promotion that asks for approvals has them, for that very text;
* *maintenance*: an archive is a verified piece of the chain, and a file restored
  under its manifest is a database the store really was;
* *explanations*: the workbench and the page agree with the engine;
* *review*: a case is closed exactly when it was decided, yellow decisions are
  queued, verdicts are learned, labels are backed, and a known fraud is blocked.

## 2. Modules

| module | models | composed with |
|---|---|---|
| `Outbox` | store rows, drains, broker, maintenance | proved about in `OutboxProofs`, checked in `MCOutbox` |
| `AuditChain` | append and verification on both back ends | extended by `Maintenance` |
| `Maintenance` | EXTENDS `AuditChain`; archive, backup and restore beside it | `AuditChainProofs`, `MCAuditChain` |
| `PostgresStore` | every write operation of the Postgres store, as statements | `PostgresStoreProofs`, `MCPostgresStore` |
| `AtLeastOnceLog` | abstract: what a consumer group promises about a log | refined by `StreamIngestion` |
| `StreamIngestion` | workers of one group, one partition, API writers | `StreamIngestionProofs`, `MCStreamIngestion` |
| `StreamSupervisor` | EXTENDS `StreamIngestion`; the loop over batches | extended by `StreamHealth` |
| `StreamHealth` | EXTENDS `StreamSupervisor`; the monitor beside it | `StreamSupervisorProofs`, `MCStreamSupervisor` |
| `Scoring` | the pure functions from events to a decision | used by `ReviewWorkflow` |
| `ReviewWorkflow` | EXTENDS `Scoring`; requests, cases, verdicts, labels | `ReviewVerdictProofs`, and through `Workbench` |
| `Workbench` | EXTENDS `ReviewWorkflow`; the second copy of the scoring rules | `ReviewWorkflowProofs`, `MCReviewWorkflow` |
| `PolicyGovernance` | registries, approvals, the API's policy file | `PolicyGovernanceProofs`, `MCPolicyGovernance` |

Operators whose name has a suffix after an underscore, such as
`Take_NewestFirst`, are *faults*: what the operator of the same name without
the suffix would be with a plausible bug.  The specifications do not use them;
`PROJECT.json` pairs each with the property that must notice it.

### Outbox

One action is one SELECT, one write transaction or one call of `publish`, since
SQLite opens its transaction at the first write and what a drain listed is
stale at once.

| code | model |
|---|---|
| `_add_event` + `_enqueue_outbox` (`insert or ignore`) | `AddEvent`, `EnqueueOutbox` |
| `list_outbox_messages` (PENDING or FAILED, by `created_at`, limit) | `ListOutboxMessages` |
| `publish` returns / RuntimeError / TimeoutError | `PublishReturns`, `PublishRaisesRuntimeError`, `PublishRaisesTimeoutError` |
| `mark_outbox_published` | `MarkOutboxPublished` |
| `mark_outbox_failed`: its SELECT, then its transaction | `ReadAttempts`, `MarkOutboxFailed` |
| kill, or a locked database | `Crash` |
| `prune_retention`, `reset_demo_data` | `PruneRetention`, `ResetDemoData` |

`pc[w]` is the line of `run_once` a drain is at, `batch[w]` the rest of its
list, `current[w]` its loop variable, `read[w]` the attempts it selected.
`deliveries`, `failures` and `timeouts` are what happened at the broker.  A
message is named by the rank of its `created_at`.

### AuditChain

`Begin` is the operation's own first write, which takes SQLite's lock;
`ReadTail` and `InsertEntry` are the two statements of `_append_audit`;
`InsertConflict` is the unique violation on `sequence` at READ COMMITTED, which
rolls back; `Commit`, `Rollback` and `ResetDemoData` end the picture.
`RunningHash`, `LinkHolds`, `HashHolds` and `FailureSequence` are
`verify_audit_chain` for any table.  A digest is the tuple it digests.
`ResetOnPostgres` states whether a demo reset may run while others write to
Postgres: its DELETE takes only the rows it sees, and an entry that another
transaction then commits links to a deleted one.  Runs and proofs set it FALSE.

### Maintenance

Each command is a list of steps over the store and three files (`archive`,
`backup`, `restored`), any of which may be its last.

| code | model |
|---|---|
| `write_audit_archive`: `list_audit_entries`, `verify_audit_chain`, the file, the manifest | `ArchiveLists`, `ArchiveVerifies`, `ArchiveWrites`, `ArchiveSigns` |
| `write_sqlite_backup`: `unlink`, `source.backup(target)`, digests and manifest | `BackupUnlinks`, `BackupBeginsCopy`, `BackupEndsCopy`, `BackupSigns` |
| `restore_sqlite_backup` | `RestoreCopies` (`RestoreRefuses` when it raises) |
| kill, also half-way through a file | `Killed` |

A file is absent, torn or whole; its digest is its content.  The two digests,
the integrity check and the manifest of a backup are one step.  One command of
a kind runs at a time, and nobody else uses the restore path; a command that
raises changes nothing and is no action.  `sqlite-restore` does not read the manifest
and calls the copy of a cut backup verified: `RestoredIsAPastStore` is about a
file whose digest is the one in the manifest.

### PostgresStore

An operation is a *script* of statements (`AddEvent`, `MarkOutboxFailed`,
`SaveReviewDecision`, `PruneRetention`, ...) that a session sends one by one:
`Execute` runs the next, `WaitsFor` says whose locks or unwritten keys stop it.
A statement sees the rows committed when it starts, minus and plus what its own
transaction did (`View`).  A DELETE locks its rows one after another, in the order its
plan meets them: `DeleteRow` takes any one that is free and leaves the rest to do,
`Execute` takes the last ones once none is held, and in between the DELETE may wait while
it holds some.  From its first row or wait on it goes by the ids it chose when it
started (`ListsVictims`, `DeleteWaits`).  A wait in a circle ends with `DeadlockDetected`, and
`ConnectionLost` is any other error.  The marks read their row back as the last thing of
their transaction (`ReadMarked`); that it is gone makes them raise only after
the `with` block has committed, so the step reads and goes on.  Rows keep their key and what later
statements read.  The audit entry is reduced to its sequence, on which any two
concurrent writers collide: the loser's transaction is rolled back with
UniqueViolation and no caller tries again, so a mark that loses after its
publish means a second publish.  `add_events` and the reset commit event by
event: `queue` holds the events still to come, and `AddsNext` begins the
transaction of the next.  A uuid is drawn once (`used`), also when its row is
deleted later.

Which rows have expired depends on the request's `as_of` and days and each table's own
clock: the model takes the set of tables whose rows have all expired
(`Cutoffs`).  `RetentionReport` counts table by table, each in a transaction of
its own; `Prunes` without `execute` is a report.

### StreamIngestion and AtLeastOnceLog

`pc[w]` follows `run`: poll, decode, lookup, insert, dead_letter, publish,
commit_dead_letter, commit.  `Lookup` is the SELECT of `add_event` and `Insert` its write
transaction, with the unique constraints on key and event id; `Deliver`,
`EmptyPoll` and `PollError` are the outcomes of `poll`; `Assign` is a rebalance;
`Commit`, `CommitDeadLetter` and `CommitRaises` are the synchronous commits,
which succeed only for the owner of the partition; `DecodeRaises`, `PublishRaises...`,
`PollRaisesRuntimeError` and `Crash` are the exceptions and the kill.  A message
is an event, an event that leaves out fields the envelope draws (`partial`), or
no event (`empty`, `invalid`, `undecodable`).  `IdIsTaken` is an event whose id is stored under another
key: `Lookup`, by the key, does not find it, and `Insert` hits the primary key, which no clause of
`run` catches.

`AtLeastOnceLog` has a cursor and a set of handled offsets; the cursor moves
only over handled ones and never back.  `ImplementsLog` is the refinement:
cursor is `committed`, handled is what the store holds or has dead-lettered.

### StreamSupervisor

One process runs the steps of one worker and counts: `BatchStarts`,
`BatchContinues`, `BatchCompletes`, `BatchFails`, `CreateFails`,
`SupervisorDies` (anything that is no RuntimeError) and `Returns`.

### StreamHealth

`StreamLag` is `stream-lag`, which leaves a report in a file; `ReadLag`,
`ReadReceipt` and `Report` are the readings of `stream-health`: a live probe,
the file or nothing, the receipt if there is one, and the sample of dead
letters, each at its own moment of a supervisor that goes on.  `LagAlerts`,
`SupervisionAlerts`, `DeadLetterAlerts`, `Status` and `HealthScore` are the
grading.  The topic does not grow while it is watched: `HealthyMeansStored`
speaks of the messages that were there when the lag was read, and of at most
the `DeadLetterRows` newest dead letters, the sample the report reads.  An old
lag file is only more pessimistic, since the committed offset never moves back.

### Scoring

An event is its key, type, time, references and the payload fields the code
reads.  A condition on fields only one feature asks for (a virtual camera, a
mechanical mouse, a failed login) is the field `risky`.  `Features` has the
nine features the rules read; `DistanceToConfirmedFraud` is a breadth-first
search up to the cut-off 3 over `Edges`; `Raised` and `Severity` are the
rules, `Total` their sum, `RiskScore` the cap and the degraded floor, and
`Action` the bands.  The policy's thresholds are constants with the assumption that
`ThresholdPolicy` validates.  As in the code, features are cut at `as_of` and
the graph is not.

### ReviewWorkflow

| code | model |
|---|---|
| `DecisionEngine.score`: `preview` | `MakeDecision` |
| ... `save_decision` | `SaveDecision` (the CLI's `score` ends here) |
| `ensure_case_for_decision`: `get_decision` | `GetDecision` |
| ... `save_review_case` | `SaveReviewCase` |
| `decide`: `_case_by_id`, whatever the case's status | `ReadCase` |
| ... `save_review_decision`, which closes the case | `SaveReviewDecision` |
| ... the MANUAL_REVIEW_DECIDED event, then the LABEL_CREATED event | `AddReviewEvent`, `AddLabel` |
| kill, prune, reset, events from outside | `Crash`, `PruneRetention`, `ResetDemoData`, `Ingest` |

A uuid and the `created_at` drawn with it are one stamp of `clock`.
`PruneRetention(asOf, kept)` counts three periods back from `asOf`: one for events, one for
decisions, and one for reviews with their cases, as `retention-prune` and the API take
`event_days`, `decision_days` and `review_days`, in any relation to each other (`Periods`).
`disturbed` has the stamps of requests that were killed or in progress when rows were
deleted, and `forgotten` what prunes took: the times of events, the decisions
of cases, the reviews.  The properties excuse by name what these explain; no action
reads them.

### Workbench

`SimulatedSeverity`, `SimulatedScore` and `SimulatedAction` are the workbench's
copy of the rules and bands, `Contribution` the row of a signal on the cockpit page,
`Scenarios` the scenarios of that page.  They have no state; the properties
compare them with every decision `ReviewWorkflow` makes.

### PolicyGovernance

| code | model |
|---|---|
| `register`, `promote` of the policy registry | `AfterRegister`, `AfterPromote` |
| `register_from_report`, `promote` of the model registry | `AfterRegisterModel`, `AfterPromoteModel` |
| `JsonPolicyApprovalStore.add`, `status` | `AfterAdd`, `VerifiedApprovers`, `IsApproved` |
| `policy-register`, `policy-promote` | `PolicyRegister`, `PolicyPromote` |
| `policy-promote-approved`: look up, check, promote | `PolicyPromoteApproved`, `ApprovalStatus`, `PromoteApproved` |
| `policy-approve`: look up, add | `PolicyApprove`, `AddApproval` |
| `model-register`, `model-promote` | `ModelRegister`, `ModelPromote` |
| `write_text` of each file in turn | `Open` (truncates), `Write` (whole, or overlaid by another writer) |
| kill, or an exception on an unreadable file | `Killed` |

A command reads its file once and holds what it will write.  A policy's text
stands for its SHA-256.  `promoted`, `signed` and `overtaken` are history for the
properties.  Registration reads the policy file twice (load, then hash); as the
file is an operator's own and nothing here writes it, the model takes one text.

## 3. Runs

| run | instance | shows |
|---|---|---|
| `outbox_overlap` | 2 drains, 2 events, batch 2, 2 attempts, up to 3 failures a message, 1 crash | PUBLISHED and DEAD_LETTER are earned, attempts are audited, oldest first, every row settles |
| `outbox_single` | 1 drain, prune and reset, 4 failures, 1 time-out, 1 crash | terminal rows are final; extra copies and uncounted failures each have a death or a time-out to explain them |
| `outbox_timeout` (violation) | 1 drain, time-outs only | finding 1 |
| `audit_chain` | 2 sessions, both back ends, transactions of 1 or 2 entries, 3 changes, 1 reset, 3 maintenance commands | the chain verifies, is append-only, shows damage, no session waits for ever; archives are verified, restored files are past stores |
| `stream_ingestion` | 2 workers (one publishes dead letters), 2 messages: three events (two payloads under one key, one id under two keys), invalid or undecodable; API writes, 1 fault | no loss, nothing both stored and dead, the report adds up, the log is implemented, every message is handled as long as none is undecodable or has an id that is taken |
| `stream_poison` (violation) | 1 worker, undecodable messages | finding 2 |
| `stream_redelivery` (violation) | 1 worker, 1 message without `event_id`, 1 fault | finding 3 |
| `stream_supervisor` | 3 batches, 2 faults, streak of 2, lag thresholds 1 and 2, one health report | totals are backed, acknowledged messages are reported, the streak is exact, the supervisor ends, HEALTHY hides nothing |
| `review_workflow` | 2 users sharing a phone, 1 scoring and 2 analyst threads, API and CLI, 2 decisions, 2 outcomes, 1 incident (a prune under one of 2 sets of periods, a reset or a kill) | a case is closed exactly when it was decided, yellow decisions are queued, verdicts are learned, labels are backed, a known fraud is blocked; workbench and page agree with every decision |
| `policy_governance` | 2 shells, 4 commands, 3 texts of 2 versions, 2 approvers of 2 required, 2 models | at most one active entry, the API serves what was promoted, promotions have their approvals |
| `postgres_store` | 2 sessions, 3 calls of any kind, 4 events: two under one key, two with one id, and one apart; 1 case with 2 reviews; events alone expire, or everything but them | acknowledged events are stored, rows and audit stay together, only a reset or two prunes deadlock, prunes account for their rows, every call ends |
| `scoring_past` (violation) | the same users, no incident | finding 4 |

Bounds, and why they are enough to meet the cases the properties are about:

* `MaxMessages` 2 with `BatchSize` 1 or 2: order needs two rows, and a drain
  with one row or with all of them in hand are the two situations that differ.
* `outbox_overlap` has no time-outs and no maintenance, which are in `outbox_single` and
  `outbox_timeout`: that a time-out keeps a row from settling is finding 1.
* `MaxFailures` exceeds `MaxAttempts` by one or more, so a row can be failed after it was
  dead-lettered, and lost counts can be made up for.
* `MaxCrashes`, `MaxFaults`, `MaxIncidents` 1 (2 for the supervisor): every
  property excuses a single incident by name; a second one of the same kind
  meets the same states again.  The proofs have no such bound.
* `MaxChanges` 3 with batches of 2: two sessions can race for one sequence
  while one of them has a second entry to append; the theorem has any number of
  sessions.  `MaxCommands` 3: a command of each kind, or one again after a kill;
  `Limit` 2 of up to 5 entries makes an archive a proper piece of the chain.
* `policy_governance`: 2 shells with 4 commands let a promotion follow a
  registration and two approvals while the other shell swaps the text; the
  theorems have no such bound.
* `postgres_store`: a deadlock, a lost row or a miscount takes two transactions; the
  third call meets what they left.  Of what earlier calls leave, two events give
  keys, marks and resets something to find, and a prune two rows of a table to take
  one by one.
* `Length` 2: a failing message and one whose commit covers it.
* `MaxBatches` 3 and a streak of 2: failure, success, failure, or the streak at once.
* `MaxDecisions`, `MaxReviews` 2: two cases, or two verdicts on one case;
  `MaxLag` 1: an API score as of now and as of just before the last change
  (the CLI's is as of the last event);
  `Periods`: events and decisions go first, and reviews with their cases a stamp later, or
  these go first, decisions a stamp later, and events stay: each of the losses that
  `forgotten` excuses happens.
* the windows of the features (1, 2, 3 and 4 units) only keep their order; the
  instances have events at time 0 and requests a few stamps later.

Symmetry is used in runs without liveness, for drains and events, and for analysts.
Deadlock checking is off where the bounds, or simply nothing left to do, stop the system.

## 4. Fairness

* `Outbox!FairSpec`: weak fairness of `Drain(w)`.  Nothing in the repository
  schedules `outbox-drain`; the assumption is that whoever runs it keeps running it.
  Crashes and time-outs are never forced, and bounded.
* `AuditChain!FairSpec`: a session that has begun executes its next statement
  unless the database makes it wait: it is the thread of a request.
* `StreamIngestion!FairSpec` and `SFairSpec`: a worker that can step *without a
  fault* eventually does: the supervisor starts batch after batch and
  `scripts/local-stream-service.ps1` restarts it.  Faults are never forced.
* `PostgresStore!FairSpec`: a caller sends its next statement as long as it does
  not have to wait, and Postgres breaks a deadlock after its `deadlock_timeout`.
  New calls and lost connections are never forced.
* `Maintenance!MFairSpec` is that of the audit chain, and `StreamHealth!HFairSpec` that of the
  supervisor: operators' commands may stop anywhere.
* `PolicyGovernance` has no fairness: an operator's command may be killed at
  any step and nothing repeats it.
* `ReviewWorkflow` has no fairness: nothing in the code repeats a request that was
  cut, which is why its properties excuse cut requests instead of promising that they end.

## 5. Proofs

All theorems hold for every value of the constants that satisfies the named
assumptions of the modules; TLC checked each invariant first.  38 theorems are
listed in `PROJECT.json`; they state 35 of the 40 properties the passing runs check,
all but the five liveness properties.

### Outbox: `OutboxProofs`

`TInv` (types, and a drain between publish and mark holds a message) is under all of them.

| theorem | assumes | inductive invariant, and why it is needed |
|---|---|---|
| `PublishedIsDelivered` | no drain is a dry run: `outbox-drain` without `--publish` marks rows without sending | `PInv`: a drain about to mark a row published has delivered it |
| `DeadLetterIsEarned` | | `FInv`: the attempts of a row, and those any drain has read, never exceed the failures, less those a drain has yet to record; without the last part a stale read could not be followed to its write |
| `AttemptsHaveEntries` | | `AInv`: also the attempts a drain has *read* are audited, as long as the row exists; `NamesInv` (no name is used again) keeps a new row from inheriting the list of an old one |
| `OldestGoesFirst` | no dry run | `OInv`: what is older than a message of a drain's list and not in the list was tried |
| `SettledRowsStay` | one drain at a time | `SInv`: the row a drain holds or lists is open |
| `CopiesAreExplained`, `FailuresAreCounted` | one drain at a time | `DInv` and `CInv`: the same sums with the message in the drain's hands on one side |

The last three are false for overlapping drains: that is what the hazard is about.

### Audit chain and maintenance: `AuditChainProofs`

* `ChainAlwaysValid`, `VerificationDetectsDamage`: `CInv` says that the rows with
  every session's pending ones are numbered without gaps, each linked to its
  predecessor, that on SQLite only one session has pending rows, and that a
  session whose tail is stale meets a taken sequence: so the insert that
  succeeds is the one that read the newest entry.  Damage is shown by any chain of that
  form, by arithmetic on the sequence and by the link of the first row that lost
  its predecessor.
* `AuditOnlyGrows` (action property), from the same invariant.
* `ArchivesAreVerified`, `RestoresArePastStores`: `MInv` follows a copy through
  a command: the listing is an unbroken piece of a chain that has only grown since
  (`GoodListing`), what was verified later contains it (`Verified`), and a backup
  contains whole transactions only (`GoodBackup`).  `CopiesAge` says that none of these
  becomes false as the store goes on.

All assume that the demo reset does not run on Postgres (`~ResetOnPostgres`).

### Stream ingestion: `StreamIngestionProofs`

* `NoMessageIsLost`, `IngestionImplementsLog` (the refinement of `AtLeastOnceLog`, every step a
  step of it or a stutter) and `OffsetsNeverMoveBack`: `LInv` says that below the committed
  offset, and below the position of every owner up to the message it holds, messages are
  handled, and that a worker about to commit has handled what it holds.
* `StoredOrDead`: `KInv` says that a key is stored once and that a worker is
  about to dead-letter an event only when *another* event has its key.
* `ReportsAddUp`: `RInv` balances the counters at every label of `run`, with what the current
  message still owes.

### Supervisor and health: `StreamSupervisorProofs`

* `SupervisorGivesUpAfterStreak`: `StreakInv`, the counter is the length of the
  run of failures at the end of the outcomes.
* `SupervisorTotalsAreBacked`: `BackedInv`, every event counted put a key of its
  own into the worker's snapshot of keys, and the store holds every one of these.
* `SupervisorReportsCommitted`: `ScannedInv`, the position of the one worker,
  which is all it can commit, is no further than its batches have scanned.
* `HealthyReportsAreTrue`: `HealthInv`, a lag once read bounds what is not
  acknowledged from then on.  It assumes `WarningDeadLetters <= DeadLetterLimit`: a sample
  too short to reach the threshold can hide any number of dead letters.  The command's
  defaults (1 and 100) satisfy it; an operator who warns from 200 on has to raise the limit too.

### Review workflow and workbench: `ReviewWorkflowProofs`, `ReviewVerdictProofs`

* `TypeCorrect`, from lemmas that the sum of severities and the bands are total;
  `FraudIsBlocked`, since a confirmed label alone adds 100 and no policy has a
  red band that starts above 100.
* `CasesTrackReviews`: `CaseInv` adds that a case about to be saved is open and known to
  no other row or thread (`Fresh`) and that a review is younger than its case
  (`Younger`): the latter is why a prune that cuts both tables at one stamp
  cannot keep a closed case and drop its review.  Both are kept for the same `review_days`
  in the code.
* `YellowDecisionsQueued`: `QueueInv` says that a thread that still owes a case is the only
  one that knows the decision (`Unqueued`), and that a case is younger than its
  decision.  A prune can take the case and spare its decision, when `review_days` is shorter than
  `decision_days`; the decision is then excused by `forgotten`.
* `LabelsBacked`, `VerdictsLearned`: `VerdictInv` says that nobody else stores or holds
  anything with the stamp of the review a thread holds (`Unused`), so neither
  `add_event` of `decide` is ever refused as a duplicate; that what the
  thread's earlier transactions stored is still there unless rows were deleted
  meanwhile (`Backed`); and that every confirmed outcome has its label, is on
  the way to it, or is excused (`Learned`).  Events and reviews are cut apart: `Dated`
  says that the review event and its label carry the stamp of the review, so one cut
  takes both or neither, and a review that goes while its label stays is `forgotten`.
* `WorkbenchAgrees`, `PageExplainsScore`, for any bands, severities of large
  amounts and instants: the sums are compared signal by signal, then through
  the cap, the degraded floor and the bands.

### Governance: `PolicyGovernanceProofs`

`OneActive`, `ServedPromoted` and `ApprovedPromotion`, for any number of shells,
policies, approvers and commands.  `GInv` says of every file *and of every list
a command holds* that it is one an operation could have produced (`Writable`):
a stale list written late is still a list with one active entry.  `ServedInOrder` keeps
the text held for the API among the texts active in the registry list held
beside it until that is written, and among the promoted ones after.
`LookupHolds` says that a command that looked a version up knows its registered
text as long as no registry write followed and the registry can be read: a
truncated one cannot.

### Postgres store: `PostgresStoreProofs`

For any number of connections, calls, events, uuids and any batches.  `ScriptInv` says that
what a session has left to send is well formed (`WellFormed`: its one commit at the end,
a lookup only at the start, writes to one of the seven tables) and that before its first
statement and outside a call it holds no rows.  The lemmas from `ScriptConcat` on
derive that of every operation from its parts, and six kinds of steps (`Begins`,
`Reads`, `Puts`, `Answered`, `Keeps`, `Fails`) stand for the statements in what follows.

* `AnswersAreStored`: a caller is told only what its own transaction wrote or
  what it read among the committed rows, and only a prune or a reset deletes.
* `OnlyDeletesKnot`: a session waits at a write for a row or key of a table, held by a
  session whose own next write is to a table of higher rank, or is a DELETE of the same table that
  has got some of its rows (`Underway`).  `OrderInv` says that the statements of every script but the
  reset's ascend in `Rank`, and that what a session holds is of lower rank than what
  it has still to write, but for such a DELETE; `SparesInv` that only prunes and resets delete.  Of a
  knot of waits without a reset, take the deletes of the highest rank there is
  (`Highest`, by `WFMin` on a finite range of ranks): each waits for another of them, so they are a
  knot themselves, and `Deadlocked`, which speaks of a minimal one, is about nothing else.
* `RowsAreLocked`: `RowInv` says what the waits of the statements give, that no two
  transactions hold a row or rows of one id (`Locks`), and that what a script has still to
  insert has a uuid drawn for it (`Gives`).  It is read off the rows each
  step adds, replaces or removes (`Added`, `Replaced`, `Removed`).
* `PrunesAreAccounted` (action property): `AccountInv` says that what a prune deleted is
  counted, and that what it counted is about to be deleted (`Pending`, between its SELECT
  of ids and the DELETE by them) or can no more be committed by anyone (`Gone`): the row is
  locked, or another transaction took it and, since `UuidInv` says that a uuid is inserted
  once, nobody brings it back.
* `TransactionsStayTogether`: a transaction that commits with only half of what it owes
  would be seen by all, so `TogetherInv` says what an open one owes.  Every script is `Booked`:
  an inserted row is followed by the entry of its creation and an event by its message.
  `Books(s)` carries that over to the statements left: a row written has its entry in
  the log, written or still to send (`Registers`), an event its message and a message its
  event (`Matches`), a row deleted a successor unless a prune takes it (`Replenishes`), and
  the one entry a transaction writes comes next in the log (`OneEntry`: it is one more than
  what the SELECT of the tail found, and no committed entry has its id, hence
  `Numbered`).  A commit turns what was written into what is stored, and
  `Locks` keeps it from pulling away what another open transaction relies on: two
  cannot both hold the next entry.  A reset is `Alone` as long as nothing overlapped it, and its
  first transaction `Clears` every table, of which it may have deleted a part.

Type correctness is proved for the outbox and the review workflow, and in
`GInv`, `CInv`, `LInv` and `ScriptInv` as far as the proofs need it for the
others; each type invariant was also used while developing its module, but is no property of
a run there.

### Only model-checked

* Liveness (`EveryMessageSettles`, `EverySessionEnds`, `EveryMessageIsHandled`,
  `SupervisorEnds`, `EveryCallEnds`): it rests on fairness and ENABLED, which
  the prover does not treat.
* What `Scoring`'s folds compute on all inputs (the breadth-first search, the
  windows): induction over data.

## 6. Findings

1. `outbox_timeout`: `TimeoutError` of `flush` is no RuntimeError; the attempt is
   never counted, and the row never reaches the dead-letter threshold of
   docs/spec-plan.md:578.
2. `stream_poison`: bytes that are not UTF-8 end every run that reads them;
   no dead letter, and the partition stops there.
3. `stream_redelivery`: a message that leaves out `event_id` or `received_at`
   conflicts with itself when it is delivered twice.
4. `scoring_past`: a score as of an earlier time uses labels that came later, through the graph.

Seen on the way, without a run of its own: `add_event` looks for the idempotency key only, so an event
whose `event_id` is stored under another key hits the primary key, and the IntegrityError ends every
run that reads it; nothing is dead-lettered and the partition stops there, although
docs/spec-plan.md:283 wants ids globally unique and docs/spec-plan.md:583 a dead letter for a poison
message (`EveryMessageIsHandled` excuses such a message by name, as it does the one of finding 2, and
fails in `stream_ingestion` without that excuse);
`decide` accepts a case that is already closed,
where docs/spec-plan.md:402 lists "409 already closed"; the CLI's `score` queues no case
(FR-006, docs/spec-plan.md:147); the label of a decision about a device or any other
entity is put on `USER:<id>` (`review/service.py:57`); a fraud label whose target no event refers to
makes the graph search raise (`SearchRaises`; when the scored node is itself a
fraud the outcome depends on the order of a Python set, and the model takes the
answer 0); reviews outlive the labels they produced, so
a user confirmed as a fraud is no longer blocked once events are pruned; with
`event_days` above `review_days` a label outlives its review, and with `review_days` below
`decision_days` a manual-review decision its case.  Registering
the active policy again replaces it by a candidate, so that none is active, where
CHANGELOG.md:263 speaks of keeping exactly one; `policy-promote` asks for no approvals, and
`policy-register --status active` does not write the API's file.  On Postgres a prune
beside another prune or reset may count rows as deleted that the other one took
(`_delete_decisions_before` and `_delete_json_created_before` count what they selected), two
prunes may deadlock over the rows of one table, a mark whose row a prune took stores
its audit entry and then raises KeyError, and a
reset beside another call may separate an event from its outbox message or
audit entry and break the chain.  SQLite retention compares ISO texts, so another UTC offset shifts
its cut-off, and `verify_audit_chain` on Postgres hashes the text of a `timestamptz`, which
depends on the session's time zone.

## 7. Plan

1. done: outbox, audit chain, stream ingestion and supervisor, scoring and review; their first theorems.
2. done: `PolicyGovernance` and its theorems; `Maintenance` beside the audit
   chain; `StreamHealth` beside the supervisor; `PostgresStore`; `Workbench` and its theorems.
3. done: theorems for every safety property and action property of the passing runs.
4. `Scoring`: monotonicity (an added event of a kind the rules count never lowers a score).

## 8. Not modelled

Authentication and secrets (stateless checks by a cryptographic library);
training, shadow evaluation, replay and capacity reports (offline, single
threaded, floating point); synthetic data, converters and mock vendors (data
mapping); compliance texts and encryption of one document; readiness reports and
dashboards (they only read); the Redis cache and the Neo4j projection (used by
smoke tests only, read back by nothing).  Of modelled components: formatting,
audit payloads, trace ids, the two income-digit features and `latest_device_known`, which no rule
reads, the display of a neighbourhood, the cockpit's table of decision modes (rounded profits) and
the other pages of the API, which only read.  A dry run of `outbox-drain`, which marks rows without sending
them, is the constant `DryRun`, excluded where a property is about delivery.  A refusal by the
broker after `produce` is invisible to the code (there is no delivery callback) and
to the model.
