--------------------------- MODULE StreamIngestion ---------------------------
(***************************************************************************)
(* The stream consumer of fraud_v2: StreamIngestionWorker.run              *)
(* (workers/stream_consumer.py) polls a topic, adds each event to the      *)
(* store, dead-letters what it cannot add, and commits the offset.         *)
(*                                                                         *)
(* `stream-consume` and `stream-supervise` are processes, so several       *)
(* workers of one group may run at once while the API adds events too.     *)
(* One partition is modelled: the group protocol gives it to one worker at *)
(* a time, and a worker that has lost it can still write to the store, but *)
(* its commit fails.  add_event is two steps: the SELECT that looks the    *)
(* idempotency key up does not belong to the write transaction.            *)
(***************************************************************************)
EXTENDS Naturals, FiniteSets

CONSTANTS
  Workers,         \* consumers of the group
  DlqWorkers,      \* those started with --publish-dead-letters
  Events,          \* event envelopes: [id, key], equal when their payloads are
  PartialKeys,     \* keys of messages that leave event_id or received_at out
  BadKinds,        \* kinds of messages that are no event
  Length,          \* messages in the partition
  MaxScanned,      \* run's max_messages
  MaxEmptyPolls,   \* StreamIngestionWorker.max_empty_polls
  ApiWrites,       \* whether the API adds events meanwhile
  MaxFaults,       \* bound: faults of the network, the broker or the process
  NoWorker,        \* nobody owns the partition
  NoOffset,        \* offset of an error message, which is no log entry
  NoEvent          \* the message is no event

ASSUME ParametersAssumption ==
  /\ DlqWorkers \subseteq Workers
  /\ BadKinds \subseteq {"empty", "invalid", "undecodable"}
  /\ Length \in Nat
  /\ MaxScanned \in Nat \ {0}
  /\ MaxEmptyPolls \in Nat \ {0}
  /\ ApiWrites \in BOOLEAN
  /\ MaxFaults \in Nat
  /\ NoWorker \notin Workers
  /\ NoOffset \notin Nat
  /\ NoEvent \notin Events

Offset == 0 .. Length - 1

\* EventEnvelope draws event_id and received_at when a message lacks them.
Payload ==
  [kind : {"event"}, event : Events] \union [kind : {"partial"}, key : PartialKeys]
    \union [kind : BadKinds]

Counters == {"scanned", "ingested", "duplicates", "failed", "conflicts",
             "invalid_messages", "dead_lettered", "dead_letter_published",
             "dead_letter_publish_failed", "empty_polls"}

VARIABLES
  log,           \* the partition: what was produced, in order
  committed,     \* the group's committed offset
  owner,         \* the worker the partition is assigned to
  events,        \* the events table
  deadLetters,   \* rows of stream_dead_letters for each message
  dlq,           \* copies of each message on the dead-letter topic
  pc,            \* where each worker is in run
  position,      \* offset of the message its next poll returns
  current,       \* offset of its loop variable `message`
  event,         \* the event it parsed from that message
  known,         \* known_idempotency_keys
  report,        \* the counters of its run
  faults         \* faults so far

group == <<committed, owner, position>>
store == <<events, deadLetters>>
held == <<current, event>>
vars == <<log, group, store, dlq, pc, held, known, report, faults>>

NoCounts == [c \in Counters |-> 0]

TypeOK ==
  /\ log \in [Offset -> Payload]
  /\ committed \in 0 .. Length
  /\ owner \in Workers \union {NoWorker}
  /\ events \subseteq Events
  /\ deadLetters \in [Offset \union {NoOffset} -> Nat]
  /\ dlq \in [Offset \union {NoOffset} -> Nat]
  /\ pc \in [Workers -> {"stopped", "poll", "decode", "lookup", "insert",
                         "dead_letter", "publish", "commit_dead_letter", "commit"}]
  /\ position \in [Workers -> 0 .. Length]
  /\ current \in [Workers -> Offset \union {NoOffset}]
  /\ event \in [Workers -> Events \union {NoEvent}]
  /\ known \in [Workers -> SUBSET {e.key : e \in Events}]
  /\ report \in [Workers -> [Counters -> Nat]]
  /\ faults \in 0 .. MaxFaults

Init ==
  /\ log \in [Offset -> Payload]
  /\ committed = 0
  /\ owner = NoWorker
  /\ events = {}
  /\ deadLetters = [o \in Offset \union {NoOffset} |-> 0]
  /\ dlq = [o \in Offset \union {NoOffset} |-> 0]
  /\ pc = [w \in Workers |-> "stopped"]
  /\ position = [w \in Workers |-> 0]
  /\ current = [w \in Workers |-> NoOffset]
  /\ event = [w \in Workers |-> NoEvent]
  /\ known = [w \in Workers |-> {}]
  /\ report = [w \in Workers |-> NoCounts]
  /\ faults = 0

Go(w, label) == pc' = [pc EXCEPT ![w] = label]

Fault == faults < MaxFaults /\ faults' = faults + 1

Incremented(counts, names) ==
  [c \in Counters |-> IF c \in names THEN counts[c] + 1 ELSE counts[c]]

Count(w, names) == report' = [report EXCEPT ![w] = Incremented(@, names)]

\* The message is forgotten.
Drop(w) ==
  /\ current' = [current EXCEPT ![w] = NoOffset]
  /\ event' = [event EXCEPT ![w] = NoEvent]

\* The process is gone or the consumer closed: the group takes the partition
\* back.
Leave(w) ==
  /\ Go(w, "stopped")
  /\ owner' = IF owner = w THEN NoWorker ELSE owner
  /\ Drop(w)
  /\ UNCHANGED <<committed, position>>

\* An exception that run does not catch: the report is lost.
Die(w) ==
  /\ Leave(w)
  /\ report' = [report EXCEPT ![w] = NoCounts]

\* The condition of the while loop.
LoopGoesOn(w) ==
  /\ pc[w] = "poll"
  /\ report[w]["scanned"] < MaxScanned
  /\ report[w]["empty_polls"] < MaxEmptyPolls

-----------------------------------------------------------------------------
(* The consumer group.                                                     *)

\* Where an assigned consumer starts reading: the committed offset (nothing
\* committed and auto.offset.reset = earliest give 0).
\* Fault: the group forgets what it committed.
StartOffset_Earliest == 0
StartOffset == committed

\* The broker assigns the partition to a worker inside poll.  Taking it from
\* a worker that still runs is a rebalance, and counts as a fault.
Assign(w) ==
  /\ LoopGoesOn(w)
  /\ owner # w
  /\ IF owner = NoWorker THEN UNCHANGED faults ELSE Fault
  /\ owner' = w
  /\ position' = [position EXCEPT ![w] = StartOffset]
  /\ UNCHANGED <<log, committed, store, dlq, pc, held, known, report>>

-----------------------------------------------------------------------------
(* StreamIngestionWorker.run.                                              *)

\* Fault: the store is not asked.
KnownKeys_Nothing == {}

KnownKeys == {e.key : e \in events}

\* subscribe, and the snapshot of the keys the store holds.
Start(w) ==
  /\ pc[w] = "stopped"
  /\ Go(w, "poll")
  /\ known' = [known EXCEPT ![w] = KnownKeys]
  /\ report' = [report EXCEPT ![w] = NoCounts]
  /\ UNCHANGED <<log, group, store, dlq, held, faults>>

\* Fault: an empty poll is not counted.
EmptyPoll_Uncounted(w) ==
  /\ LoopGoesOn(w)
  /\ owner \notin {w, NoWorker} \/ (owner = w /\ position[w] = Length)
  /\ UNCHANGED vars

\* poll returned None: no message is left, or the partition is another
\* worker's, or (a fault) the broker was slow.
EmptyPoll(w) ==
  /\ LoopGoesOn(w)
  /\ \/ owner \notin {w, NoWorker} /\ UNCHANGED faults
     \/ owner = w /\ position[w] = Length /\ UNCHANGED faults
     \/ Fault
  /\ Count(w, {"empty_polls"})
  /\ UNCHANGED <<log, group, store, dlq, pc, held, known>>

\* `empty_polls = 0` and the counts of a message, with the branch it takes.
Branch(w, label, names) ==
  /\ Go(w, label)
  /\ report' = [report EXCEPT ![w] =
                  Incremented([@ EXCEPT !["empty_polls"] = 0], names \union {"scanned"})]

Classify_InvalidEscapes(w, payload) ==
  IF payload.kind \in {"event", "partial"} THEN Branch(w, "lookup", {})
                            ELSE Branch(w, "decode", {})

\* No payload, and text that is no EventEnvelope, are dead-lettered; bytes
\* that are no UTF-8 raise UnicodeDecodeError, which run does not catch.
Classify(w, payload) ==
  CASE payload.kind \in {"event", "partial"} -> Branch(w, "lookup", {})
    [] payload.kind \in {"empty", "invalid"} ->
         Branch(w, "dead_letter", {"failed", "invalid_messages"})
    [] payload.kind = "undecodable" -> Branch(w, "decode", {})

\* The events a message may parse to.
Readings(payload) ==
  IF payload.kind = "event" THEN {payload.event}
  ELSE {e \in Events : payload.kind = "partial" /\ e.key = payload.key}

\* An id that uuid4 has not drawn before and that no message carries.
Fresh(id) ==
  /\ \A e \in events \union {event[w] : w \in Workers} : e # NoEvent => e.id # id
  /\ \A o \in Offset : log[o].kind = "event" => log[o].event.id # id

\* model_validate_json: what a message leaves out is drawn at every delivery.
Parse(w, payload) ==
  IF payload.kind \in {"event", "partial"}
    THEN \E e \in Readings(payload) :
           /\ payload.kind = "partial" => Fresh(e.id)
           /\ event' = [event EXCEPT ![w] = e]
    ELSE event' = [event EXCEPT ![w] = NoEvent]

Receive(w) ==
  /\ LoopGoesOn(w)
  /\ owner = w
  /\ position[w] < Length
  /\ position' = [position EXCEPT ![w] = @ + 1]
  /\ current' = [current EXCEPT ![w] = position[w]]
  /\ Parse(w, log[position[w]])

\* Fault: enable.auto.commit, so that receiving a message acknowledges it.
Deliver_AutoCommit(w) ==
  /\ Receive(w)
  /\ Classify(w, log[position[w]])
  /\ committed' = position[w] + 1
  /\ UNCHANGED <<log, owner, store, dlq, known, faults>>

\* poll returned the next message of the log.
Deliver(w) ==
  /\ Receive(w)
  /\ Classify(w, log[position[w]])
  /\ UNCHANGED <<log, committed, owner, store, dlq, known, faults>>

\* poll returned an error of the consumer, which is dead-lettered too.
PollError(w) ==
  /\ LoopGoesOn(w)
  /\ Fault
  /\ Branch(w, "dead_letter", {"failed"})
  /\ Drop(w)
  /\ UNCHANGED <<log, group, store, dlq, known>>

\* _message_text raises UnicodeDecodeError.
DecodeRaises(w) ==
  /\ pc[w] = "decode"
  /\ Die(w)
  /\ UNCHANGED <<log, store, dlq, known, faults>>

\* Fault: the payload hashes are not compared.
Lookup_IgnoresPayload(w) ==
  LET e == event[w] IN
  /\ pc[w] = "lookup"
  /\ Go(w, IF \E f \in events : f.key = e.key THEN "commit" ELSE "insert")
  /\ UNCHANGED <<log, group, store, dlq, held, known, report, faults>>

\* Fault: a conflict is not counted as failed.
ConflictCounts_NotFailed == {"conflicts"}

ConflictCounts == {"failed", "conflicts"}

\* The SELECT of add_event: the key is new, or known with this payload, or
\* known with another one (DuplicatePayloadConflict).
Lookup(w) ==
  LET e == event[w]
      same == {f \in events : f.key = e.key}
  IN
  /\ pc[w] = "lookup"
  /\ \/ same = {} /\ Go(w, "insert") /\ UNCHANGED report
     \/ same = {e} /\ Go(w, "commit") /\ UNCHANGED report
     \/ /\ same \notin {{}, {e}}
        /\ Go(w, "dead_letter")
        /\ Count(w, ConflictCounts)
  /\ UNCHANGED <<log, group, store, dlq, held, known, faults>>

\* events has a primary key on event_id and a unique idempotency_key.
Free(e) == \A f \in events : f.id # e.id /\ f.key # e.key

\* Fault: an insert that loses the race is treated as a conflict.
Insert_DeadLettersRaces(w) ==
  LET e == event[w] IN
  /\ pc[w] = "insert"
  /\ IF Free(e) THEN events' = events \union {e} /\ Go(w, "commit") /\ UNCHANGED report
                ELSE UNCHANGED events /\ Go(w, "dead_letter") /\ Count(w, ConflictCounts)
  /\ UNCHANGED <<log, group, deadLetters, dlq, held, known, faults>>

\* The write transaction of add_event.  When another process has inserted
\* the key or the id since the lookup, the IntegrityError escapes run.
Insert(w) ==
  LET e == event[w] IN
  /\ pc[w] = "insert"
  /\ \/ /\ Free(e)
        /\ events' = events \union {e}
        /\ Go(w, "commit")
        /\ UNCHANGED <<group, held, report>>
     \/ ~Free(e) /\ Die(w) /\ UNCHANGED events
  /\ UNCHANGED <<log, deadLetters, dlq, known, faults>>

\* save_stream_dead_letter, in a transaction of its own; every delivery of a
\* message adds a row.
SaveDeadLetter(w) ==
  /\ pc[w] = "dead_letter"
  /\ deadLetters' = [deadLetters EXCEPT ![current[w]] = @ + 1]
  /\ Count(w, {"dead_lettered"})
  /\ Go(w, IF w \in DlqWorkers THEN "publish" ELSE "commit_dead_letter")
  /\ UNCHANGED <<log, group, events, dlq, held, known, faults>>

PublishReturns(w) ==
  /\ pc[w] = "publish"
  /\ dlq' = [dlq EXCEPT ![current[w]] = @ + 1]
  /\ Count(w, {"dead_letter_published"})
  /\ Go(w, "commit_dead_letter")
  /\ UNCHANGED <<log, group, store, held, known, faults>>

\* RuntimeError: the message is not committed, and the loop goes on.
PublishRaisesRuntimeError(w) ==
  /\ pc[w] = "publish"
  /\ Fault
  /\ Count(w, {"dead_letter_publish_failed"})
  /\ Go(w, "poll")
  /\ Drop(w)
  /\ UNCHANGED <<log, group, store, dlq, known>>

\* TimeoutError (the broker may still have taken the message) escapes run.
PublishRaisesTimeoutError(w) ==
  /\ pc[w] = "publish"
  /\ Fault
  /\ dlq' \in {dlq, [dlq EXCEPT ![current[w]] = @ + 1]}
  /\ Die(w)
  /\ UNCHANGED <<log, store, known>>

\* The event just added is known to the rest of the run.
Remember(w) == known' = [known EXCEPT ![w] = @ \union {event[w].key}]

NextOffset(o) == o + 1

\* commit(message): the group's offset moves past the message, also when an
\* earlier message was left uncommitted.  Committing an error message moves
\* nothing.
Acknowledge(w) ==
  /\ owner = w
  /\ committed' = IF current[w] = NoOffset THEN committed ELSE NextOffset(current[w])
  /\ Drop(w)
  /\ Go(w, "poll")

\* The commit of an event, and the counts after it.
Commit(w) ==
  /\ pc[w] = "commit"
  /\ Acknowledge(w)
  /\ IF event[w].key \in known[w]
       THEN Count(w, {"duplicates"}) /\ UNCHANGED known
       ELSE Count(w, {"ingested"}) /\ Remember(w)
  /\ UNCHANGED <<log, owner, position, store, dlq, faults>>

\* The commit of a dead-lettered message.
CommitDeadLetter(w) ==
  /\ pc[w] = "commit_dead_letter"
  /\ Acknowledge(w)
  /\ UNCHANGED <<log, owner, position, store, dlq, known, report, faults>>

\* KafkaException: the partition is no longer this worker's, the message is
\* an error message, or (a fault) the broker cannot be reached.
CommitRaises(w) ==
  /\ pc[w] \in {"commit", "commit_dead_letter"}
  /\ IF owner # w \/ current[w] = NoOffset THEN UNCHANGED faults ELSE Fault
  /\ Die(w)
  /\ UNCHANGED <<log, store, dlq, known>>

\* The loop ends, the consumer is closed, the report returned.
Finish(w) ==
  /\ pc[w] = "poll"
  /\ ~LoopGoesOn(w)
  /\ Leave(w)
  /\ UNCHANGED <<log, store, dlq, known, report, faults>>

\* RuntimeError, say from a poll on a broken consumer.
PollRaisesRuntimeError(w) ==
  /\ LoopGoesOn(w)
  /\ Fault
  /\ Die(w)
  /\ UNCHANGED <<log, store, dlq, known>>

\* The process is killed.
Crash(w) ==
  /\ pc[w] # "stopped"
  /\ Fault
  /\ Die(w)
  /\ UNCHANGED <<log, store, dlq, known>>

-----------------------------------------------------------------------------
\* add_event called by the API.
ApiAddEvent(e) ==
  /\ ApiWrites
  /\ Free(e)
  /\ events' = events \union {e}
  /\ UNCHANGED <<log, group, deadLetters, dlq, pc, held, known, report, faults>>

\* What the worker does with the message it holds.
Process(w) ==
  \/ Lookup(w) \/ SaveDeadLetter(w) \/ PublishReturns(w)
  \/ Commit(w) \/ CommitDeadLetter(w)

\* The steps after which run goes on, and those that end it.
Continues(w) ==
  \/ Assign(w) \/ EmptyPoll(w) \/ Deliver(w) \/ PollError(w)
  \/ Process(w) \/ PublishRaisesRuntimeError(w)

Escapes(w) ==
  \/ DecodeRaises(w) \/ PublishRaisesTimeoutError(w)
  \/ CommitRaises(w) \/ Crash(w)

Next ==
  \/ \E w \in Workers :
       \/ Start(w) \/ Continues(w) \/ Insert(w) \/ Finish(w)
       \/ PollRaisesRuntimeError(w) \/ Escapes(w)
  \/ \E e \in Events : ApiAddEvent(e)

Spec == Init /\ [][Next]_vars

\* `stream-supervise` starts batch after batch and a service loop
\* (scripts/) restarts it: a worker that can step without a fault eventually
\* does.
Fairness ==
  \A w \in Workers :
    WF_vars(/\ \/ Start(w) \/ Assign(w) \/ EmptyPoll(w) \/ Deliver(w) \/ DecodeRaises(w)
               \/ Process(w) \/ Insert(w) \/ CommitRaises(w) \/ Finish(w)
            /\ UNCHANGED faults)

FairSpec == Spec /\ Fairness

-----------------------------------------------------------------------------
(* Properties.                                                             *)

\* The store holds the message's event, or a dead letter for it.
Handled(o) ==
  \/ \E e \in Readings(log[o]) : e \in events
  \/ deadLetters[o] > 0

\* The committed offset never passes a message that is neither stored nor
\* dead-lettered, whatever crashes, rebalances and failed dead-letter
\* publishes happen: no message is lost.
CommittedIsHandled == \A o \in Offset : o < committed => Handled(o)

\* The committed offset never moves back, although a worker that lost the
\* partition goes on with the message it holds.
CommittedNeverMovesBack == [][committed' >= committed]_vars

\* No message is both stored and dead-lettered: a redelivered event, or one
\* the API stored first, is a duplicate, never an idempotency conflict.
NeverStoredAndDead ==
  \A o \in Offset :
    deadLetters[o] > 0 /\ log[o].kind = "event" => log[o].event \notin events

\* Between messages the report accounts for every message scanned: added,
\* duplicate or failed, and every failed one dead-lettered and (when the
\* worker publishes) published or counted as not published.
ReportAddsUp ==
  \A w \in Workers :
    LET r == report[w] IN
    pc[w] \in {"poll", "stopped"} =>
      /\ r["scanned"] = r["ingested"] + r["duplicates"] + r["failed"]
      /\ r["dead_lettered"] = r["failed"]
      /\ r["conflicts"] + r["invalid_messages"] <= r["failed"]
      /\ r["dead_letter_published"] + r["dead_letter_publish_failed"] =
           IF w \in DlqWorkers THEN r["failed"] ELSE 0

\* The workers implement a log that is read at least once, in order.
Log == INSTANCE AtLeastOnceLog WITH
         cursor <- committed, handled <- {o \in Offset : Handled(o)}

ImplementsLog == Log!Spec

\* The message carries an event_id that is stored under another key: its key
\* is unknown to Lookup, and Insert finds the id taken.
IdIsTaken(o) ==
  /\ log[o].kind = "event"
  /\ \E f \in events : f.id = log[o].event.id /\ f.key # log[o].event.key

\* When workers keep running and the faults end, every message of the log is
\* stored or dead-lettered, also those whose key has another payload, whose
\* dead-letter publish failed or whose delivery was interrupted.  Two kinds of
\* messages end every run that reads them, and hold up what is behind them:
\* bytes that are no UTF-8, and an event whose id is taken.
EveryMessageIsHandled ==
  [](\A o \in Offset : log[o].kind # "undecodable" /\ ~IdIsTaken(o))
    => \A o \in Offset : <>Handled(o)

\* docs/spec-plan.md:583 and CHANGELOG.md:270: a poison message ends up as a
\* dead letter.
PoisonIsDeadLettered ==
  \A o \in Offset : <>(log[o].kind = "undecodable" => deadLetters[o] > 0)

\* CHANGELOG.md:291: an exact duplicate is a safe no-op, so an event whose key
\* nobody else uses is never dead-lettered, however often it is delivered.
DuplicatesAreSafe ==
  \A o \in Offset :
    /\ log[o].kind \in {"event", "partial"}
    /\ ~ApiWrites
    /\ \A p \in Offset \ {o} : Readings(log[p]) = {}
    => deadLetters[o] = 0
=============================================================================
