-------------------------- MODULE StreamSupervisor --------------------------
(***************************************************************************)
(* StreamSupervisor.run (workers/stream_supervisor.py): batch after batch, *)
(* a consumer is created and a StreamIngestionWorker run with it, in the   *)
(* supervisor's own process.  A RuntimeError of a batch is counted and     *)
(* survived; anything else ends the supervisor too, without a report.      *)
(***************************************************************************)
EXTENDS StreamIngestion, Sequences

CONSTANTS
  Supervised,               \* the worker the supervisor runs
  MaxBatches,               \* run's max_batches
  MaxConsecutiveFailures    \* StreamSupervisor.max_consecutive_failures

ASSUME SupervisorAssumption ==
  /\ Supervised \in Workers
  /\ MaxBatches \in Nat \ {0}
  /\ MaxConsecutiveFailures \in Nat \ {0}

Statuses == {"running", "completed", "failed", "crashed"}

VARIABLES
  status,                \* "running" until run returns or raises
  batches,               \* batches_attempted, completed_, failed_ and idle_batches
  consecutive_failures,  \* failed batches in a row
  totals,                \* the sums of the batch reports
  outcomes               \* how each batch ended (only properties read it)

supervisor == <<status, batches, consecutive_failures, totals, outcomes>>
svars == <<vars, supervisor>>

BatchCounters == {"attempted", "completed", "failed", "idle"}

STypeOK ==
  /\ TypeOK
  /\ status \in Statuses
  /\ batches \in [BatchCounters -> 0 .. MaxBatches]
  /\ consecutive_failures \in 0 .. MaxConsecutiveFailures
  /\ totals \in [Counters -> Nat]
  /\ outcomes \in Seq({"completed", "failed"})

SInit ==
  /\ Init
  /\ status = "running"
  /\ batches = [c \in BatchCounters |-> 0]
  /\ consecutive_failures = 0
  /\ totals = NoCounts
  /\ outcomes = <<>>

MoreBatches ==
  /\ status = "running"
  /\ pc[Supervised] = "stopped"
  /\ batches["attempted"] < MaxBatches

\* The next batch of the for loop: create a consumer, subscribe.
BatchStarts ==
  /\ MoreBatches
  /\ Start(Supervised)
  /\ batches' = [batches EXCEPT !["attempted"] = @ + 1]
  /\ UNCHANGED <<status, consecutive_failures, totals, outcomes>>

FailureStatus(failures) ==
  IF failures >= MaxConsecutiveFailures THEN "failed" ELSE "running"

\* The except branch: the counts of the batch are not added to the totals.
Failed(attempts) ==
  /\ batches' = [batches EXCEPT !["attempted"] = @ + attempts, !["failed"] = @ + 1]
  /\ consecutive_failures' = consecutive_failures + 1
  /\ status' = FailureStatus(consecutive_failures + 1)
  /\ outcomes' = Append(outcomes, "failed")
  /\ UNCHANGED totals

\* consumer_factory.create raises RuntimeError.
CreateFails ==
  /\ MoreBatches
  /\ Fault
  /\ Failed(1)
  /\ UNCHANGED <<log, group, store, dlq, pc, held, known, report>>

BatchFails ==
  /\ PollRaisesRuntimeError(Supervised)
  /\ Failed(0)

\* Faults: the totals keep the counts of the last batch only; a failed streak
\* is not ended by a batch that completes.
Summed_LastOnly(sum, counts) == counts
StreakAfterSuccess_Kept == consecutive_failures

Summed(sum, counts) == [c \in Counters |-> sum[c] + counts[c]]

StreakAfterSuccess == 0

\* The worker's run returned its report.
BatchCompletes ==
  /\ Finish(Supervised)
  /\ totals' = Summed(totals, report[Supervised])
  /\ batches' = [batches EXCEPT !["completed"] = @ + 1,
       !["idle"] = IF report[Supervised]["scanned"] = 0 THEN @ + 1 ELSE @]
  /\ consecutive_failures' = StreakAfterSuccess
  /\ outcomes' = Append(outcomes, "completed")
  /\ UNCHANGED status

\* An exception that is no RuntimeError, or a kill, ends the process.
SupervisorDies ==
  /\ \/ Escapes(Supervised)
     \/ Insert(Supervised) /\ pc'[Supervised] = "stopped"
  /\ status' = "crashed"
  /\ UNCHANGED <<batches, consecutive_failures, totals, outcomes>>

BatchContinues ==
  /\ \/ Continues(Supervised)
     \/ Insert(Supervised) /\ pc'[Supervised] # "stopped"
  /\ UNCHANGED supervisor

\* All batches are done: run returns its report.
Returns ==
  /\ status = "running"
  /\ pc[Supervised] = "stopped"
  /\ batches["attempted"] = MaxBatches
  /\ status' = "completed"
  /\ UNCHANGED <<vars, batches, consecutive_failures, totals, outcomes>>

SNext ==
  \/ BatchStarts \/ CreateFails \/ BatchFails \/ BatchCompletes
  \/ BatchContinues \/ SupervisorDies \/ Returns
  \/ \E e \in Events : ApiAddEvent(e) /\ UNCHANGED supervisor

SSpec == SInit /\ [][SNext]_svars

\* The supervisor is one process: it runs on while it can without a fault.
SFairSpec ==
  /\ SSpec
  /\ WF_svars(/\ \/ BatchStarts \/ BatchCompletes \/ BatchContinues
                 \/ SupervisorDies \/ Returns
              /\ UNCHANGED faults)

-----------------------------------------------------------------------------
(* Properties.                                                             *)

\* What the supervisor would report if its batch ended now.
Reported(c) ==
  totals[c] + IF pc[Supervised] = "stopped" THEN 0 ELSE report[Supervised][c]

\* With one consumer the supervisor never reports more ingested events than
\* the store holds: failed batches, redeliveries and the events the API adds
\* in between never make it count one event twice.
TotalsAreBacked == Reported("ingested") <= Cardinality(events)

\* Unless a batch failed or the process died, the totals and the running
\* batch account for every message the group has acknowledged.
CommittedIsReported ==
  status # "crashed" /\ batches["failed"] = 0 =>
    committed <= Reported("scanned")

\* The supervisor gives up exactly when the last MaxConsecutiveFailures
\* batches all failed: a batch that completes in between clears the streak.
GivesUpAfterStreak ==
  status = "failed" <=>
    /\ Len(outcomes) >= MaxConsecutiveFailures
    /\ \A i \in 0 .. MaxConsecutiveFailures - 1 : outcomes[Len(outcomes) - i] = "failed"

\* The supervisor comes to an end, whatever fails.
SupervisorEnds == <>(status # "running")
=============================================================================
