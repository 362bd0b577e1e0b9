---------------------------- MODULE StreamHealth ----------------------------
(***************************************************************************)
(* `stream-health` (cli/main.py, observability/stream_health.py) beside a  *)
(* running supervisor: it probes the group's lag                           *)
(* (infrastructure/redpanda_lag.py) or loads what `stream-lag` has written *)
(* earlier, loads the supervisor's receipt and lists the dead letters, one *)
(* after the other, and grades what it saw.  The three readings are of     *)
(* different moments.                                                      *)
(***************************************************************************)
EXTENDS StreamSupervisor, FiniteSetsExt

CONSTANTS
  WarningLag, CriticalLag,                        \* StreamHealthThresholds
  WarningDeadLetters, CriticalDeadLetters,
  WarningFailedBatches, CriticalFailedBatches,
  DeadLetterLimit                                 \* --dead-letter-limit

ASSUME ThresholdsAssumption ==
  /\ {WarningLag, CriticalLag, WarningDeadLetters, CriticalDeadLetters,
      WarningFailedBatches, CriticalFailedBatches} \subseteq Nat \ {0}
  /\ DeadLetterLimit \in Nat \ {0}

VARIABLES
  lag_file, \* the report of the last `stream-lag`, until stream_health has read
  probe,    \* the reading stream_health makes next
  lag,      \* StreamLagSnapshot
  receipt,  \* StreamSupervisionSnapshot
  health    \* the report's status and score

monitor == <<lag_file, probe, lag, receipt, health>>
hvars == <<svars, monitor>>

NotChecked == [checked |-> FALSE, error |-> FALSE, total_lag |-> NoOffset]

NoReceipt == [loaded |-> FALSE, failed |-> FALSE, failed_batches |-> 0,
              dead_lettered |-> 0, publish_failed |-> 0]

NoReport == [status |-> "none", health_score |-> 0]

HInit ==
  /\ SInit
  /\ lag_file = NotChecked
  /\ probe = "lag"
  /\ lag = NotChecked
  /\ receipt = NoReceipt
  /\ health = NoReport

-----------------------------------------------------------------------------
(* RedpandaLagProbe.report, for the one partition.                         *)

\* A group that has committed nothing has offset -1, which becomes None.
CommittedOffset == IF committed = 0 THEN NoOffset ELSE committed

LagFromOffsets(high_watermark, offset) ==
  IF offset = NoOffset THEN NoOffset
  ELSE Max({high_watermark - offset, 0})

\* Fault: a partition without a committed offset adds nothing to the total.
TotalLag_SkipsUnknown ==
  IF CommittedOffset = NoOffset THEN 0 ELSE LagFromOffsets(Length, CommittedOffset)

TotalLag == LagFromOffsets(Length, CommittedOffset)

LagSnapshot(total_lag) == [NotChecked EXCEPT !.checked = TRUE, !.total_lag = total_lag]

\* `stream-lag`; a probe that raises writes nothing.
StreamLag ==
  /\ probe = "lag"
  /\ lag_file' = LagSnapshot(TotalLag)
  /\ UNCHANGED <<svars, probe, lag, receipt, health>>

-----------------------------------------------------------------------------
(* build_stream_health_report.                                             *)

Alert(code, severity) == {[code |-> code, severity |-> severity]}

LagAlerts(l) ==
  CASE l.error -> Alert("STREAM_LAG_CHECK_FAILED", "warning")
    [] ~l.error /\ ~l.checked -> Alert("STREAM_LAG_NOT_CHECKED", "warning")
    [] l.checked /\ l.total_lag = NoOffset -> Alert("STREAM_LAG_UNKNOWN", "warning")
    [] OTHER -> IF l.total_lag >= CriticalLag THEN Alert("STREAM_LAG_CRITICAL", "critical")
                ELSE IF l.total_lag >= WarningLag THEN Alert("STREAM_LAG_WARNING", "warning")
                ELSE {}

BatchAlerts(r) ==
  CASE r.failed -> Alert("STREAM_SUPERVISOR_FAILED", "critical")
    [] ~r.failed /\ r.failed_batches >= CriticalFailedBatches ->
         Alert("STREAM_SUPERVISOR_FAILURES_CRITICAL", "critical")
    [] ~r.failed /\ r.failed_batches \in WarningFailedBatches .. CriticalFailedBatches - 1 ->
         Alert("STREAM_SUPERVISOR_FAILURES_WARNING", "warning")
    [] OTHER -> {}

SupervisionAlerts(r) ==
  BatchAlerts(r) \union
    CASE r.publish_failed > 0 -> Alert("STREAM_DLQ_PUBLISH_FAILED", "critical")
      [] r.publish_failed = 0 /\ r.dead_lettered > 0 ->
           Alert("STREAM_SUPERVISOR_DEAD_LETTERED", "warning")
      [] OTHER -> {}

DeadLetterAlerts(sample_count) ==
  IF sample_count >= CriticalDeadLetters
    THEN Alert("STREAM_DEAD_LETTERS_CRITICAL", "critical")
  ELSE IF sample_count >= WarningDeadLetters
    THEN Alert("STREAM_DEAD_LETTERS_WARNING", "warning")
  ELSE {}

Alerts(l, r, sample_count) ==
  LagAlerts(l) \union DeadLetterAlerts(sample_count)
    \union IF r.loaded THEN SupervisionAlerts(r) ELSE {}

Of(severity, alerts) == {a \in alerts : a.severity = severity}

Status(alerts) ==
  IF Of("critical", alerts) # {} THEN "critical"
  ELSE IF Of("warning", alerts) # {} THEN "degraded"
  ELSE "healthy"

HealthScore(alerts) ==
  Max({100 - 45 * Cardinality(Of("critical", alerts))
           - 15 * Cardinality(Of("warning", alerts)), 0})

DeadLetterRows == UNION {{o} \X (1 .. deadLetters[o]) : o \in DOMAIN deadLetters}

\* list_stream_dead_letters(limit): a sample of the rows, not their number.
SampleCount == Min({Cardinality(DeadLetterRows), DeadLetterLimit})

-----------------------------------------------------------------------------
(* The command's readings.                                                 *)

\* Without --live-lag and --lag-report-path the lag is not checked; a probe
\* that raises RuntimeError is reported (what else it raises ends the command,
\* as does a file that is not there).
ReadLag ==
  /\ probe = "lag"
  /\ \/ lag' = lag
     \/ lag' = [lag EXCEPT !.error = TRUE]
     \/ lag' = LagSnapshot(TotalLag)
     \/ lag_file.checked /\ lag' = lag_file
  /\ lag_file' = NotChecked
  /\ probe' = "receipt"
  /\ UNCHANGED <<svars, receipt, health>>

\* The receipt is optional, and stream_supervise writes it when run returns.
ReadReceipt ==
  /\ probe = "receipt"
  /\ \/ receipt' = receipt
     \/ /\ status \in {"completed", "failed"}
        /\ receipt' = [loaded |-> TRUE,
                       failed |-> status = "failed",
                       failed_batches |-> batches["failed"],
                       dead_lettered |-> totals["dead_lettered"],
                       publish_failed |-> totals["dead_letter_publish_failed"]]
  /\ probe' = "dead_letters"
  /\ UNCHANGED <<svars, lag_file, lag, health>>

Report ==
  /\ probe = "dead_letters"
  /\ LET alerts == Alerts(lag, receipt, SampleCount)
     IN health' = [status |-> Status(alerts), health_score |-> HealthScore(alerts)]
  /\ probe' = "done"
  /\ lag' = NotChecked /\ receipt' = NoReceipt
  /\ UNCHANGED <<svars, lag_file>>

HNext ==
  \/ SNext /\ UNCHANGED monitor
  \/ StreamLag \/ ReadLag \/ ReadReceipt \/ Report

HSpec == HInit /\ [][HNext]_hvars

\* The supervisor's fairness; the monitor may stop anywhere.
HFairSpec ==
  /\ HSpec
  /\ WF_hvars(/\ \/ BatchStarts \/ BatchCompletes \/ BatchContinues
                 \/ SupervisorDies \/ Returns
              /\ UNCHANGED <<faults, monitor>>)

-----------------------------------------------------------------------------
(* Properties.                                                             *)

\* A report graded HEALTHY never hides a lost or waiting event: apart from as
\* many dead letters as the thresholds tolerate, fewer than warning_lag messages
\* of the topic are missing from the event store, even though the offset, the
\* receipt and the dead letters were read at different moments of a supervisor
\* that goes on, fails and crashes meanwhile.
HealthyMeansStored ==
  health.status = "healthy" =>
    Cardinality({o \in Offset : Readings(log[o]) \intersect events = {}})
      < WarningLag + WarningDeadLetters - 1
=============================================================================
