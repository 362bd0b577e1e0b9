----------------------- MODULE StreamSupervisorProofs -----------------------
(* What the supervisor reports, when it gives up, and what a HEALTHY       *)
(* stream-health report means, for any number of batches, messages, faults *)
(* and thresholds.                                                         *)
EXTENDS StreamHealth, StreamIngestionProofs, FiniteSetTheorems

-----------------------------------------------------------------------------
(* The supervisor's steps, seen by the worker.                             *)

\* What a function takes a finite set to is finite, and no larger.
LEMMA FiniteImage ==
  ASSUME NEW S, IsFiniteSet(S), NEW f, f = [x \in S |-> f[x]]
  PROVE  /\ IsFiniteSet({f[x] : x \in S})
         /\ Cardinality({f[x] : x \in S}) <= Cardinality(S)
<1>1. f \in Surjection(S, {f[x] : x \in S})
  BY DEF Surjection
<1> QED BY <1>1, FS_Surjection

\* Creating a consumer touches no state of the ingestion; every other step is
\* one of the worker's or of the API.
LEMMA SupervisorSteps ==
  ASSUME [SNext]_svars
  PROVE  \/ [Next]_vars
         \/ UNCHANGED <<log, group, store, dlq, pc, held, known, report>>
BY SupervisorAssumption
DEF SNext, svars, BatchStarts, CreateFails, BatchFails, BatchCompletes, BatchContinues,
  SupervisorDies, Returns, Next

\* The invariants of the ingestion hold under the supervisor, where the log
\* and the store behave as before.
LEMMA SupervisedInvariants ==
  ASSUME LInv, RInv, [SNext]_svars
  PROVE  /\ LInv' /\ RInv'
         /\ log' = log /\ events \subseteq events' /\ committed' >= committed
<1>1. CASE [Next]_vars
  <2>1. LogStep /\ committed \in Nat
    BY <1>1, StepKeeps, ParametersAssumption DEF LInv, Shapes
  <2> QED BY <1>1, <2>1, StepKeeps, CountsKept, StoreOnlyGrows, ParametersAssumption DEF LogStep
<1>2. CASE UNCHANGED <<log, group, store, dlq, pc, held, known, report>>
  <2>1. UNCHANGED <<log, committed, owner, position, events, deadLetters, pc, current, event, report>>
    BY <1>2 DEF group, store, held
  <2>2. LInv'
    BY <2>1 DEF LInv, Shapes, Holds, OwnerReadOn, CommittedIsHandled, Handled, Pending
  <2>3. RInv'
    BY <2>1 DEF RInv
  <2> QED BY <2>1, <2>2, <2>3, ParametersAssumption DEF LInv, Shapes
<1> QED BY <1>1, <1>2, SupervisorSteps

LEMMA InitialReports == Init => RInv
<1> SUFFICES ASSUME Init PROVE RInv
  OBVIOUS
<1>1. NoCounts \in [Counters -> Nat] /\ \A c \in Counters : NoCounts[c] = 0
  BY DEF NoCounts
<1>2. \A w \in Workers : Balanced("stopped", NoCounts, w \in DlqWorkers)
  BY <1>1 DEF Balanced, Counters
<1> QED BY <1>1, <1>2 DEF Init, RInv

\* A step after which the batch goes on.
GoesOn(w) == Continues(w) \/ (Insert(w) /\ pc'[w] # "stopped")

\* The batch that goes on was running, and goes on from where it was.
LEMMA GoesOnRunning ==
  ASSUME LInv, NEW w \in Workers, GoesOn(w)
  PROVE  pc[w] # "stopped" /\ pc'[w] # "stopped"
<1>1. CASE Deliver(w)
  <2>1. pc[w] = "poll" /\ position[w] \in Offset
    BY <1>1, ParametersAssumption DEF Deliver, Receive, LoopGoesOn, LInv, Shapes, Offset
  <2>2. log[position[w]].kind \in {"event", "partial", "empty", "invalid", "undecodable"}
    BY <2>1, ParametersAssumption DEF LInv, Shapes, Payload
  <2> QED BY <1>1, <2>1, <2>2 DEF Deliver, Classify, Branch, Go, LInv, Shapes
<1>2. CASE Assign(w) \/ EmptyPoll(w) \/ PollError(w)
  BY <1>2 DEF Assign, EmptyPoll, PollError, LoopGoesOn, Branch, Go, LInv, Shapes
<1>3. CASE Lookup(w) \/ SaveDeadLetter(w) \/ PublishReturns(w) \/ PublishRaisesRuntimeError(w)
  BY <1>3 DEF Lookup, SaveDeadLetter, PublishReturns, PublishRaisesRuntimeError, Go, LInv, Shapes
<1>4. CASE Commit(w) \/ CommitDeadLetter(w)
  BY <1>4 DEF Commit, CommitDeadLetter, Acknowledge, Go, LInv, Shapes
<1>5. CASE Insert(w) /\ pc'[w] # "stopped"
  BY <1>5 DEF Insert
<1> QED BY <1>1, <1>2, <1>3, <1>4, <1>5 DEF GoesOn, Continues, Process

\* A worker whose exception escapes was running, and has stopped.
LEMMA EscapesStops ==
  ASSUME LInv, NEW w \in Workers,
         Escapes(w) \/ PollRaisesRuntimeError(w) \/ (Insert(w) /\ pc'[w] = "stopped")
  PROVE  pc[w] # "stopped" /\ pc'[w] = "stopped"
BY DEF Escapes, DecodeRaises, PublishRaisesTimeoutError, CommitRaises, Crash, Die, Leave, Go,
  PollRaisesRuntimeError, LoopGoesOn, Insert, LInv, Shapes

-----------------------------------------------------------------------------
(* When the supervisor gives up.                                           *)

\* consecutive_failures is the number of failed batches at the end of the
\* outcomes, and the supervisor has given up when it reached its maximum.
StreakInv ==
  /\ consecutive_failures \in Nat
  /\ outcomes \in Seq({"completed", "failed"})
  /\ status # "running" => pc[Supervised] = "stopped"
  /\ consecutive_failures <= Len(outcomes)
  /\ \A i \in 0 .. consecutive_failures - 1 : outcomes[Len(outcomes) - i] = "failed"
  /\ consecutive_failures < Len(outcomes) =>
       outcomes[Len(outcomes) - consecutive_failures] = "completed"
  /\ status = "failed" <=> consecutive_failures >= MaxConsecutiveFailures

\* A failed batch lengthens the streak.
LEMMA FailedKeepsStreak ==
  ASSUME StreakInv, NEW attempts, Failed(attempts), pc'[Supervised] = "stopped"
  PROVE  StreakInv'
<1> DEFINE n == Len(outcomes)
           k == consecutive_failures
<1>1. /\ consecutive_failures' = k + 1 /\ outcomes' = Append(outcomes, "failed")
      /\ status' = IF k + 1 >= MaxConsecutiveFailures THEN "failed" ELSE "running"
      /\ pc'[Supervised] = "stopped"
  BY DEF Failed, FailureStatus
<1>2. /\ n \in Nat /\ k \in Nat /\ k <= n
      /\ outcomes' \in Seq({"completed", "failed"}) /\ Len(outcomes') = n + 1
      /\ outcomes'[n + 1] = "failed"
      /\ \A j \in 1 .. n : outcomes'[j] = outcomes[j]
  BY <1>1 DEF StreakInv
<1>3. ASSUME NEW i \in 0 .. k PROVE outcomes'[n + 1 - i] = "failed"
  <2>1. CASE i = 0
    BY <1>2, <2>1
  <2>2. CASE i > 0
    <3>1. i - 1 \in 0 .. k - 1 /\ n + 1 - i \in 1 .. n /\ n + 1 - i = n - (i - 1)
      BY <1>2, <2>2
    <3>2. outcomes[n - (i - 1)] = "failed"
      BY <3>1 DEF StreakInv
    <3> QED BY <1>2, <3>1, <3>2
  <2> QED BY <1>2, <2>1, <2>2
<1>4. ASSUME k < n PROVE outcomes'[n + 1 - (k + 1)] = "completed"
  <2>1. n + 1 - (k + 1) = n - k /\ n - k \in 1 .. n
    BY <1>2, <1>4
  <2>2. outcomes[n - k] = "completed"
    BY <1>4 DEF StreakInv
  <2> QED BY <1>2, <2>1, <2>2
<1> HIDE DEF n, k
<1>5. k + 1 - 1 = k /\ (k + 1 < n + 1 <=> k < n) /\ k + 1 <= n + 1 /\ k + 1 \in Nat
  BY <1>2
<1>6. consecutive_failures' \in Nat /\ consecutive_failures' <= Len(outcomes')
  BY <1>1, <1>2, <1>5
<1>7. \A i \in 0 .. consecutive_failures' - 1 : outcomes'[Len(outcomes') - i] = "failed"
  BY <1>1, <1>2, <1>3, <1>5
<1>8. consecutive_failures' < Len(outcomes') =>
        outcomes'[Len(outcomes') - consecutive_failures'] = "completed"
  BY <1>1, <1>2, <1>4, <1>5
<1>9. status' = "failed" <=> consecutive_failures' >= MaxConsecutiveFailures
  BY <1>1
<1> QED BY <1>1, <1>2, <1>6, <1>7, <1>8, <1>9 DEF StreakInv

LEMMA StreakKept ==
  ASSUME LInv, StreakInv, [SNext]_svars
  PROVE  StreakInv'
<1> USE SupervisorAssumption
<1>1. ASSUME UNCHANGED <<consecutive_failures, outcomes, status>>,
             status # "running" => pc'[Supervised] = "stopped"
      PROVE  StreakInv'
  BY <1>1 DEF StreakInv
<1>2. CASE BatchStarts
  BY <1>1, <1>2 DEF BatchStarts, MoreBatches
<1>3. CASE CreateFails
  BY <1>3, FailedKeepsStreak DEF CreateFails, MoreBatches
<1>4. CASE BatchFails
  BY <1>4, EscapesStops, FailedKeepsStreak DEF BatchFails
<1>5. CASE BatchCompletes
  <2>1. /\ consecutive_failures' = 0 /\ outcomes' = Append(outcomes, "completed")
        /\ status' = status /\ pc[Supervised] = "poll"
    BY <1>5 DEF BatchCompletes, StreakAfterSuccess, Finish
  <2>2. status = "running"
    BY <2>1 DEF StreakInv
  <2>3. /\ outcomes' \in Seq({"completed", "failed"}) /\ Len(outcomes') = Len(outcomes) + 1
        /\ outcomes'[Len(outcomes) + 1] = "completed" /\ Len(outcomes) \in Nat
    BY <2>1 DEF StreakInv
  <2> QED BY <2>1, <2>2, <2>3 DEF StreakInv
<1>6. CASE BatchContinues
  <2>1. pc[Supervised] # "stopped"
    BY <1>6, GoesOnRunning DEF BatchContinues, GoesOn
  <2> QED BY <1>1, <1>6, <2>1 DEF BatchContinues, supervisor, StreakInv
<1>7. CASE SupervisorDies
  <2>1. /\ pc[Supervised] # "stopped" /\ pc'[Supervised] = "stopped" /\ status' = "crashed"
        /\ UNCHANGED <<consecutive_failures, outcomes>>
    BY <1>7, EscapesStops DEF SupervisorDies
  <2> QED BY <2>1 DEF StreakInv
<1>8. CASE Returns
  BY <1>8 DEF Returns, StreakInv, vars
<1>9. CASE \E e \in Events : ApiAddEvent(e) /\ UNCHANGED supervisor
  BY <1>1, <1>9 DEF ApiAddEvent, supervisor, StreakInv
<1>10. CASE UNCHANGED svars
  BY <1>1, <1>10 DEF svars, vars, supervisor, StreakInv
<1> QED BY <1>2, <1>3, <1>4, <1>5, <1>6, <1>7, <1>8, <1>9, <1>10 DEF SNext

\* The supervisor gives up exactly when its last max_consecutive_failures
\* batches all failed, whatever else ended in between.
THEOREM SupervisorGivesUpAfterStreak == SSpec => []GivesUpAfterStreak
<1>1. SInit => LInv /\ RInv /\ StreakInv
  BY InitEstablishes, InitialReports, SupervisorAssumption DEF SInit, StreakInv, Init
<1>2. LInv /\ RInv /\ StreakInv /\ [SNext]_svars => LInv' /\ RInv' /\ StreakInv'
  BY SupervisedInvariants, StreakKept
<1>3. StreakInv => GivesUpAfterStreak
  <2> SUFFICES ASSUME StreakInv PROVE GivesUpAfterStreak
    OBVIOUS
  <2> DEFINE n == Len(outcomes)
             k == consecutive_failures
             m == MaxConsecutiveFailures
  <2>1. n \in Nat /\ k \in Nat /\ m \in Nat \ {0} /\ k <= n
    BY SupervisorAssumption DEF StreakInv
  <2>2. CASE k >= m
    BY <2>1, <2>2 DEF StreakInv, GivesUpAfterStreak
  <2>3. CASE k < m
    <3>1. n >= m => k \in 0 .. m - 1 /\ outcomes[n - k] = "completed"
      BY <2>1, <2>3 DEF StreakInv
    <3> QED BY <2>1, <2>3, <3>1 DEF StreakInv, GivesUpAfterStreak
  <2> QED BY <2>1, <2>2, <2>3
<1> QED BY <1>1, <1>2, <1>3, PTL DEF SSpec

-----------------------------------------------------------------------------
(* What the supervisor reports as ingested is in the store.                *)

\* Every event counted as ingested put a key of its own into the worker's
\* snapshot, and every key of the snapshot is one the store holds; the snapshot
\* only grows from batch to batch, because the store does.
BackedInv ==
  /\ IsFiniteSet(events)
  /\ totals \in [Counters -> Nat]
  /\ known = [w \in Workers |-> known[w]]
  /\ known[Supervised] \subseteq KnownKeys
  /\ Reported("ingested") <= Cardinality(known[Supervised])

\* The store holds at least as many events as idempotency keys.
LEMMA KeysAreCounted ==
  ASSUME IsFiniteSet(events)
  PROVE  IsFiniteSet(KnownKeys) /\ Cardinality(KnownKeys) <= Cardinality(events)
<1> DEFINE f == [e \in events |-> e.key]
<1>1. KnownKeys = {f[e] : e \in events}
  BY DEF KnownKeys
<1>2. f = [e \in events |-> f[e]]
  OBVIOUS
<1> HIDE DEF f
<1> QED BY <1>1, <1>2, FiniteImage

\* A set of keys that grows with the store stays finite and gets no smaller.
LEMMA SnapshotGrows ==
  ASSUME BackedInv, NEW K, known[Supervised] \subseteq K, K \subseteq KnownKeys
  PROVE  /\ Cardinality(known[Supervised]) <= Cardinality(K)
         /\ Cardinality(known[Supervised]) \in Nat /\ Cardinality(K) \in Nat
         /\ IsFiniteSet(K)
<1>1. IsFiniteSet(K)
  BY KeysAreCounted, FS_Subset DEF BackedInv
<1> QED BY <1>1, FS_Subset, FS_CardinalityType

\* A step that adds to the store and counts nothing as ingested.
LEMMA UncountedKeepsBacked ==
  ASSUME BackedInv, IsFiniteSet(events'), events \subseteq events', UNCHANGED known,
         totals' \in [Counters -> Nat], Reported("ingested")' <= Reported("ingested"),
         Reported("ingested") \in Nat, Reported("ingested")' \in Nat
  PROVE  BackedInv'
<1>1. known[Supervised] \subseteq KnownKeys'
  BY DEF BackedInv, KnownKeys
<1>2. Cardinality(known[Supervised]) \in Nat
  BY SnapshotGrows DEF BackedInv
<1> QED BY <1>1, <1>2 DEF BackedInv

LEMMA BackedKept ==
  ASSUME LInv, RInv, LInv', RInv', BackedInv, [SNext]_svars
  PROVE  BackedInv'
<1> DEFINE w == Supervised
<1> USE SupervisorAssumption
<1>1. /\ w \in Workers /\ report[w] \in [Counters -> Nat] /\ report'[w] \in [Counters -> Nat]
      /\ "ingested" \in Counters /\ totals \in [Counters -> Nat] /\ IsFiniteSet(events)
      /\ Reported("ingested") \in Nat
  BY DEF RInv, BackedInv, Counters, Reported
<1>2. \A v : IsFiniteSet(events \union {v})
  BY <1>1, FS_AddElement
<1>3. ASSUME UNCHANGED <<known, totals, events>>, pc'[w] = pc[w] \/ pc'[w] = "stopped",
             UNCHANGED report \/ pc'[w] = "stopped"
      PROVE  BackedInv'
  <2>1. Reported("ingested")' <= Reported("ingested") /\ Reported("ingested")' \in Nat
    BY <1>1, <1>3 DEF Reported
  <2> QED BY <1>1, <1>3, <2>1, UncountedKeepsBacked
<1>4. CASE BatchStarts
  <2>1. /\ pc[w] = "stopped" /\ known' = [known EXCEPT ![w] = KnownKeys]
        /\ report'[w]["ingested"] = 0 /\ UNCHANGED <<totals, events>>
    BY <1>1, <1>4 DEF BatchStarts, Start, NoCounts, store, RInv
  <2>2. known'[w] = KnownKeys /\ known' = [v \in Workers |-> known'[v]]
    BY <2>1 DEF BackedInv
  <2>3. KnownKeys' = KnownKeys
    BY <2>1 DEF KnownKeys
  <2>4. Reported("ingested")' = Reported("ingested")
    BY <1>1, <2>1 DEF Reported
  <2>5. /\ Cardinality(known[w]) <= Cardinality(KnownKeys)
        /\ Cardinality(known[w]) \in Nat /\ Cardinality(KnownKeys) \in Nat
    BY SnapshotGrows DEF BackedInv
  <2> QED BY <1>1, <2>1, <2>2, <2>3, <2>4, <2>5 DEF BackedInv
<1>5. CASE CreateFails
  BY <1>3, <1>5 DEF CreateFails, Failed, store
<1>6. CASE BatchFails
  <2>1. pc'[w] = "stopped"
    BY <1>6, EscapesStops DEF BatchFails
  <2> QED BY <1>3, <1>6, <2>1 DEF BatchFails, PollRaisesRuntimeError, Failed, store
<1>7. CASE BatchCompletes
  <2>1. /\ pc[w] = "poll" /\ pc'[w] = "stopped" /\ UNCHANGED <<known, events, report>>
        /\ totals' = [c \in Counters |-> totals[c] + report[w][c]]
    BY <1>7 DEF BatchCompletes, Finish, Leave, Go, Summed, store, LInv, Shapes
  <2>2. totals' \in [Counters -> Nat]
    BY <1>1, <2>1
  <2>3. Reported("ingested")' = Reported("ingested")
    BY <1>1, <2>1 DEF Reported
  <2> QED BY <1>1, <2>1, <2>2, <2>3, UncountedKeepsBacked
<1>8. CASE SupervisorDies
  <2>1. pc'[w] = "stopped" /\ pc[w] # "stopped"
    BY <1>8, EscapesStops DEF SupervisorDies
  <2>2. UNCHANGED <<known, totals>> /\ (events' = events \/ \E v : events' = events \union {v})
    BY <1>8 DEF SupervisorDies, Escapes, DecodeRaises, PublishRaisesTimeoutError,
      CommitRaises, Crash, Insert, store
  <2>3. IsFiniteSet(events') /\ events \subseteq events'
    BY <1>1, <1>2, <2>2
  <2>4. Reported("ingested")' <= Reported("ingested") /\ Reported("ingested")' \in Nat
    BY <1>1, <2>1, <2>2 DEF Reported
  <2> QED BY <1>1, <2>2, <2>3, <2>4, UncountedKeepsBacked
<1>9. CASE Returns
  BY <1>3, <1>9 DEF Returns, vars, store
<1>10. CASE \E e \in Events : ApiAddEvent(e) /\ UNCHANGED supervisor
  <2>1. /\ UNCHANGED <<known, totals, pc, report>>
        /\ \E v : events' = events \union {v}
    BY <1>10 DEF ApiAddEvent, supervisor
  <2>2. Reported("ingested")' = Reported("ingested") /\ IsFiniteSet(events')
    BY <1>2, <2>1 DEF Reported
  <2> QED BY <1>1, <2>1, <2>2, UncountedKeepsBacked
<1>11. CASE UNCHANGED svars
  BY <1>3, <1>11 DEF svars, vars, supervisor, store
<1>12. CASE BatchContinues
  <2>1. pc[w] # "stopped" /\ pc'[w] # "stopped" /\ UNCHANGED totals
    BY <1>12, GoesOnRunning DEF BatchContinues, GoesOn, supervisor
  <2>2. CASE Commit(w) /\ event[w].key \notin known[w]
    <3> DEFINE k == event[w].key
    <3>1. /\ known' = [known EXCEPT ![w] = @ \union {k}]
          /\ report' = [report EXCEPT ![w] = Incremented(@, {"ingested"})]
          /\ event[w] \in events /\ UNCHANGED events
      BY <2>2 DEF Commit, Remember, Count, store, LInv, Holds
    <3>2. known'[w] = known[w] \union {k} /\ known' = [v \in Workers |-> known'[v]]
      BY <3>1 DEF BackedInv
    <3>3. k \in KnownKeys /\ KnownKeys' = KnownKeys
      BY <3>1 DEF KnownKeys
    <3>4. report'[w]["ingested"] = report[w]["ingested"] + 1
      BY <1>1, <3>1, IncrementedCounts DEF RInv
    <3>5. Reported("ingested")' = Reported("ingested") + 1
      BY <1>1, <2>1, <3>4 DEF Reported
    <3>6. IsFiniteSet(known[w]) /\ Cardinality(known[w]) \in Nat
      BY SnapshotGrows DEF BackedInv
    <3>7. Cardinality(known'[w]) = Cardinality(known[w]) + 1
      BY <2>2, <3>2, <3>6, FS_AddElement
    <3> QED BY <1>1, <2>1, <3>1, <3>2, <3>3, <3>5, <3>6, <3>7 DEF BackedInv
  <2>3. CASE ~(Commit(w) /\ event[w].key \notin known[w])
    <3>1. \/ UNCHANGED report
          \/ \E names \in SUBSET (Counters \ {"ingested"}) :
               report' = [report EXCEPT ![w] = Incremented(@, names)]
          \/ \E names \in SUBSET (Counters \ {"ingested"}) :
               report' = [report EXCEPT ![w] =
                            Incremented([@ EXCEPT !["empty_polls"] = 0], names)]
      <4>1. CASE Deliver(w)
        <5>1. position[w] \in Offset
          BY <4>1, ParametersAssumption DEF Deliver, Receive, LInv, Shapes, Offset
        <5>2. log[position[w]].kind \in {"event", "partial", "empty", "invalid", "undecodable"}
          BY <5>1, ParametersAssumption DEF LInv, Shapes, Payload
        <5>3. \/ Branch(w, "lookup", {}) \/ Branch(w, "decode", {})
              \/ Branch(w, "dead_letter", {"failed", "invalid_messages"})
          BY <4>1, <5>2 DEF Deliver, Classify
        <5>4. /\ {} \union {"scanned"} \in SUBSET (Counters \ {"ingested"})
              /\ {"failed", "invalid_messages"} \union {"scanned"} \in SUBSET (Counters \ {"ingested"})
          BY DEF Counters
        <5> QED BY <5>3, <5>4 DEF Branch
      <4>2. CASE PollError(w)
        <5>1. {"failed"} \union {"scanned"} \in SUBSET (Counters \ {"ingested"})
          BY DEF Counters
        <5> QED BY <4>2, <5>1 DEF PollError, Branch
      <4>3. CASE EmptyPoll(w) \/ SaveDeadLetter(w) \/ PublishReturns(w)
                   \/ PublishRaisesRuntimeError(w) \/ Commit(w)
        <5>1. \A c \in {"empty_polls", "dead_lettered", "dead_letter_published",
                        "dead_letter_publish_failed", "duplicates"} :
                {c} \in SUBSET (Counters \ {"ingested"})
          BY DEF Counters
        <5> QED BY <2>3, <4>3, <5>1 DEF EmptyPoll, SaveDeadLetter, PublishReturns,
                     PublishRaisesRuntimeError, Commit, Count
      <4>4. CASE Lookup(w)
        <5>1. {"failed", "conflicts"} \in SUBSET (Counters \ {"ingested"})
          BY DEF Counters
        <5> QED BY <4>4, <5>1 DEF Lookup, Count, ConflictCounts
      <4>5. CASE Assign(w) \/ CommitDeadLetter(w)
        BY <4>5 DEF Assign, CommitDeadLetter
      <4>6. CASE Insert(w) /\ pc'[w] # "stopped"
        BY <4>6 DEF Insert, Die, Leave, Go, LInv, Shapes
      <4> QED BY <1>12, <4>1, <4>2, <4>3, <4>4, <4>5, <4>6 DEF BatchContinues, Continues, Process
    <3>2. report'[w]["ingested"] = report[w]["ingested"]
      <4>1. \A names \in SUBSET (Counters \ {"ingested"}) :
              /\ Incremented(report[w], names)["ingested"] = report[w]["ingested"]
              /\ Incremented([report[w] EXCEPT !["empty_polls"] = 0], names)["ingested"]
                   = report[w]["ingested"]
        BY <1>1 DEF Incremented
      <4> QED BY <3>1, <4>1 DEF RInv
    <3>3. Reported("ingested")' = Reported("ingested")
      BY <1>1, <2>1, <3>2 DEF Reported
    <3>4. known' = known /\ (events' = events \/ \E v : events' = events \union {v})
      <4>1. CASE Commit(w)
        BY <2>3, <4>1 DEF Commit, store
      <4>2. CASE ~Commit(w)
        BY <1>12, <4>2 DEF BatchContinues, Continues, Process, Assign, EmptyPoll, Deliver,
          PollError, Lookup, Insert, SaveDeadLetter, PublishReturns,
          PublishRaisesRuntimeError, CommitDeadLetter, store
      <4> QED BY <4>1, <4>2
    <3>5. IsFiniteSet(events') /\ events \subseteq events'
      BY <1>1, <1>2, <3>4
    <3> QED BY <1>1, <2>1, <3>3, <3>4, <3>5, UncountedKeepsBacked
  <2> QED BY <2>2, <2>3
<1> QED BY <1>4, <1>5, <1>6, <1>7, <1>8, <1>9, <1>10, <1>11, <1>12 DEF SNext

\* With one consumer the supervisor never reports more ingested events than
\* the store holds, for any number of batches, redeliveries, failures and
\* concurrent API writes.
THEOREM SupervisorTotalsAreBacked == SSpec => []TotalsAreBacked
<1>1. SInit => LInv /\ RInv /\ BackedInv
  <2> SUFFICES ASSUME SInit PROVE BackedInv
    BY InitEstablishes, InitialReports DEF SInit
  <2>1. /\ totals \in [Counters -> Nat] /\ totals["ingested"] = 0
        /\ pc[Supervised] = "stopped" /\ known[Supervised] = {} /\ events = {}
        /\ known = [w \in Workers |-> known[w]]
    BY SupervisorAssumption DEF SInit, Init, NoCounts, Counters
  <2> QED BY <2>1, FS_EmptySet DEF BackedInv, Reported
<1>2. LInv /\ RInv /\ BackedInv /\ [SNext]_svars => LInv' /\ RInv' /\ BackedInv'
  BY SupervisedInvariants, BackedKept
<1>3. RInv /\ BackedInv => TotalsAreBacked
  <2> SUFFICES ASSUME RInv, BackedInv PROVE TotalsAreBacked
    OBVIOUS
  <2>1. Reported("ingested") \in Nat
    BY SupervisorAssumption DEF RInv, BackedInv, Counters, Reported
  <2>2. /\ Cardinality(known[Supervised]) <= Cardinality(KnownKeys)
        /\ Cardinality(known[Supervised]) \in Nat /\ Cardinality(KnownKeys) \in Nat
    BY SnapshotGrows DEF BackedInv
  <2>3. Cardinality(KnownKeys) <= Cardinality(events) /\ Cardinality(events) \in Nat
    BY KeysAreCounted, FS_CardinalityType DEF BackedInv
  <2> QED BY <2>1, <2>2, <2>3 DEF BackedInv, TotalsAreBacked
<1> QED BY <1>1, <1>2, <1>3, PTL DEF SSpec

-----------------------------------------------------------------------------
(* What the group has acknowledged is in the report.                       *)

Unfailed == status # "crashed" /\ batches["failed"] = 0

\* The supervised worker is the group: the position it reads at, and so what it
\* may commit, is as far as its batches have scanned.
ScannedInv ==
  /\ owner \in {NoWorker, Supervised}
  /\ pc[Supervised] = "stopped" => owner = NoWorker
  /\ totals \in [Counters -> Nat]
  /\ batches \in [BatchCounters -> Nat]
  /\ Unfailed =>
       /\ committed <= Reported("scanned")
       /\ owner = Supervised => position[Supervised] <= Reported("scanned")

\* A step that moves no offset and loses no count.
LEMMA OffsetsUnmoved ==
  ASSUME ScannedInv, UNCHANGED <<committed, owner, position, totals>>,
         batches' \in [BatchCounters -> Nat], Unfailed' => Unfailed,
         pc'[Supervised] = "stopped" => owner = NoWorker,
         committed \in Nat, position[Supervised] \in Nat,
         Reported("scanned") \in Nat, Reported("scanned")' \in Nat,
         Reported("scanned")' >= Reported("scanned")
  PROVE  ScannedInv'
BY DEF ScannedInv

\* A batch that ended takes the partition back.
LEMMA BatchGone ==
  ASSUME ScannedInv, Leave(Supervised), totals' \in [Counters -> Nat],
         batches' \in [BatchCounters -> Nat],
         Unfailed' => Unfailed /\ Reported("scanned")' = Reported("scanned")
  PROVE  ScannedInv'
<1>1. owner' = NoWorker /\ committed' = committed /\ NoWorker # Supervised
  BY SupervisorAssumption, ParametersAssumption DEF ScannedInv, Leave
<1> QED BY <1>1 DEF ScannedInv

\* What the worker's own steps do to its offsets and to its count.
LEMMA ScanSteps ==
  ASSUME LInv, RInv, RInv', ScannedInv, BatchContinues
  PROVE  LET w == Supervised IN
         \/ /\ UNCHANGED <<committed, owner, position>>
            /\ report'[w]["scanned"] \in {report[w]["scanned"], report[w]["scanned"] + 1}
         \/ /\ UNCHANGED <<committed, owner>> /\ owner = w
            /\ position' = [position EXCEPT ![w] = @ + 1]
            /\ report'[w]["scanned"] = report[w]["scanned"] + 1
         \/ /\ owner' = w /\ position' = [position EXCEPT ![w] = committed]
            /\ UNCHANGED <<committed, report>>
         \/ /\ UNCHANGED <<owner, position>> /\ owner = w
            /\ committed' \in {committed, position[w]}
            /\ report'[w]["scanned"] = report[w]["scanned"]
<1> DEFINE w == Supervised
<1> USE SupervisorAssumption
<1>1. /\ w \in Workers /\ report[w] \in [Counters -> Nat] /\ "scanned" \in Counters
      /\ report = [v \in Workers |-> report[v]]
  BY DEF RInv, Counters
<1>2. \A names \in SUBSET Counters :
        /\ Incremented(report[w], names)["scanned"] \in
             {report[w]["scanned"], report[w]["scanned"] + 1}
        /\ "scanned" \notin names => Incremented(report[w], names)["scanned"] = report[w]["scanned"]
        /\ "scanned" \in names =>
             Incremented([report[w] EXCEPT !["empty_polls"] = 0], names)["scanned"]
               = report[w]["scanned"] + 1
  BY <1>1 DEF Incremented
<1>3. CASE Deliver(w)
  <2>1. /\ position[w] \in Offset /\ UNCHANGED <<committed, owner>> /\ owner = w
        /\ position' = [position EXCEPT ![w] = @ + 1]
    BY <1>3, ParametersAssumption DEF Deliver, Receive, LInv, Shapes, Offset
  <2>2. log[position[w]].kind \in {"event", "partial", "empty", "invalid", "undecodable"}
    BY <2>1, ParametersAssumption DEF LInv, Shapes, Payload
  <2>3. \/ Branch(w, "lookup", {}) \/ Branch(w, "decode", {})
        \/ Branch(w, "dead_letter", {"failed", "invalid_messages"})
    BY <1>3, <2>2 DEF Deliver, Classify
  <2>4. \E names \in SUBSET Counters :
          /\ "scanned" \in names
          /\ report'[w] = Incremented([report[w] EXCEPT !["empty_polls"] = 0], names)
    <3>1. {} \union {"scanned"} \in SUBSET Counters
          /\ {"failed", "invalid_messages"} \union {"scanned"} \in SUBSET Counters
      BY DEF Counters
    <3> QED BY <1>1, <2>3, <3>1 DEF Branch
  <2> QED BY <1>2, <2>1, <2>4
<1>4. CASE PollError(w)
  <2>1. {"failed"} \union {"scanned"} \in SUBSET Counters
    BY DEF Counters
  <2>2. UNCHANGED <<committed, owner, position>>
    BY <1>4 DEF PollError, group
  <2>3. report'[w] = Incremented([report[w] EXCEPT !["empty_polls"] = 0], {"failed"} \union {"scanned"})
    BY <1>1, <1>4 DEF PollError, Branch
  <2> QED BY <1>2, <2>1, <2>2, <2>3
<1>5. CASE Assign(w)
  BY <1>5 DEF Assign, StartOffset
<1>6. CASE EmptyPoll(w) \/ SaveDeadLetter(w) \/ PublishReturns(w) \/ PublishRaisesRuntimeError(w)
  <2>1. \A c \in {"empty_polls", "dead_lettered", "dead_letter_published",
                  "dead_letter_publish_failed"} : {c} \in SUBSET Counters
    BY DEF Counters
  <2>2. \E names \in SUBSET Counters : report'[w] = Incremented(report[w], names)
    BY <1>1, <1>6, <2>1 DEF EmptyPoll, SaveDeadLetter, PublishReturns, PublishRaisesRuntimeError,
      Count
  <2>3. UNCHANGED <<committed, owner, position>>
    BY <1>6 DEF EmptyPoll, SaveDeadLetter, PublishReturns, PublishRaisesRuntimeError, group
  <2> QED BY <1>2, <2>2, <2>3
<1>7. CASE Lookup(w)
  <2>1. {"failed", "conflicts"} \in SUBSET Counters
    BY DEF Counters
  <2>2. UNCHANGED <<committed, owner, position>>
    BY <1>7 DEF Lookup, group
  <2>3. report'[w] = report[w] \/ report'[w] = Incremented(report[w], {"failed", "conflicts"})
    BY <1>1, <1>7 DEF Lookup, Count, ConflictCounts
  <2> QED BY <1>2, <2>1, <2>2, <2>3
<1>8. CASE Insert(w) /\ pc'[w] # "stopped"
  BY <1>8 DEF Insert, Die, Leave, Go, LInv, Shapes, group
<1>9. CASE Commit(w) \/ CommitDeadLetter(w)
  <2>1. /\ UNCHANGED <<owner, position>> /\ owner = w
        /\ committed' = IF current[w] = NoOffset THEN committed ELSE current[w] + 1
    BY <1>9 DEF Commit, CommitDeadLetter, Acknowledge, NextOffset
  <2>2. current[w] # NoOffset => current[w] + 1 = position[w]
    BY <2>1 DEF LInv, Shapes, OwnerReadOn
  <2>3. report'[w] = report[w] \/ report'[w] = Incremented(report[w], {"duplicates"})
          \/ report'[w] = Incremented(report[w], {"ingested"})
    BY <1>1, <1>9 DEF Commit, CommitDeadLetter, Count
  <2>4. \A c \in {"duplicates", "ingested"} :
          Incremented(report[w], {c})["scanned"] = report[w]["scanned"]
    BY <1>1 DEF Incremented
  <2> QED BY <2>1, <2>2, <2>3, <2>4
<1> QED
  BY <1>3, <1>4, <1>5, <1>6, <1>7, <1>8, <1>9 DEF BatchContinues, Continues, Process

LEMMA ScannedKept ==
  ASSUME LInv, RInv, LInv', RInv', ScannedInv, [SNext]_svars
  PROVE  ScannedInv'
<1> DEFINE w == Supervised
<1> USE SupervisorAssumption, ParametersAssumption
<1>1. /\ w \in Workers /\ report[w]["scanned"] \in Nat /\ report'[w]["scanned"] \in Nat
      /\ committed \in Nat /\ position[w] \in Nat /\ position'[w] \in Nat
      /\ totals["scanned"] \in Nat /\ Reported("scanned") \in Nat
      /\ batches["failed"] \in Nat
  BY DEF RInv, LInv, Shapes, ScannedInv, Counters, BatchCounters, Reported
<1>2. CASE BatchStarts
  <2>1. /\ pc[w] = "stopped" /\ pc'[w] = "poll" /\ report'[w]["scanned"] = 0
        /\ UNCHANGED <<committed, owner, position, totals, status>>
        /\ batches' = [batches EXCEPT !["attempted"] = @ + 1]
    BY <1>2 DEF BatchStarts, Start, Go, NoCounts, Counters, group, RInv, LInv, Shapes
  <2>2. Reported("scanned")' = Reported("scanned")
    BY <1>1, <2>1 DEF Reported
  <2>3. batches' \in [BatchCounters -> Nat] /\ batches'["failed"] = batches["failed"]
    BY <2>1 DEF ScannedInv, BatchCounters
  <2> QED BY <1>1, <2>1, <2>2, <2>3, OffsetsUnmoved DEF Unfailed
<1>3. ASSUME NEW attempts \in {0, 1}, Failed(attempts)
      PROVE  /\ UNCHANGED totals /\ batches' \in [BatchCounters -> Nat] /\ ~Unfailed'
  <2>1. batches' = [batches EXCEPT !["attempted"] = @ + attempts, !["failed"] = @ + 1]
    BY <1>3 DEF Failed
  <2>2. /\ batches \in [BatchCounters -> Nat] /\ attempts \in Nat
        /\ {"attempted", "failed"} \subseteq BatchCounters
    BY <1>3 DEF ScannedInv, BatchCounters
  <2>3. batches' \in [BatchCounters -> Nat] /\ batches'["failed"] = batches["failed"] + 1
    BY <2>1, <2>2
  <2> QED BY <1>1, <1>3, <2>3 DEF Failed, Unfailed
<1>4. CASE CreateFails
  <2>1. UNCHANGED <<committed, owner, position, pc, report>> /\ Failed(1)
    BY <1>4 DEF CreateFails, group
  <2> QED BY <1>3, <2>1 DEF ScannedInv
<1>5. CASE BatchFails
  <2>1. Leave(w) /\ Failed(0)
    BY <1>5 DEF BatchFails, PollRaisesRuntimeError, Die
  <2> QED BY <1>3, <2>1, BatchGone DEF ScannedInv
<1>6. CASE BatchCompletes
  <2>1. /\ Leave(w) /\ pc[w] = "poll" /\ pc'[w] = "stopped" /\ UNCHANGED <<report, status>>
        /\ totals' = [c \in Counters |-> totals[c] + report[w][c]]
    BY <1>6 DEF BatchCompletes, Finish, Leave, Go, Summed, LInv, Shapes
  <2>2. /\ batches \in [BatchCounters -> Nat]
        /\ {"completed", "idle", "failed"} \subseteq BatchCounters
        /\ \E idle \in Nat : batches' = [batches EXCEPT !["completed"] = @ + 1, !["idle"] = idle]
    <3>1. batches["idle"] \in Nat /\ batches["idle"] + 1 \in Nat
      BY DEF ScannedInv, BatchCounters
    <3> QED BY <1>6, <3>1 DEF BatchCompletes, ScannedInv, BatchCounters
  <2>3. batches' \in [BatchCounters -> Nat] /\ batches'["failed"] = batches["failed"]
    BY <2>2
  <2>4. totals' \in [Counters -> Nat]
    BY <2>1 DEF ScannedInv, RInv
  <2>5. Reported("scanned")' = Reported("scanned")
    BY <1>1, <2>1 DEF Reported, Counters
  <2> QED BY <2>1, <2>4, <2>5, <2>3, BatchGone DEF Unfailed
<1>7. CASE SupervisorDies
  <2>1. /\ pc[w] # "stopped" /\ pc'[w] = "stopped" /\ ~Unfailed'
        /\ UNCHANGED <<batches, totals>>
    BY <1>7, EscapesStops DEF SupervisorDies, Unfailed
  <2>2. Leave(w)
    BY <1>7, <2>1 DEF SupervisorDies, Escapes, DecodeRaises, PublishRaisesTimeoutError,
      CommitRaises, Crash, Insert, Die, Go, LInv, Shapes
  <2> QED BY <2>1, <2>2, BatchGone DEF ScannedInv
<1>8. CASE Returns
  <2>1. UNCHANGED <<committed, owner, position, totals, batches, pc, report>>
        /\ (Unfailed' => Unfailed)
    BY <1>8 DEF Returns, vars, group, Unfailed
  <2> QED BY <1>1, <2>1, OffsetsUnmoved DEF ScannedInv, Reported
<1>9. CASE (\E e \in Events : ApiAddEvent(e) /\ UNCHANGED supervisor) \/ UNCHANGED svars
  <2>1. UNCHANGED <<committed, owner, position, totals, batches, status, pc, report>>
    BY <1>9 DEF ApiAddEvent, svars, vars, supervisor, group
  <2> QED BY <1>1, <2>1, OffsetsUnmoved DEF ScannedInv, Reported, Unfailed
<1>10. CASE BatchContinues
  <2>1. /\ pc[w] # "stopped" /\ pc'[w] # "stopped" /\ UNCHANGED <<totals, batches, status>>
    BY <1>10, GoesOnRunning DEF BatchContinues, GoesOn, supervisor
  <2>2. /\ Reported("scanned") = totals["scanned"] + report[w]["scanned"]
        /\ Reported("scanned")' = totals["scanned"] + report'[w]["scanned"]
        /\ Reported("scanned")' \in Nat
    BY <1>1, <2>1 DEF Reported
  <2>3. /\ totals' \in [Counters -> Nat] /\ batches' \in [BatchCounters -> Nat]
        /\ Unfailed' <=> Unfailed
    BY <2>1 DEF ScannedInv, Unfailed
  <2>4. position = [v \in Workers |-> position[v]]
    BY DEF LInv, Shapes
  <2>5. CASE UNCHANGED <<committed, owner, position>>
             /\ report'[w]["scanned"] \in {report[w]["scanned"], report[w]["scanned"] + 1}
    BY <1>1, <2>1, <2>2, <2>3, <2>5, OffsetsUnmoved
  <2>6. CASE /\ UNCHANGED <<committed, owner>> /\ owner = w
             /\ position' = [position EXCEPT ![w] = @ + 1]
             /\ report'[w]["scanned"] = report[w]["scanned"] + 1
    BY <1>1, <2>1, <2>2, <2>3, <2>4, <2>6 DEF ScannedInv
  <2>7. CASE /\ owner' = w /\ position' = [position EXCEPT ![w] = committed]
             /\ UNCHANGED <<committed, report>>
    BY <1>1, <2>1, <2>2, <2>3, <2>4, <2>7 DEF ScannedInv
  <2>8. CASE /\ UNCHANGED <<owner, position>> /\ owner = w
             /\ committed' \in {committed, position[w]}
             /\ report'[w]["scanned"] = report[w]["scanned"]
    BY <1>1, <2>1, <2>2, <2>3, <2>8 DEF ScannedInv
  <2> QED BY <1>10, <2>5, <2>6, <2>7, <2>8, ScanSteps
<1> QED BY <1>2, <1>4, <1>5, <1>6, <1>7, <1>8, <1>9, <1>10 DEF SNext

\* Unless a batch failed or the process died, the totals and the running batch
\* account for every message the group has acknowledged: a batch starts where
\* the last one committed, and nobody else moves the offset.
THEOREM SupervisorReportsCommitted == SSpec => []CommittedIsReported
<1>1. SInit => LInv /\ RInv /\ ScannedInv
  <2> SUFFICES ASSUME SInit PROVE ScannedInv
    BY InitEstablishes, InitialReports DEF SInit
  <2>1. /\ totals \in [Counters -> Nat] /\ totals["scanned"] = 0
        /\ batches \in [BatchCounters -> Nat]
        /\ pc[Supervised] = "stopped" /\ owner = NoWorker /\ committed = 0
        /\ NoWorker # Supervised
    BY SupervisorAssumption, ParametersAssumption DEF SInit, Init, NoCounts, Counters
  <2> QED BY <2>1 DEF ScannedInv, Reported
<1>2. LInv /\ RInv /\ ScannedInv /\ [SNext]_svars => LInv' /\ RInv' /\ ScannedInv'
  BY SupervisedInvariants, ScannedKept
<1>3. ScannedInv => CommittedIsReported
  BY DEF ScannedInv, Unfailed, CommittedIsReported
<1> QED BY <1>1, <1>2, <1>3, PTL DEF SSpec

-----------------------------------------------------------------------------
(* What a HEALTHY report means.                                            *)

\* Messages of the partition that are not in the store.
Missing == {o \in Offset : Readings(log[o]) \intersect events = {}}

\* A lag that was read says at least how many messages are not acknowledged
\* now, however old it is: the offset never moves back.
LagIsBound(l) ==
  /\ l \in [checked : BOOLEAN, error : BOOLEAN, total_lag : Nat \union {NoOffset}]
  /\ l.checked /\ l.total_lag # NoOffset => Length - committed <= l.total_lag

HealthInv == LagIsBound(lag_file) /\ LagIsBound(lag) /\ HealthyMeansStored

\* The larger of two numbers, and the smaller.
LEMMA MaxOfTwo ==
  ASSUME NEW a \in Int, NEW b \in Int
  PROVE  Max({a, b}) \in {a, b} /\ a <= Max({a, b}) /\ b <= Max({a, b})
<1>1. \E x \in {a, b} : \A y \in {a, b} : x >= y
  OBVIOUS
<1> QED BY <1>1 DEF Max

LEMMA MinOfTwo ==
  ASSUME NEW a \in Int, NEW b \in Int
  PROVE  Min({a, b}) \in {a, b} /\ Min({a, b}) <= a /\ Min({a, b}) <= b
<1>1. \E x \in {a, b} : \A y \in {a, b} : x <= y
  OBVIOUS
<1> QED BY <1>1 DEF Min

LEMMA PartitionIsFinite == IsFiniteSet(Offset)
<1>1. 0 \in Int /\ Length - 1 \in Int
  BY ParametersAssumption
<1> QED BY <1>1, FS_Interval DEF Offset

\* Few rows of dead letters are dead letters of few messages.
LEMMA DeadLettersAreRows ==
  ASSUME Shapes
  PROVE  /\ IsFiniteSet(DeadLetterRows)
         /\ IsFiniteSet({o \in Offset : deadLetters[o] > 0})
         /\ Cardinality({o \in Offset : deadLetters[o] > 0}) <= Cardinality(DeadLetterRows)
<1> DEFINE D == Offset \union {NoOffset}
           f == [o \in D |-> {o} \X (1 .. deadLetters[o])]
           g == [r \in DeadLetterRows |-> r[1]]
<1>1. DOMAIN deadLetters = D /\ \A o \in D : deadLetters[o] \in Nat
  BY DEF Shapes
<1>2. IsFiniteSet(D)
  BY PartitionIsFinite, FS_AddElement
<1>3. DeadLetterRows = UNION {f[o] : o \in D}
  BY <1>1 DEF DeadLetterRows
<1>4. \A o \in D : IsFiniteSet(f[o])
  <2> SUFFICES ASSUME NEW o \in D PROVE IsFiniteSet({o} \X (1 .. deadLetters[o]))
    OBVIOUS
  <2>1. 1 \in Int /\ deadLetters[o] \in Int
    BY <1>1
  <2>2. IsFiniteSet({o}) /\ IsFiniteSet(1 .. deadLetters[o])
    BY <2>1, FS_Singleton, FS_Interval
  <2> QED BY <2>2, FS_Product
<1>5. f = [o \in D |-> f[o]] /\ g = [r \in DeadLetterRows |-> g[r]]
  OBVIOUS
<1>6. ASSUME NEW o \in Offset, deadLetters[o] > 0
      PROVE  <<o, 1>> \in DeadLetterRows /\ g[<<o, 1>>] = o
  <2>1. o \in D /\ 1 \in 1 .. deadLetters[o]
    BY <1>1, <1>6
  <2>2. <<o, 1>> \in DeadLetterRows
    BY <1>1, <2>1 DEF DeadLetterRows
  <2> QED BY <2>2
<1> HIDE DEF f, g
<1>7. IsFiniteSet({f[o] : o \in D})
  BY <1>2, <1>5, FiniteImage
<1>8. IsFiniteSet(DeadLetterRows)
  BY <1>3, <1>4, <1>7, FS_UNION
<1>9. {o \in Offset : deadLetters[o] > 0} \subseteq {g[r] : r \in DeadLetterRows}
  BY <1>6
<1>10. /\ IsFiniteSet({g[r] : r \in DeadLetterRows})
       /\ Cardinality({g[r] : r \in DeadLetterRows}) <= Cardinality(DeadLetterRows)
  BY <1>5, <1>8, FiniteImage
<1>11. /\ IsFiniteSet({o \in Offset : deadLetters[o] > 0})
       /\ Cardinality({o \in Offset : deadLetters[o] > 0})
            <= Cardinality({g[r] : r \in DeadLetterRows})
  BY <1>9, <1>10, FS_Subset
<1>12. /\ Cardinality({o \in Offset : deadLetters[o] > 0}) \in Nat
       /\ Cardinality({g[r] : r \in DeadLetterRows}) \in Nat
       /\ Cardinality(DeadLetterRows) \in Nat
  BY <1>8, <1>10, <1>11, FS_CardinalityType
<1> QED BY <1>8, <1>10, <1>11, <1>12

\* What is not stored is not acknowledged, or dead-lettered.
LEMMA MissingIsLagOrDead ==
  ASSUME LInv, NEW lagging \in Nat, Length - committed <= lagging
  PROVE  /\ IsFiniteSet(Missing) /\ Cardinality(Missing) \in Nat
         /\ Cardinality(DeadLetterRows) \in Nat
         /\ Cardinality(Missing) <= lagging + Cardinality(DeadLetterRows)
<1> DEFINE Late == committed .. Length - 1
           Dead == {o \in Offset : deadLetters[o] > 0}
<1>1. committed \in 0 .. Length /\ Length \in Nat
  BY ParametersAssumption DEF LInv, Shapes
<1>2. Missing \subseteq Late \union Dead
  <2> SUFFICES ASSUME NEW o \in Missing, ~(o >= committed) PROVE o \in Dead
    BY <1>1 DEF Missing, Offset
  <2>1. o \in Offset /\ Handled(o)
    BY <1>1 DEF Missing, Offset, LInv, CommittedIsHandled
  <2> QED BY <2>1 DEF Handled, Missing
<1>3. /\ IsFiniteSet(Late) /\ Cardinality(Late) \in Nat /\ Cardinality(Late) <= Length - committed
  <2>1. /\ IsFiniteSet(Late)
        /\ Cardinality(Late) = IF committed > Length - 1 THEN 0 ELSE Length - 1 - committed + 1
    BY <1>1, FS_Interval
  <2> QED BY <1>1, <2>1
<1>4. /\ IsFiniteSet(Dead) /\ Cardinality(Dead) <= Cardinality(DeadLetterRows)
      /\ Cardinality(Dead) \in Nat /\ Cardinality(DeadLetterRows) \in Nat
  BY DeadLettersAreRows, FS_CardinalityType DEF LInv
<1> HIDE DEF Late, Dead
<1>5. /\ IsFiniteSet(Late \union Dead)
      /\ Cardinality(Late \union Dead)
           = Cardinality(Late) + Cardinality(Dead) - Cardinality(Late \intersect Dead)
  BY <1>3, <1>4, FS_Union
<1>6. Cardinality(Late \intersect Dead) \in Nat
  BY <1>3, FS_Intersection, FS_CardinalityType
<1>7. /\ IsFiniteSet(Missing) /\ Cardinality(Missing) \in Nat
      /\ Cardinality(Missing) <= Cardinality(Late \union Dead)
  BY <1>2, <1>5, FS_Subset, FS_CardinalityType
<1> QED BY <1>1, <1>3, <1>4, <1>5, <1>6, <1>7

\* The alerts that a HEALTHY grade excludes.
LEMMA HealthyReadings ==
  ASSUME LagIsBound(lag), NEW sample_count \in Nat,
         Status(Alerts(lag, receipt, sample_count)) = "healthy"
  PROVE  /\ lag.checked /\ lag.total_lag \in Nat /\ lag.total_lag < WarningLag
         /\ sample_count < WarningDeadLetters
<1> DEFINE alerts == Alerts(lag, receipt, sample_count)
<1>1. \A a \in alerts : a.severity # "critical" /\ a.severity # "warning"
  BY DEF Status, Of
<1>2. /\ LagAlerts(lag) \subseteq alerts /\ DeadLetterAlerts(sample_count) \subseteq alerts
  BY DEF Alerts
<1> HIDE DEF alerts
<1>3. \A code, severity :
        /\ Alert(code, severity) \subseteq alerts
             => severity # "critical" /\ severity # "warning"
  BY <1>1 DEF Alert
<1>4. ~lag.error /\ lag.checked /\ lag.total_lag # NoOffset
  BY <1>2, <1>3 DEF LagAlerts, LagIsBound
<1>5. ~(lag.total_lag >= CriticalLag) /\ ~(lag.total_lag >= WarningLag)
  BY <1>2, <1>3, <1>4 DEF LagAlerts, LagIsBound
<1>6. lag.total_lag \in Nat
  BY <1>4 DEF LagIsBound
<1>7. ~(sample_count >= CriticalDeadLetters) /\ ~(sample_count >= WarningDeadLetters)
  BY <1>2, <1>3 DEF DeadLetterAlerts
<1> QED BY <1>4, <1>5, <1>6, <1>7, ThresholdsAssumption

\* What the probe reads is a bound.
LEMMA ProbeReadsBound ==
  ASSUME LInv
  PROVE  LagIsBound(LagSnapshot(TotalLag)) /\ LagIsBound(NotChecked)
<1>1. committed \in 0 .. Length /\ Length \in Nat /\ NoOffset \notin Nat
  BY ParametersAssumption DEF LInv, Shapes
<1>2. CASE committed = 0
  <2>1. TotalLag = NoOffset
    BY <1>2 DEF TotalLag, CommittedOffset, LagFromOffsets
  <2> QED BY <1>1, <2>1 DEF LagIsBound, LagSnapshot, NotChecked
<1>3. CASE committed # 0
  <2>1. committed # NoOffset
    BY <1>1
  <2>2. TotalLag = Max({Length - committed, 0})
    BY <1>3, <2>1 DEF TotalLag, CommittedOffset, LagFromOffsets
  <2>3. TotalLag \in Nat /\ Length - committed <= TotalLag
    BY <1>1, <2>2, MaxOfTwo
  <2> QED BY <1>1, <2>3 DEF LagIsBound, LagSnapshot, NotChecked
<1> QED BY <1>2, <1>3

LEMMA HealthKept ==
  ASSUME WarningDeadLetters <= DeadLetterLimit,
         LInv, RInv, LInv', HealthInv, [HNext]_hvars
  PROVE  HealthInv'
<1> USE ThresholdsAssumption
<1>1. [SNext]_svars
  BY DEF HNext, hvars, StreamLag, ReadLag, ReadReceipt, Report
<1>2. log' = log /\ events \subseteq events' /\ committed' >= committed
  BY <1>1, SupervisedInvariants
<1>3. committed \in Nat /\ committed' \in Nat /\ Length \in Nat
  BY ParametersAssumption DEF LInv, Shapes
<1>4. ASSUME NEW l, LagIsBound(l) PROVE LagIsBound(l)'
  BY <1>2, <1>3, <1>4 DEF LagIsBound
<1>5. Missing' \subseteq Missing
  BY <1>2 DEF Missing, Readings
<1>6. /\ IsFiniteSet(Missing) /\ Cardinality(Missing) \in Nat
      /\ Cardinality(Missing') \in Nat /\ Cardinality(Missing') <= Cardinality(Missing)
  <2>1. IsFiniteSet(Missing)
    BY PartitionIsFinite, FS_Subset DEF Missing
  <2> QED BY <1>5, <2>1, FS_Subset, FS_CardinalityType
<1>7. WarningLag \in Nat /\ WarningDeadLetters \in Nat /\ DeadLetterLimit \in Nat
  OBVIOUS
<1>8. health' = health => HealthyMeansStored'
  BY <1>6, <1>7 DEF HealthInv, HealthyMeansStored, Missing
<1>9. CASE (SNext /\ UNCHANGED monitor) \/ UNCHANGED hvars
  BY <1>4, <1>8, <1>9 DEF HealthInv, monitor, hvars
<1>10. CASE StreamLag
  <2>1. LagIsBound(LagSnapshot(TotalLag)) /\ UNCHANGED <<committed, lag, health>>
        /\ lag_file' = LagSnapshot(TotalLag)
    BY <1>10, ProbeReadsBound DEF StreamLag, svars, vars, group
  <2> QED BY <1>8, <2>1 DEF HealthInv, LagIsBound
<1>11. CASE ReadLag
  <2>1. /\ UNCHANGED <<committed, health>> /\ lag_file' = NotChecked
        /\ \/ lag' = lag
           \/ lag' = [lag EXCEPT !.error = TRUE]
           \/ lag' = LagSnapshot(TotalLag)
           \/ lag' = lag_file
    BY <1>11 DEF ReadLag, svars, vars, group
  <2>2. LagIsBound([lag EXCEPT !.error = TRUE])
    BY DEF HealthInv, LagIsBound
  <2>3. LagIsBound(lag') /\ LagIsBound(lag_file')
    BY <2>1, <2>2, ProbeReadsBound DEF HealthInv
  <2> QED BY <1>8, <2>1, <2>3 DEF HealthInv, LagIsBound
<1>12. CASE ReadReceipt
  BY <1>8, <1>12 DEF ReadReceipt, HealthInv, LagIsBound, svars, vars, group
<1>13. CASE Report
  <2>1. /\ UNCHANGED <<committed, lag_file, log, events>> /\ lag' = NotChecked
        /\ health'.status = Status(Alerts(lag, receipt, SampleCount))
    BY <1>13 DEF Report, svars, vars, group, store
  <2>2. Cardinality(DeadLetterRows) \in Nat
    BY DeadLettersAreRows, FS_CardinalityType DEF LInv
  <2>3. /\ SampleCount \in Nat
        /\ SampleCount < WarningDeadLetters => Cardinality(DeadLetterRows) < WarningDeadLetters
    <3>1. Cardinality(DeadLetterRows) \in Int /\ DeadLetterLimit \in Int
      BY <1>7, <2>2
    <3>2. SampleCount \in {Cardinality(DeadLetterRows), DeadLetterLimit}
      BY <3>1, MinOfTwo DEF SampleCount
    <3> QED BY <1>7, <2>2, <3>2
  <2>4. HealthyMeansStored'
    <3> SUFFICES ASSUME health'.status = "healthy"
                 PROVE  Cardinality(Missing') < WarningLag + WarningDeadLetters - 1
      BY DEF HealthyMeansStored, Missing
    <3>1. /\ lag.checked /\ lag.total_lag \in Nat /\ lag.total_lag < WarningLag
          /\ SampleCount < WarningDeadLetters
      BY <2>1, <2>3, HealthyReadings DEF HealthInv
    <3>2. Length - committed <= lag.total_lag
      BY <3>1, ParametersAssumption DEF HealthInv, LagIsBound
    <3>3. Cardinality(Missing) <= lag.total_lag + Cardinality(DeadLetterRows)
      BY <3>1, <3>2, MissingIsLagOrDead
    <3> QED BY <1>6, <1>7, <2>2, <2>3, <3>1, <3>3
  <2>5. LagIsBound(lag_file)' /\ LagIsBound(lag)'
    BY <2>1, ProbeReadsBound DEF HealthInv, LagIsBound
  <2> QED BY <2>4, <2>5 DEF HealthInv
<1> QED BY <1>9, <1>10, <1>11, <1>12, <1>13 DEF HNext

\* A HEALTHY report bounds what is missing from the store: fewer messages than
\* the lag threshold, and the dead letters below theirs, although the lag, the
\* receipt and the dead letters were read at different moments, or the lag long
\* before.  The sample of dead letters must be able to reach its threshold, as
\* with the command's defaults (1 and 100).
THEOREM HealthyReportsAreTrue ==
  WarningDeadLetters <= DeadLetterLimit => (HSpec => []HealthyMeansStored)
<1> SUFFICES ASSUME WarningDeadLetters <= DeadLetterLimit
             PROVE  HSpec => []HealthyMeansStored
  OBVIOUS
<1>1. HInit => LInv /\ RInv /\ HealthInv
  <2> SUFFICES ASSUME HInit PROVE HealthInv
    BY InitEstablishes, InitialReports DEF HInit, SInit
  <2>1. LagIsBound(NotChecked)
    BY InitEstablishes, ProbeReadsBound DEF HInit, SInit
  <2> QED BY <2>1 DEF HInit, HealthInv, HealthyMeansStored, NoReport
<1>2. LInv /\ RInv /\ HealthInv /\ [HNext]_hvars => LInv' /\ RInv' /\ HealthInv'
  <2> SUFFICES ASSUME LInv, RInv, HealthInv, [HNext]_hvars PROVE LInv' /\ RInv' /\ HealthInv'
    OBVIOUS
  <2>1. [SNext]_svars
    BY DEF HNext, hvars, StreamLag, ReadLag, ReadReceipt, Report
  <2> QED BY <2>1, SupervisedInvariants, HealthKept
<1>3. HealthInv => HealthyMeansStored
  BY DEF HealthInv
<1> QED BY <1>1, <1>2, <1>3, PTL DEF HSpec
=============================================================================
