---------------------------- MODULE OutboxProofs ----------------------------
(* What holds of Outbox for any number of drains, events, messages and     *)
(* faults.                                                                 *)
EXTENDS Outbox, FiniteSetTheorems, TLAPS

\* A drain that is handling a message has one.
Holding(w) == pc[w] \in {"published", "failed", "counted"}

TInv ==
  /\ TypeOK
  /\ \A w \in Workers : Holding(w) => current[w] \in MsgId

LEMMA MessageIds == MsgId \subseteq Nat
BY DEF MsgId

\* A drain between publish and mark holds a message, and everything has its
\* type: the invariant every other proof rests on.
LEMMA DrainsHoldMessages == Spec => []TInv
<1> USE DEF TInv, TypeOK, Holding
<1>1. Init => TInv
  BY BoundsAssumption DEF Init
<1>2. TInv /\ [Next]_vars => TInv'
  <2> SUFFICES ASSUME TInv, [Next]_vars PROVE TInv'
    OBVIOUS
  <2> USE BoundsAssumption, NoRowAssumption
  <2>1. ASSUME NEW e \in Events, AddEvent(e) PROVE TInv'
    <3>1. events' \subseteq Events
      BY <2>1 DEF AddEvent
    <3>2. outbox' \in [MsgId -> Row \union {NoRow}] /\ created' \in 0 .. MaxMessages
      <4>1. CASE UNCHANGED <<outbox, created>>
        BY <4>1
      <4>2. CASE /\ created < MaxMessages
                 /\ created' = created + 1
                 /\ outbox' = [outbox EXCEPT ![created + 1] =
                                 [event |-> e, status |-> "PENDING", attempts |-> 0]]
        <5>1. created + 1 \in 0 .. MaxMessages /\ created + 1 \in MsgId
          BY <4>2 DEF MsgId
        <5>2. [event |-> e, status |-> "PENDING", attempts |-> 0] \in Row
          BY DEF Row, Status
        <5> QED BY <4>2, <5>1, <5>2
      <4> QED BY <2>1, <4>1, <4>2 DEF AddEvent, EnqueueOutbox
    <3>3. audit' \subseteq [action : AuditActions,
                            target : Events \union MsgId \union {NoTarget},
                            attempts : Nat]
      BY <2>1 DEF AddEvent, Entry, AuditActions
    <3>4. UNCHANGED <<broker, crashes, drain>>
      BY <2>1 DEF AddEvent
    <3> QED BY <3>1, <3>2, <3>3, <3>4 DEF broker, drain
  <2>2. ASSUME NEW cutoff \in 1 .. MaxMessages + 1, NEW old \in SUBSET events,
               PruneRetention(cutoff, old)
        PROVE TInv'
    <3>1. audit' \subseteq [action : AuditActions,
                            target : Events \union MsgId \union {NoTarget},
                            attempts : Nat]
      BY <2>2 DEF PruneRetention, Entry, AuditActions
    <3> QED BY <3>1, <2>2 DEF PruneRetention, broker, drain
  <2>3. CASE ResetDemoData
    BY <2>3 DEF ResetDemoData, broker, drain
  <2>4. ASSUME NEW w \in Workers, ListOutboxMessages(w) PROVE TInv'
    BY <2>4 DEF ListOutboxMessages, Drainable, store, broker
  <2>5. ASSUME NEW w \in Workers, NEW m \in MsgId, PublishReturns(w, m) PROVE TInv'
    BY <2>5 DEF PublishReturns, Take, Hold, store
  <2>6. ASSUME NEW w \in Workers, NEW m \in MsgId, PublishRaisesRuntimeError(w, m)
        PROVE TInv'
    BY <2>6 DEF PublishRaisesRuntimeError, PublishFails, Take, Hold, store
  <2>7. ASSUME NEW w \in Workers, NEW m \in MsgId, PublishRaisesTimeoutError(w, m)
        PROVE TInv'
    BY <2>7 DEF PublishRaisesTimeoutError, Abort, Forget, store
  <2>8. ASSUME NEW w \in Workers, MarkOutboxPublished(w) PROVE TInv'
    <3>1. audit' \subseteq [action : AuditActions,
                            target : Events \union MsgId \union {NoTarget},
                            attempts : Nat]
      BY <2>8 DEF MarkOutboxPublished, Entry, AuditActions
    <3>2. outbox' \in [MsgId -> Row \union {NoRow}]
      BY <2>8 DEF MarkOutboxPublished, Exists, Row, Status
    <3> QED BY <3>1, <3>2, <2>8 DEF MarkOutboxPublished, Continue, Abort, Forget, broker
  <2>9. ASSUME NEW w \in Workers, ReadAttempts(w) PROVE TInv'
    BY <2>9 DEF ReadAttempts, Exists, Row, Abort, Forget, store, broker
  <2>10. ASSUME NEW w \in Workers, MarkOutboxFailed(w) PROVE TInv'
    <3>1. audit' \subseteq [action : AuditActions,
                            target : Events \union MsgId \union {NoTarget},
                            attempts : Nat]
      BY <2>10 DEF MarkOutboxFailed, Recount, Entry, AuditActions
    <3>2. outbox' \in [MsgId -> Row \union {NoRow}]
      BY <2>10 DEF MarkOutboxFailed, FailedStatus, Recount, Exists, Row, Status
    <3> QED BY <3>1, <3>2, <2>10 DEF MarkOutboxFailed, Continue, Abort, Forget, broker
  <2>11. ASSUME NEW w \in Workers, Crash(w) PROVE TInv'
    BY <2>11 DEF Crash, Abort, Forget, store, broker
  <2>12. CASE UNCHANGED vars
    BY <2>12 DEF vars, store, broker, drain
  <2> QED
    BY <2>1, <2>2, <2>3, <2>4, <2>5, <2>6, <2>7, <2>8, <2>9, <2>10, <2>11, <2>12
    DEF Next, Maintain, Drain, Mark
<1> QED BY <1>1, <1>2, PTL DEF Spec

\* The tables, the topic and the drains always hold values of their types.
THEOREM TypeCorrect == Spec => []TypeOK
<1>1. TInv => TypeOK
  BY DEF TInv
<1> QED BY <1>1, DrainsHoldMessages, PTL

-----------------------------------------------------------------------------
(* PUBLISHED means delivered.  The strengthening says the same of a drain  *)
(* that is about to write PUBLISHED; no other action writes that status,   *)
(* and no action takes a delivery back.                                    *)

PInv ==
  /\ TInv
  /\ PublishedWasDelivered
  /\ \A w \in Workers : pc[w] = "published" => deliveries[current[w]] >= 1

\* When every drain really publishes, no row is ever marked PUBLISHED whose
\* message did not reach the topic.
THEOREM PublishedIsDelivered ==
  ASSUME DryRun = {}
  PROVE  Spec => []PublishedWasDelivered
<1> USE DEF PInv, PublishedWasDelivered, Exists
<1>1. Init /\ TInv => PInv
  BY DEF Init
<1>2. PInv /\ TInv' /\ [Next]_vars => PInv'
  <2> SUFFICES ASSUME PInv, TInv', [Next]_vars PROVE PInv'
    OBVIOUS
  <2> USE BoundsAssumption, NoRowAssumption DEF TInv, TypeOK, Holding
  <2>1. ASSUME NEW e \in Events, AddEvent(e) PROVE PInv'
    <3>1. UNCHANGED <<deliveries, pc, current>>
      BY <2>1 DEF AddEvent, broker, drain
    <3>2. ASSUME NEW m \in MsgId, outbox'[m] # NoRow, outbox'[m].status = "PUBLISHED"
          PROVE  outbox[m] # NoRow /\ outbox[m].status = "PUBLISHED"
      BY <2>1, <3>2 DEF AddEvent, EnqueueOutbox
    <3> QED BY <3>1, <3>2
  <2>2. ASSUME NEW cutoff \in 1 .. MaxMessages + 1, NEW old \in SUBSET events,
               PruneRetention(cutoff, old)
        PROVE PInv'
    BY <2>2 DEF PruneRetention, broker, drain
  <2>3. CASE ResetDemoData
    BY <2>3 DEF ResetDemoData, broker, drain
  <2>4. ASSUME NEW w \in Workers, ListOutboxMessages(w) PROVE PInv'
    BY <2>4 DEF ListOutboxMessages, store, broker
  <2>5. ASSUME NEW w \in Workers, NEW m \in MsgId, PublishReturns(w, m) PROVE PInv'
    <3>1. deliveries' = [deliveries EXCEPT ![m] = @ + 1]
      BY <2>5 DEF PublishReturns
    <3>2. \A k \in MsgId : deliveries'[k] >= deliveries[k]
      BY <3>1
    <3>3. deliveries'[m] >= 1
      BY <3>1
    <3>4. outbox' = outbox /\ current' = [current EXCEPT ![w] = m]
            /\ pc' = [pc EXCEPT ![w] = "published"]
      BY <2>5 DEF PublishReturns, Hold, store
    <3> QED BY <3>2, <3>3, <3>4
  <2>6. ASSUME NEW w \in Workers, NEW m \in MsgId, PublishRaisesRuntimeError(w, m)
        PROVE PInv'
    BY <2>6 DEF PublishRaisesRuntimeError, PublishFails, Hold, store
  <2>7. ASSUME NEW w \in Workers, NEW m \in MsgId, PublishRaisesTimeoutError(w, m)
        PROVE PInv'
    <3>1. \A k \in MsgId : deliveries'[k] >= deliveries[k]
      BY <2>7 DEF PublishRaisesTimeoutError
    <3>2. outbox' = outbox
            /\ \A u \in Workers : pc'[u] = "published" => pc[u] = "published"
                                                          /\ current'[u] = current[u]
      BY <2>7 DEF PublishRaisesTimeoutError, Abort, Forget, store
    <3> QED BY <3>1, <3>2
  <2>8. ASSUME NEW w \in Workers, MarkOutboxPublished(w) PROVE PInv'
    <3>1. deliveries' = deliveries /\ pc[w] = "published"
            /\ \A u \in Workers : pc'[u] = "published" => pc[u] = "published"
                                                          /\ current'[u] = current[u]
      BY <2>8 DEF MarkOutboxPublished, Continue, Abort, Forget, broker
    <3>2. \A m \in MsgId : m # current[w] => outbox'[m] = outbox[m]
      BY <2>8 DEF MarkOutboxPublished
    <3> QED BY <3>1, <3>2
  <2>9. ASSUME NEW w \in Workers, ReadAttempts(w) PROVE PInv'
    BY <2>9 DEF ReadAttempts, Abort, Forget, store, broker
  <2>10. ASSUME NEW w \in Workers, MarkOutboxFailed(w) PROVE PInv'
    <3>1. deliveries' = deliveries
            /\ \A u \in Workers : pc'[u] = "published" => pc[u] = "published"
                                                          /\ current'[u] = current[u]
      BY <2>10 DEF MarkOutboxFailed, Continue, Abort, Forget, broker
    <3>2. ASSUME NEW m \in MsgId, outbox'[m] # NoRow, outbox'[m].status = "PUBLISHED"
          PROVE  outbox[m] # NoRow /\ outbox[m].status = "PUBLISHED"
      BY <2>10, <3>2 DEF MarkOutboxFailed, FailedStatus, Row
    <3> QED BY <3>1, <3>2
  <2>11. ASSUME NEW w \in Workers, Crash(w) PROVE PInv'
    BY <2>11 DEF Crash, Abort, Forget, store, broker
  <2>12. CASE UNCHANGED vars
    BY <2>12 DEF vars, store, broker, drain
  <2> QED
    BY <2>1, <2>2, <2>3, <2>4, <2>5, <2>6, <2>7, <2>8, <2>9, <2>10, <2>11, <2>12
    DEF Next, Maintain, Drain, Mark
<1>3. Spec => []TInv
  BY DrainsHoldMessages
<1>4. PInv => PublishedWasDelivered
  OBVIOUS
<1> QED BY <1>1, <1>2, <1>3, <1>4, PTL DEF Spec

-----------------------------------------------------------------------------
(* DEAD_LETTER means MaxAttempts real failures, however stale the attempts *)
(* value a drain writes.  That a count can be lost but not invented needs  *)
(* more than `attempts <= failures`: two drains may both have failed and   *)
(* both be about to add one.  The failures of a message that no drain has  *)
(* recorded yet must fit above the row's attempts, and above every value   *)
(* of attempts a drain has read.                                           *)

Unrecorded(m) ==
  {w \in Workers : pc[w] \in {"failed", "counted"} /\ current[w] = m}

NUnrecorded(m) == Cardinality(Unrecorded(m))

FInv ==
  /\ TInv
  /\ \A m \in MsgId : NUnrecorded(m) <= failures[m]
  /\ \A m \in MsgId : Exists(m) =>
       /\ outbox[m].attempts + NUnrecorded(m) <= failures[m]
       /\ outbox[m].status = "DEAD_LETTER" => outbox[m].attempts >= MaxAttempts
  /\ \A w \in Workers : pc[w] = "counted" =>
       read[w] + NUnrecorded(current[w]) <= failures[current[w]]

LEMMA UnrecordedFinite ==
  ASSUME NEW m
  PROVE  /\ IsFiniteSet(Unrecorded(m)) /\ NUnrecorded(m) \in Nat
         /\ NUnrecorded(m)' \in Nat
<1>1. Unrecorded(m) \subseteq Workers /\ Unrecorded(m)' \subseteq Workers
  BY DEF Unrecorded
<1>2. IsFiniteSet(Unrecorded(m)) /\ IsFiniteSet(Unrecorded(m)')
  BY <1>1, WorkersAssumption, FS_Subset
<1> QED BY <1>2, FS_CardinalityType DEF NUnrecorded

\* A drain that stops holding a failure of its message takes one from that
\* message's unrecorded failures and none from another's.
LEMMA OneRecorded ==
  ASSUME NEW w \in Workers, pc[w] \in {"failed", "counted"},
         pc'[w] \notin {"failed", "counted"},
         \A u \in Workers \ {w} : pc'[u] = pc[u] /\ current'[u] = current[u],
         NEW m, m = current[w]
  PROVE  /\ NUnrecorded(m)' = NUnrecorded(m) - 1
         /\ \A k : k # m => NUnrecorded(k)' = NUnrecorded(k)
<1>1. Unrecorded(m)' = Unrecorded(m) \ {w} /\ w \in Unrecorded(m)
  BY DEF Unrecorded
<1>2. NUnrecorded(m)' = NUnrecorded(m) - 1
  BY <1>1, UnrecordedFinite, FS_RemoveElement DEF NUnrecorded
<1>3. ASSUME NEW k, k # m PROVE NUnrecorded(k)' = NUnrecorded(k)
  <2>1. Unrecorded(k)' = Unrecorded(k)
    BY <1>3 DEF Unrecorded
  <2> QED BY <2>1 DEF NUnrecorded
<1> QED BY <1>2, <1>3

\* A drain that comes to hold a failure of message m adds one to that
\* message's unrecorded failures and none to another's.
LEMMA OneMoreUnrecorded ==
  ASSUME NEW w \in Workers, pc[w] \notin {"failed", "counted"},
         pc'[w] \in {"failed", "counted"}, NEW m, current'[w] = m,
         \A u \in Workers \ {w} : pc'[u] = pc[u] /\ current'[u] = current[u]
  PROVE  /\ NUnrecorded(m)' = NUnrecorded(m) + 1
         /\ \A k : k # m => NUnrecorded(k)' = NUnrecorded(k)
<1>1. Unrecorded(m)' = Unrecorded(m) \union {w} /\ w \notin Unrecorded(m)
  BY DEF Unrecorded
<1>2. NUnrecorded(m)' = NUnrecorded(m) + 1
  BY <1>1, UnrecordedFinite, FS_AddElement DEF NUnrecorded
<1>3. ASSUME NEW k, k # m PROVE NUnrecorded(k)' = NUnrecorded(k)
  <2>1. Unrecorded(k)' = Unrecorded(k)
    BY <1>3 DEF Unrecorded
  <2> QED BY <2>1 DEF NUnrecorded
<1> QED BY <1>2, <1>3

\* No other step changes what is unrecorded.
LEMMA SameUnrecorded ==
  ASSUME \A u \in Workers :
           \/ pc'[u] = pc[u] /\ current'[u] = current[u]
           \/ pc[u] \notin {"failed", "counted"} /\ pc'[u] \notin {"failed", "counted"}
           \/ /\ pc[u] \in {"failed", "counted"} /\ pc'[u] \in {"failed", "counted"}
              /\ current'[u] = current[u]
  PROVE  \A k : NUnrecorded(k)' = NUnrecorded(k)
<1> SUFFICES ASSUME NEW k PROVE NUnrecorded(k)' = NUnrecorded(k)
  OBVIOUS
<1>1. Unrecorded(k)' = Unrecorded(k)
  BY DEF Unrecorded
<1> QED BY <1>1 DEF NUnrecorded

\* A drain that gives up a failure without recording it keeps the bounds.
LEMMA LosesFailure ==
  ASSUME FInv, TInv', UNCHANGED <<outbox, failures>>,
         NEW w \in Workers, pc[w] \in {"failed", "counted"}, pc'[w] = "idle",
         \A u \in Workers \ {w} :
           pc'[u] = pc[u] /\ current'[u] = current[u] /\ read'[u] = read[u]
  PROVE  FInv'
<1> USE DEF FInv, Exists, TInv, TypeOK, Holding
<1>1. \A k : NUnrecorded(k) \in Nat /\ NUnrecorded(k)' \in Nat
  BY UnrecordedFinite
<1>2. \A k : NUnrecorded(k)' <= NUnrecorded(k)
  BY OneRecorded, <1>1
<1>3. \A k \in MsgId : Exists(k)' => outbox'[k].attempts + NUnrecorded(k)' <= failures'[k]
  BY <1>1, <1>2 DEF Row
<1>4. \A k \in MsgId : NUnrecorded(k)' <= failures'[k]
  BY <1>1, <1>2
<1>5. ASSUME NEW u \in Workers, pc'[u] = "counted"
      PROVE  (read[u] + NUnrecorded(current[u]) <= failures[current[u]])'
  <2>1. u # w /\ pc[u] = "counted" /\ current'[u] = current[u] /\ read'[u] = read[u]
    BY <1>5
  <2>2. PICK k \in MsgId : k = current[u]
    BY <2>1
  <2>3. NUnrecorded(current[u])' = NUnrecorded(k)'
    BY <2>1, <2>2
  <2> QED BY <1>1, <1>2, <2>1, <2>2, <2>3
<1> QED BY <1>3, <1>4, <1>5

\* No row is dead-lettered before publish has raised RuntimeError for it
\* MaxAttempts times, for any number of overlapping drains.
THEOREM DeadLetterIsEarned == Spec => []DeadLetterNeedsFailures
<1> USE DEF FInv, Exists
<1>1. Init /\ TInv => FInv
  <2> SUFFICES ASSUME Init PROVE \A m : NUnrecorded(m) = 0
    BY DEF Init, TInv, TypeOK
  <2> TAKE m
  <2>1. Unrecorded(m) = {}
    BY DEF Init, Unrecorded
  <2> QED BY <2>1, FS_EmptySet DEF NUnrecorded
<1>2. FInv /\ TInv' /\ [Next]_vars => FInv'
  <2> SUFFICES ASSUME FInv, TInv', [Next]_vars PROVE FInv'
    OBVIOUS
  <2> USE BoundsAssumption, NoRowAssumption DEF TInv, TypeOK, Holding
  <2>a. \A m : NUnrecorded(m) \in Nat /\ NUnrecorded(m)' \in Nat
    BY UnrecordedFinite
  <2>1. ASSUME NEW e \in Events, AddEvent(e) PROVE FInv'
    <3>1. UNCHANGED <<failures, pc, current, read>>
      BY <2>1 DEF AddEvent, broker, drain
    <3>2. \A k : NUnrecorded(k)' = NUnrecorded(k)
      BY <3>1, SameUnrecorded
    <3>3. ASSUME NEW m \in MsgId, outbox'[m] # NoRow, outbox'[m] # outbox[m]
          PROVE  outbox'[m].attempts = 0 /\ outbox'[m].status = "PENDING"
      BY <2>1, <3>3 DEF AddEvent, EnqueueOutbox
    <3> QED BY <3>1, <3>2, <3>3, <2>a
  <2>2. ASSUME NEW cutoff \in 1 .. MaxMessages + 1, NEW old \in SUBSET events,
               PruneRetention(cutoff, old)
        PROVE FInv'
    <3>1. UNCHANGED <<failures, pc, current, read>>
      BY <2>2 DEF PruneRetention, broker, drain
    <3>2. \A k : NUnrecorded(k)' = NUnrecorded(k)
      BY <3>1, SameUnrecorded
    <3> QED BY <3>1, <3>2, <2>2 DEF PruneRetention
  <2>3. CASE ResetDemoData
    <3>1. UNCHANGED <<failures, pc, current, read>>
      BY <2>3 DEF ResetDemoData, broker, drain
    <3>2. \A k : NUnrecorded(k)' = NUnrecorded(k)
      BY <3>1, SameUnrecorded
    <3> QED BY <3>1, <3>2, <2>3 DEF ResetDemoData
  <2>4. ASSUME NEW w \in Workers, ListOutboxMessages(w) PROVE FInv'
    <3>1. UNCHANGED <<outbox, failures, current, read>>
            /\ pc[w] = "idle" /\ pc' = [pc EXCEPT ![w] = "publish"]
      BY <2>4 DEF ListOutboxMessages, store, broker
    <3>2. \A k : NUnrecorded(k)' = NUnrecorded(k)
      BY <3>1, SameUnrecorded
    <3> QED BY <3>1, <3>2
  <2>5. ASSUME NEW w \in Workers, NEW m \in MsgId, PublishReturns(w, m) PROVE FInv'
    <3>1. UNCHANGED <<outbox, failures, read>>
            /\ pc[w] = "publish" /\ pc' = [pc EXCEPT ![w] = "published"]
            /\ current' = [current EXCEPT ![w] = m]
      BY <2>5 DEF PublishReturns, Take, Hold, store
    <3>2. \A k : NUnrecorded(k)' = NUnrecorded(k)
      BY <3>1, SameUnrecorded
    <3> QED BY <3>1, <3>2
  <2>6. ASSUME NEW w \in Workers, NEW m \in MsgId, PublishRaisesRuntimeError(w, m)
        PROVE FInv'
    <3>1. UNCHANGED <<outbox, read>>
            /\ pc[w] = "publish" /\ pc' = [pc EXCEPT ![w] = "failed"]
            /\ current' = [current EXCEPT ![w] = m]
            /\ failures' = [failures EXCEPT ![m] = @ + 1]
      BY <2>6 DEF PublishRaisesRuntimeError, PublishFails, Take, Hold, store
    <3>2. NUnrecorded(m)' = NUnrecorded(m) + 1
            /\ \A k : k # m => NUnrecorded(k)' = NUnrecorded(k)
      BY <3>1, OneMoreUnrecorded
    <3>3. ASSUME NEW k \in MsgId, NEW n \in Nat, n + NUnrecorded(k) <= failures[k]
          PROVE  n + NUnrecorded(k)' <= failures'[k]
      BY <3>1, <3>2, <3>3, <2>a
    <3>5. \A k \in MsgId : NUnrecorded(k)' <= failures'[k]
      BY <3>1, <3>2, <2>a
    <3>4. ASSUME NEW u \in Workers, pc'[u] = "counted"
          PROVE pc[u] = "counted" /\ current'[u] = current[u]
      BY <3>1, <3>4
    <3>6. \A k \in MsgId : Exists(k)' => outbox'[k].attempts + NUnrecorded(k)' <= failures'[k]
      BY <3>1, <3>3 DEF Row
    <3> QED BY <3>1, <3>3, <3>4, <3>5, <3>6
  <2>7. ASSUME NEW w \in Workers, NEW m \in MsgId, PublishRaisesTimeoutError(w, m)
        PROVE FInv'
    <3>1. UNCHANGED <<outbox, failures>>
            /\ pc[w] = "publish" /\ pc' = [pc EXCEPT ![w] = "idle"]
            /\ \A u \in Workers \ {w} : current'[u] = current[u] /\ read'[u] = read[u]
      BY <2>7 DEF PublishRaisesTimeoutError, Take, Abort, Forget, store
    <3>2. \A k : NUnrecorded(k)' = NUnrecorded(k)
      BY <3>1, SameUnrecorded
    <3> QED BY <3>1, <3>2
  <2>8. ASSUME NEW w \in Workers, MarkOutboxPublished(w) PROVE FInv'
    <3>1. /\ UNCHANGED failures
          /\ pc[w] = "published" /\ pc'[w] \in {"idle", "publish"}
          /\ \A u \in Workers \ {w} :
               pc'[u] = pc[u] /\ current'[u] = current[u] /\ read'[u] = read[u]
      BY <2>8 DEF MarkOutboxPublished, Continue, Abort, Forget, broker
    <3>2. \A k : NUnrecorded(k)' = NUnrecorded(k)
      BY <3>1, SameUnrecorded
    <3>3. \A m \in MsgId : outbox'[m] # NoRow =>
            /\ outbox[m] # NoRow
            /\ outbox'[m].attempts = outbox[m].attempts
            /\ outbox'[m].status \in {outbox[m].status, "PUBLISHED"}
      BY <2>8 DEF MarkOutboxPublished, Row
    <3> QED BY <3>1, <3>2, <3>3
  <2>9. ASSUME NEW w \in Workers, ReadAttempts(w) PROVE FInv'
    <3>1. UNCHANGED <<outbox, failures>>
      BY <2>9 DEF ReadAttempts, store, broker
    <3>2. CASE Exists(current[w]) /\ read' = [read EXCEPT ![w] = outbox[current[w]].attempts]
                 /\ pc' = [pc EXCEPT ![w] = "counted"] /\ current' = current
      <4>1. \A k : NUnrecorded(k)' = NUnrecorded(k)
        BY <3>2, <2>9, SameUnrecorded DEF ReadAttempts
      <4> QED BY <3>1, <3>2, <4>1, <2>9 DEF ReadAttempts
    <3>3. CASE Abort(w)
      <4>1. pc[w] \in {"failed", "counted"} /\ pc'[w] = "idle"
              /\ \A u \in Workers \ {w} :
                   pc'[u] = pc[u] /\ current'[u] = current[u] /\ read'[u] = read[u]
        BY <3>3, <2>9 DEF ReadAttempts, Abort, Forget
      <4> QED BY <3>1, <4>1, LosesFailure
    <3> QED BY <3>2, <3>3, <2>9 DEF ReadAttempts
  <2>10. ASSUME NEW w \in Workers, MarkOutboxFailed(w) PROVE FInv'
    <3>1. PICK m \in MsgId : m = current[w]
      BY <2>10 DEF MarkOutboxFailed
    <3>2. /\ UNCHANGED failures
          /\ pc[w] = "counted" /\ pc'[w] \in {"idle", "publish"}
          /\ \A u \in Workers \ {w} :
               pc'[u] = pc[u] /\ current'[u] = current[u] /\ read'[u] = read[u]
      BY <2>10 DEF MarkOutboxFailed, Continue, Abort, Forget, broker
    <3>3. /\ NUnrecorded(m)' = NUnrecorded(m) - 1
          /\ \A k : k # m => NUnrecorded(k)' = NUnrecorded(k)
      BY <3>1, <3>2, OneRecorded
    <3>4. \A k \in MsgId : outbox'[k] # NoRow =>
            IF k = m
              THEN /\ outbox'[k].attempts = read[w] + 1
                   /\ outbox'[k].status = "DEAD_LETTER" => read[w] + 1 >= MaxAttempts
              ELSE outbox'[k] = outbox[k]
      <4>1. CASE ~Exists(m)
        BY <2>10, <3>1, <4>1 DEF MarkOutboxFailed
      <4>2. CASE outbox' = [outbox EXCEPT
                   ![m].status = FailedStatus(read[w] + 1),
                   ![m].attempts = read[w] + 1]
        <5>1. outbox[m] \in Row \/ outbox[m] = NoRow
          OBVIOUS
        <5> QED BY <4>2, <5>1, <2>10, <3>1 DEF MarkOutboxFailed, FailedStatus, Row
      <4> QED BY <2>10, <3>1, <4>1, <4>2 DEF MarkOutboxFailed, Recount
    <3>5. read[w] + 1 + NUnrecorded(m)' <= failures[m]
      BY <3>1, <3>2, <3>3, <2>a
    <3>6. \A k \in MsgId : NUnrecorded(k)' <= failures'[k]
      BY <3>2, <3>3, <2>a
    <3>7. ASSUME NEW k \in MsgId, Exists(k)'
          PROVE  /\ outbox'[k].attempts + NUnrecorded(k)' <= failures'[k]
                 /\ outbox'[k].status = "DEAD_LETTER" => outbox'[k].attempts >= MaxAttempts
      <4>1. CASE k = m
        BY <3>2, <3>4, <3>5, <3>7, <4>1
      <4>2. CASE k # m
        <5>1. outbox'[k] = outbox[k] /\ outbox[k] # NoRow
          BY <3>4, <3>7, <4>2
        <5> QED BY <5>1, <3>2, <3>3, <4>2
      <4> QED BY <4>1, <4>2
    <3>8. ASSUME NEW u \in Workers, pc'[u] = "counted"
          PROVE  (read[u] + NUnrecorded(current[u]) <= failures[current[u]])'
      <4>1. u # w /\ pc[u] = "counted" /\ current'[u] = current[u] /\ read'[u] = read[u]
        BY <3>2, <3>8
      <4>2. PICK k \in MsgId : k = current[u]
        BY <4>1
      <4>3. NUnrecorded(current[u])' = NUnrecorded(k)' /\ NUnrecorded(k)' <= NUnrecorded(k)
        BY <4>1, <4>2, <3>3, <2>a
      <4> QED BY <3>2, <4>1, <4>2, <4>3, <2>a
    <3> QED BY <3>6, <3>7, <3>8
  <2>11. ASSUME NEW w \in Workers, Crash(w) PROVE FInv'
    <3>1. /\ UNCHANGED <<outbox, failures>>
          /\ pc'[w] = "idle"
          /\ \A u \in Workers \ {w} :
               pc'[u] = pc[u] /\ current'[u] = current[u] /\ read'[u] = read[u]
      BY <2>11 DEF Crash, Abort, Forget, store, broker
    <3>2. CASE pc[w] \in {"failed", "counted"}
      BY <3>1, <3>2, LosesFailure
    <3>3. CASE pc[w] \notin {"failed", "counted"}
      <4>1. \A k : NUnrecorded(k)' = NUnrecorded(k)
        BY <3>1, <3>3, SameUnrecorded
      <4> QED BY <3>1, <4>1
    <3> QED BY <3>2, <3>3
  <2>12. CASE UNCHANGED vars
    <3>1. UNCHANGED <<outbox, failures, pc, current, read>>
      BY <2>12 DEF vars, store, broker, drain
    <3>2. \A k : NUnrecorded(k)' = NUnrecorded(k)
      BY <3>1, SameUnrecorded
    <3> QED BY <3>1, <3>2
  <2> QED
    BY <2>1, <2>2, <2>3, <2>4, <2>5, <2>6, <2>7, <2>8, <2>9, <2>10, <2>11, <2>12
    DEF Next, Maintain, Drain, Mark
<1>3. Spec => []TInv
  BY DrainsHoldMessages
<1>4. FInv => DeadLetterNeedsFailures
  <2> SUFFICES ASSUME FInv, NEW m \in MsgId, Exists(m), outbox[m].status = "DEAD_LETTER"
               PROVE  failures[m] >= MaxAttempts
    BY DEF DeadLetterNeedsFailures
  <2>1. outbox[m] \in Row /\ failures[m] \in Nat
    BY DEF TInv, TypeOK
  <2> QED BY <2>1, UnrecordedFinite, BoundsAssumption DEF Row
<1> QED BY <1>1, <1>2, <1>3, <1>4, PTL DEF Spec

-----------------------------------------------------------------------------
(* A message is never named again: rows are created under fresh ids, and   *)
(* everything a drain holds or has tried was created before.               *)

NamesInv ==
  /\ TInv
  /\ \A m \in MsgId : Exists(m) \/ Tried(m) => m <= created
  /\ \A w \in Workers : current[w] <= created /\ \A m \in batch[w] : m <= created

\* A step of a drain creates no row and deletes none.
LEMMA DrainsKeepRows ==
  ASSUME TInv, NEW w \in Workers,
         \/ Drain(w) \/ Crash(w)
         \/ \E m \in MsgId : PublishRaisesTimeoutError(w, m)
  PROVE  /\ created' = created
         /\ \A m \in MsgId : Exists(m)' <=> Exists(m)
         /\ \A u \in Workers \ {w} :
              /\ pc'[u] = pc[u] /\ batch'[u] = batch[u]
              /\ current'[u] = current[u] /\ read'[u] = read[u]
<1> USE DEF TInv, TypeOK
<1>1. CASE ListOutboxMessages(w)
  BY <1>1 DEF ListOutboxMessages, store, Exists
<1>2. ASSUME NEW m \in MsgId, PublishReturns(w, m) \/ PublishRaisesRuntimeError(w, m)
      PROVE  UNCHANGED <<outbox, created>> /\
             \A u \in Workers \ {w} :
               /\ pc'[u] = pc[u] /\ batch'[u] = batch[u]
               /\ current'[u] = current[u] /\ read'[u] = read[u]
  BY <1>2 DEF PublishReturns, PublishRaisesRuntimeError, PublishFails, Hold, store
<1>3. ASSUME NEW m \in MsgId, PublishRaisesTimeoutError(w, m)
      PROVE  UNCHANGED <<outbox, created>> /\
             \A u \in Workers \ {w} :
               /\ pc'[u] = pc[u] /\ batch'[u] = batch[u]
               /\ current'[u] = current[u] /\ read'[u] = read[u]
  BY <1>3 DEF PublishRaisesTimeoutError, Abort, Forget, store
<1>4. CASE MarkOutboxPublished(w)
  <2>1. \A m \in MsgId : Exists(m)' <=> Exists(m)
    <3>1. CASE outbox' = [outbox EXCEPT ![current[w]].status = "PUBLISHED"] /\ Exists(current[w])
      <4>1. \A r \in Row : [r EXCEPT !.status = "PUBLISHED"] \in Row
        BY DEF Row, Status
      <4> QED BY <3>1, <4>1, NoRowAssumption DEF Exists
    <3> QED BY <1>4, <3>1 DEF MarkOutboxPublished, Exists
  <2>2. /\ created' = created
        /\ \A u \in Workers \ {w} :
             /\ pc'[u] = pc[u] /\ batch'[u] = batch[u]
             /\ current'[u] = current[u] /\ read'[u] = read[u]
    BY <1>4 DEF MarkOutboxPublished, Continue, Abort, Forget
  <2> QED BY <2>1, <2>2
<1>5. CASE ReadAttempts(w)
  BY <1>5 DEF ReadAttempts, Abort, Forget, store, Exists
<1>6. CASE MarkOutboxFailed(w)
  <2> DEFINE n == Recount(read[w])
  <2>1. \A m \in MsgId : Exists(m)' <=> Exists(m)
    <3>1. CASE /\ outbox' = [outbox EXCEPT ![current[w]].status = FailedStatus(n),
                                           ![current[w]].attempts = n]
               /\ Exists(current[w])
      <4>1. n \in Nat /\ FailedStatus(n) \in Status
        BY DEF Recount, FailedStatus, Status
      <4> HIDE DEF n
      <4>2. \A r \in Row : [r EXCEPT !.status = FailedStatus(n), !.attempts = n] \in Row
        BY <4>1 DEF Row
      <4>3. \A m \in MsgId : outbox'[m] = IF m = current[w]
              THEN [outbox[m] EXCEPT !.status = FailedStatus(n), !.attempts = n]
              ELSE outbox[m]
        BY <3>1
      <4>4. ASSUME NEW m \in MsgId, m = current[w] PROVE outbox[m] \in Row /\ outbox'[m] \in Row
        <5>1. outbox[m] \in Row
          BY <3>1, <4>4 DEF Exists
        <5> QED BY <4>2, <4>3, <4>4, <5>1
      <4>5. ASSUME NEW m \in MsgId, m # current[w] PROVE outbox'[m] = outbox[m]
        BY <4>3, <4>5
      <4> QED BY <4>4, <4>5, NoRowAssumption DEF Exists
    <3> QED BY <1>6, <3>1 DEF MarkOutboxFailed, Exists
  <2>2. /\ created' = created
        /\ \A u \in Workers \ {w} :
             /\ pc'[u] = pc[u] /\ batch'[u] = batch[u]
             /\ current'[u] = current[u] /\ read'[u] = read[u]
    BY <1>6 DEF MarkOutboxFailed, Continue, Abort, Forget
  <2> QED BY <2>1, <2>2
<1>7. CASE Crash(w)
  BY <1>7 DEF Crash, Abort, Forget, store, Exists
<1> QED BY <1>1, <1>2, <1>3, <1>4, <1>5, <1>6, <1>7 DEF Drain, Mark, Exists

\* A drain tries only messages of its list.
LEMMA NamesKept ==
  ASSUME NamesInv, TInv', [Next]_vars
  PROVE  NamesInv'
<1> USE BoundsAssumption DEF NamesInv, TInv, TypeOK, Tried
<1>1. ASSUME NEW e \in Events, AddEvent(e) PROVE NamesInv'
  <2>1. UNCHANGED <<deliveries, failures, timeouts, batch, current>>
    BY <1>1 DEF AddEvent, broker, drain
  <2>2. created' \in {created, created + 1}
        /\ \A m \in MsgId : Exists(m)' => Exists(m) \/ m = created'
    BY <1>1 DEF AddEvent, EnqueueOutbox, Exists
  <2>3. \A k \in Nat : k <= created => k <= created'
    BY <2>2
  <2>4. MsgId \subseteq Nat
    BY DEF MsgId
  <2>5. \A w \in Workers : current'[w] <= created' /\ \A m \in batch'[w] : m <= created'
    BY <2>1, <2>3, <2>4
  <2>6. \A m \in MsgId : Tried(m)' => m <= created'
    BY <2>1, <2>3, <2>4
  <2>7. \A m \in MsgId : Exists(m)' => m <= created'
    BY <2>2, <2>3, <2>4
  <2> QED BY <2>5, <2>6, <2>7
<1>2. ASSUME NEW cutoff \in 1 .. MaxMessages + 1, NEW old \in SUBSET events,
             PruneRetention(cutoff, old)
      PROVE NamesInv'
  BY <1>2 DEF PruneRetention, Exists, broker, drain
<1>3. CASE ResetDemoData
  BY <1>3 DEF ResetDemoData, Exists, broker, drain
<1>4. ASSUME NEW w \in Workers,
             \/ Drain(w) \/ Crash(w)
             \/ \E m \in MsgId : PublishRaisesTimeoutError(w, m)
      PROVE  NamesInv'
  <2>1. /\ created' = created
        /\ \A m \in MsgId : Exists(m)' <=> Exists(m)
        /\ \A u \in Workers \ {w} : batch'[u] = batch[u] /\ current'[u] = current[u]
    BY <1>4, DrainsKeepRows
  <2>2. /\ current'[w] <= created
        /\ \A m \in batch'[w] : m <= created
        /\ \A m \in MsgId : Tried(m)' => Tried(m) \/ m \in batch[w]
    <3>1. CASE ListOutboxMessages(w)
      BY <3>1 DEF ListOutboxMessages, Drainable, broker
    <3>2. ASSUME NEW m \in MsgId, PublishReturns(w, m) PROVE <2>2!:
      BY <3>2 DEF PublishReturns, Take, Hold
    <3>3. ASSUME NEW m \in MsgId, PublishRaisesRuntimeError(w, m) PROVE <2>2!:
      BY <3>3 DEF PublishRaisesRuntimeError, PublishFails, Take, Hold
    <3>4. ASSUME NEW m \in MsgId, PublishRaisesTimeoutError(w, m) PROVE <2>2!:
      BY <3>4 DEF PublishRaisesTimeoutError, Take, Abort, Forget
    <3>5. CASE MarkOutboxPublished(w)
      BY <3>5 DEF MarkOutboxPublished, Continue, Abort, Forget, broker
    <3>6. CASE ReadAttempts(w)
      BY <3>6 DEF ReadAttempts, Abort, Forget, broker
    <3>7. CASE MarkOutboxFailed(w)
      BY <3>7 DEF MarkOutboxFailed, Continue, Abort, Forget, broker
    <3>8. CASE Crash(w)
      BY <3>8 DEF Crash, Abort, Forget, broker
    <3> QED BY <1>4, <3>1, <3>2, <3>3, <3>4, <3>5, <3>6, <3>7, <3>8 DEF Drain, Mark
  <2> QED BY <2>1, <2>2
<1>5. CASE UNCHANGED vars
  BY <1>5 DEF vars, store, broker, drain, Exists
<1> QED BY <1>1, <1>2, <1>3, <1>4, <1>5 DEF Next, Maintain

LEMMA NamesAreFresh == Spec => []NamesInv
<1>1. Init /\ TInv => NamesInv
  BY DEF Init, NamesInv, Exists, Tried
<1>2. NamesInv /\ TInv' /\ [Next]_vars => NamesInv'
  BY NamesKept
<1> QED BY <1>1, <1>2, DrainsHoldMessages, PTL DEF Spec

-----------------------------------------------------------------------------
(* The audit trail has an outbox.failed entry for every attempts value a   *)
(* row shows, and for every value a drain has read of a row that is still  *)
(* there: a reset that empties the trail deletes the row too.              *)

Audited(m, attempts) == \A k \in 1 .. attempts : Entry("outbox.failed", m, k) \in audit

AInv ==
  /\ NamesInv
  /\ AttemptsAreAudited
  /\ \A w \in Workers :
       pc[w] = "counted" /\ Exists(current[w]) => Audited(current[w], read[w])

\* A step that writes no attempts value and reads none.
LEMMA NothingCounted ==
  ASSUME AInv, NamesInv', audit \subseteq audit',
         \A m \in MsgId : Exists(m)' => Exists(m) /\ outbox'[m].attempts = outbox[m].attempts,
         \A w \in Workers : pc'[w] = "counted" =>
           pc[w] = "counted" /\ current'[w] = current[w] /\ read'[w] = read[w]
  PROVE  AInv'
<1> USE DEF AInv, NamesInv, TInv, TypeOK, Holding
<1>1. ASSUME NEW m \in MsgId, NEW n, Audited(m, n) PROVE Audited(m, n)'
  BY <1>1 DEF Audited
<1>2. ASSUME NEW m \in MsgId, Exists(m)' PROVE Audited(m, outbox[m].attempts)'
  <2>1. Exists(m) /\ outbox'[m].attempts = outbox[m].attempts
    BY <1>2
  <2>2. Audited(m, outbox[m].attempts)
    BY <2>1 DEF AttemptsAreAudited, Audited
  <2> QED BY <2>1, <2>2 DEF Audited
<1>3. ASSUME NEW w \in Workers, pc'[w] = "counted", Exists(current[w])'
      PROVE  Audited(current[w], read[w])'
  <2>1. pc[w] = "counted" /\ current'[w] = current[w] /\ read'[w] = read[w]
    BY <1>3
  <2>2. current[w] \in MsgId
    BY <2>1
  <2>3. Exists(current[w])
    BY <1>3, <2>1, <2>2 DEF Exists
  <2> QED BY <2>1, <2>3 DEF Audited
<1> QED BY <1>2, <1>3 DEF AttemptsAreAudited, Audited

\* Whatever overlapping drains, crashes, time-outs, deletions and resets do in
\* between: each attempts value up to the one a row shows has its outbox.failed
\* entry in the audit trail.
THEOREM AttemptsHaveEntries == Spec => []AttemptsAreAudited
<1> USE DEF NamesInv, TInv, TypeOK, Holding
<1>1. Init /\ NamesInv => AInv
  BY DEF Init, AInv, AttemptsAreAudited, Exists
<1>2. AInv /\ NamesInv' /\ [Next]_vars => AInv'
  <2> SUFFICES ASSUME AInv, NamesInv', [Next]_vars PROVE AInv'
    OBVIOUS
  <2>0. NamesInv
    BY DEF AInv
  <2>1. ASSUME NEW e \in Events, AddEvent(e) PROVE AInv'
    <3>1. audit \subseteq audit' /\ UNCHANGED <<pc, current, read>>
      BY <2>1 DEF AddEvent, drain
    <3>2. CASE UNCHANGED outbox
      BY <2>0, <3>1, <3>2, NothingCounted DEF Exists
    <3>3. CASE /\ created < MaxMessages
               /\ outbox' = [outbox EXCEPT ![created + 1] =
                               [event |-> e, status |-> "PENDING", attempts |-> 0]]
      <4>1. \A m \in MsgId : m # created + 1 => outbox'[m] = outbox[m]
        BY <3>3
      <4>2. created + 1 \in MsgId /\ outbox'[created + 1].attempts = 0
        BY <2>0, <3>3, BoundsAssumption DEF MsgId
      <4>3. AttemptsAreAudited'
        <5> SUFFICES ASSUME NEW m \in MsgId, Exists(m)', NEW k \in 1 .. outbox'[m].attempts
                     PROVE  Entry("outbox.failed", m, k) \in audit'
          BY DEF AttemptsAreAudited, Entry
        <5>1. m # created + 1
          BY <4>2
        <5>2. Exists(m) /\ k \in 1 .. outbox[m].attempts
          BY <4>1, <5>1 DEF Exists
        <5> QED BY <3>1, <5>2 DEF AInv, AttemptsAreAudited
      <4>4. ASSUME NEW w \in Workers, pc[w] = "counted", Exists(current[w])'
            PROVE  Audited(current[w], read[w])'
        <5>1. current[w] \in MsgId /\ current[w] # created + 1
          BY <2>0, <4>4 DEF MsgId
        <5>2. Exists(current[w])
          BY <3>1, <4>1, <4>4, <5>1 DEF Exists
        <5> QED BY <3>1, <4>4, <5>2 DEF AInv, Audited
      <4> QED BY <3>1, <4>3, <4>4 DEF AInv
    <3> QED BY <2>1, <3>2, <3>3 DEF AddEvent, EnqueueOutbox
  <2>2. ASSUME NEW cutoff \in 1 .. MaxMessages + 1, NEW old \in SUBSET events,
               PruneRetention(cutoff, old)
        PROVE AInv'
    <3>1. \A m \in MsgId : outbox'[m] \in {NoRow, outbox[m]}
      BY <2>2 DEF PruneRetention
    <3> QED BY <2>0, <2>2, <3>1, NothingCounted DEF PruneRetention, Exists, drain
  <2>3. CASE ResetDemoData
    <3>1. \A m \in MsgId : ~Exists(m)'
      BY <2>3 DEF ResetDemoData, Exists
    <3>2. \A w \in Workers : pc'[w] = "counted" => current'[w] \in MsgId
      OBVIOUS
    <3> QED BY <2>0, <3>1, <3>2 DEF AInv, AttemptsAreAudited, Exists
  <2>4. ASSUME NEW w \in Workers, ListOutboxMessages(w) PROVE AInv'
    BY <2>0, <2>4, NothingCounted DEF ListOutboxMessages, store, Exists
  <2>5. ASSUME NEW w \in Workers, NEW m \in MsgId, PublishReturns(w, m) PROVE AInv'
    BY <2>0, <2>5, NothingCounted DEF PublishReturns, Take, Hold, store, Exists
  <2>6. ASSUME NEW w \in Workers, NEW m \in MsgId, PublishRaisesRuntimeError(w, m)
        PROVE AInv'
    BY <2>0, <2>6, NothingCounted DEF PublishRaisesRuntimeError, PublishFails, Take, Hold, store, Exists
  <2>7. ASSUME NEW w \in Workers, NEW m \in MsgId, PublishRaisesTimeoutError(w, m)
        PROVE AInv'
    BY <2>0, <2>7, NothingCounted DEF PublishRaisesTimeoutError, Abort, Forget, store, Exists
  <2>8. ASSUME NEW w \in Workers, MarkOutboxPublished(w) PROVE AInv'
    <3>1. \A m \in MsgId : Exists(m)' => Exists(m) /\ outbox'[m].attempts = outbox[m].attempts
      BY <2>0, <2>8 DEF MarkOutboxPublished, Exists, Row
    <3>2. audit \subseteq audit' /\ pc[w] = "published"
      BY <2>8 DEF MarkOutboxPublished
    <3>3. \A u \in Workers : pc'[u] = "counted" =>
            pc[u] = "counted" /\ current'[u] = current[u] /\ read'[u] = read[u]
      BY <2>0, <2>8 DEF MarkOutboxPublished, Continue, Abort, Forget
    <3> QED BY <3>1, <3>2, <3>3, NothingCounted
  <2>9. ASSUME NEW w \in Workers, ReadAttempts(w) PROVE AInv'
    <3>1. UNCHANGED <<outbox, audit>>
      BY <2>9 DEF ReadAttempts, store
    <3>2. AttemptsAreAudited'
      BY <3>1 DEF AInv, AttemptsAreAudited, Exists
    <3>3. ASSUME NEW u \in Workers \ {w}
          PROVE  pc'[u] = pc[u] /\ current'[u] = current[u] /\ read'[u] = read[u]
      BY <2>0, <2>9, <3>3, DrainsKeepRows DEF Drain, Mark
    <3>4. CASE pc'[w] = "counted"
      <4>1. current'[w] = current[w] /\ Exists(current[w]) /\ read'[w] = outbox[current[w]].attempts
        BY <2>0, <2>9, <3>4 DEF ReadAttempts, Abort
      <4>2. current[w] \in MsgId
        BY <2>0, <2>9 DEF ReadAttempts
      <4>3. Audited(current[w], outbox[current[w]].attempts)
        BY <4>1, <4>2 DEF AInv, AttemptsAreAudited, Audited
      <4> QED BY <3>1, <3>2, <3>3, <4>1, <4>3 DEF AInv, Audited, Exists
    <3>5. CASE pc'[w] # "counted"
      BY <3>1, <3>2, <3>3, <3>5 DEF AInv, Audited, Exists
    <3> QED BY <3>4, <3>5
  <2>10. ASSUME NEW w \in Workers, MarkOutboxFailed(w) PROVE AInv'
    <3> DEFINE n == Recount(read[w])
    <3>1. /\ pc[w] = "counted" /\ pc'[w] # "counted" /\ n = read[w] + 1 /\ read[w] \in Nat
          /\ audit' = audit \union {Entry("outbox.failed", current[w], n)}
          /\ current[w] \in MsgId
      BY <2>0, <2>10 DEF MarkOutboxFailed, Continue, Abort, Recount
    <3>2. \A m \in MsgId : Exists(m)' <=> Exists(m)
      BY <2>0, <2>10, DrainsKeepRows DEF Drain, Mark
    <3>3. \A m \in MsgId : m # current[w] => outbox'[m] = outbox[m]
      BY <2>10 DEF MarkOutboxFailed
    <3>4. Exists(current[w]) => outbox'[current[w]].attempts = n
      <4>1. CASE outbox' = [outbox EXCEPT ![current[w]].status = FailedStatus(n),
                                          ![current[w]].attempts = n]
        <5>1. Exists(current[w]) => outbox[current[w]] \in Row
          BY <2>0, <3>1 DEF Exists
        <5>2. \A r \in Row : [r EXCEPT !.status = FailedStatus(n), !.attempts = n].attempts = n
          BY DEF Row
        <5>3. outbox'[current[w]]
                = [outbox[current[w]] EXCEPT !.status = FailedStatus(n), !.attempts = n]
          BY <2>0, <3>1, <4>1
        <5> HIDE DEF n
        <5> QED BY <5>1, <5>2, <5>3
      <4> QED BY <2>10, <4>1 DEF MarkOutboxFailed
    <3> HIDE DEF n
    <3>5. ASSUME Exists(current[w]), NEW k \in 1 .. n
          PROVE  Entry("outbox.failed", current[w], k) \in audit'
      <4>1. k \in 1 .. read[w] \/ k = n
        BY <3>1
      <4>2. k \in 1 .. read[w] => Entry("outbox.failed", current[w], k) \in audit
        BY <3>1, <3>5 DEF AInv, Audited
      <4> QED BY <3>1, <4>1, <4>2
    <3>6. AttemptsAreAudited'
      <4> SUFFICES ASSUME NEW m \in MsgId, Exists(m)', NEW k \in 1 .. outbox'[m].attempts
                   PROVE  Entry("outbox.failed", m, k) \in audit'
        BY DEF AttemptsAreAudited, Entry
      <4>1. CASE m = current[w]
        BY <3>2, <3>4, <3>5, <4>1
      <4>2. CASE m # current[w]
        BY <3>1, <3>2, <3>3, <4>2 DEF AInv, AttemptsAreAudited
      <4> QED BY <4>1, <4>2
    <3>7. ASSUME NEW u \in Workers, pc'[u] = "counted", Exists(current[u])'
          PROVE  Audited(current[u], read[u])'
      <4>1. u # w /\ pc[u] = "counted" /\ current'[u] = current[u] /\ read'[u] = read[u]
        BY <2>0, <2>10, <3>1, <3>7, DrainsKeepRows DEF Drain, Mark
      <4>2. current[u] \in MsgId
        BY <2>0, <4>1
      <4>3. Exists(current[u])
        BY <3>2, <3>7, <4>1, <4>2 DEF Exists
      <4> QED BY <3>1, <4>1, <4>3 DEF AInv, Audited
    <3> QED BY <3>6, <3>7 DEF AInv
  <2>11. ASSUME NEW w \in Workers, Crash(w) PROVE AInv'
    BY <2>0, <2>11, NothingCounted DEF Crash, Abort, Forget, store, Exists
  <2>12. CASE UNCHANGED vars
    BY <2>0, <2>12, NothingCounted DEF vars, store, drain, Exists
  <2> QED
    BY <2>1, <2>2, <2>3, <2>4, <2>5, <2>6, <2>7, <2>8, <2>9, <2>10, <2>11, <2>12
    DEF Next, Maintain, Drain, Mark
<1>3. AInv => AttemptsAreAudited
  BY DEF AInv
<1> QED BY <1>1, <1>2, <1>3, NamesAreFresh, PTL DEF Spec

-----------------------------------------------------------------------------
(* Oldest first: what is before a message of a drain's list, and not in    *)
(* the list, was tried before.                                             *)

OInv ==
  /\ NamesInv
  /\ OldestFirst
  /\ \A w \in Workers : \A m \in batch[w], k \in MsgId \ batch[w] :
       k < m /\ Exists(k) => Tried(k)

\* A step that lists and delivers nothing.
LEMMA NothingListed ==
  ASSUME OInv, NamesInv', deliveries' = deliveries,
         \A m \in MsgId : Tried(m) => Tried(m)',
         \A m \in MsgId : Exists(m)' => Exists(m) \/ m > created,
         \A w \in Workers : batch'[w] \in {batch[w], {}}
  PROVE  OInv'
<1> USE DEF OInv, NamesInv, TInv, TypeOK
<1>1. MsgId \subseteq Nat
  BY DEF MsgId
<1>2. ASSUME NEW m \in MsgId, NEW k \in MsgId, m <= created, k < m, Exists(k)'
      PROVE  Exists(k)
  BY <1>1, <1>2
<1>3. OldestFirst'
  <2> SUFFICES ASSUME NEW m \in MsgId, NEW k \in MsgId, deliveries'[m] > 0, k < m, Exists(k)'
               PROVE  Tried(k)'
    BY DEF OldestFirst
  <2>1. m <= created /\ deliveries[m] > 0
    BY DEF Tried
  <2>2. Tried(k)
    BY <1>2, <2>1 DEF OldestFirst
  <2> QED BY <2>2
<1>4. ASSUME NEW w \in Workers, NEW m \in batch'[w], NEW k \in MsgId \ batch'[w],
             k < m, Exists(k)'
      PROVE  Tried(k)'
  <2>1. batch'[w] = batch[w] /\ m \in batch[w] /\ m \in MsgId /\ m <= created
    BY <1>4
  <2>2. Exists(k)
    BY <1>2, <1>4, <2>1
  <2>3. Tried(k)
    BY <1>4, <2>1, <2>2
  <2> QED BY <2>3
<1> QED BY <1>3, <1>4

\* Trying the first message of a list.
LEMMA TriesFirst ==
  ASSUME OInv, NamesInv', NEW w \in Workers, NEW m \in MsgId, Take(w, m), Tried(m)',
         \A k \in MsgId : Tried(k) => Tried(k)',
         \A k \in MsgId : deliveries'[k] > 0 => deliveries[k] > 0 \/ k = m,
         outbox' = outbox, batch'[w] \in {batch[w] \ {m}, {}},
         \A u \in Workers \ {w} : batch'[u] = batch[u]
  PROVE  OInv'
<1> USE DEF OInv, NamesInv, TInv, TypeOK
<1>1. MsgId \subseteq Nat /\ \A k \in MsgId : Exists(k)' <=> Exists(k)
  BY DEF MsgId, Exists
<1>2. ASSUME NEW k \in MsgId, k < m, Exists(k) PROVE Tried(k)
  <2>1. m \in batch[w] /\ k \notin batch[w]
    BY <1>1, <1>2 DEF Take
  <2> QED BY <1>2, <2>1
<1>3. OldestFirst'
  <2> SUFFICES ASSUME NEW n \in MsgId, NEW k \in MsgId, deliveries'[n] > 0, k < n, Exists(k)'
               PROVE  Tried(k)'
    BY DEF OldestFirst
  <2>1. CASE n = m
    BY <1>1, <1>2, <2>1
  <2>2. CASE deliveries[n] > 0
    BY <1>1, <2>2 DEF OldestFirst
  <2> QED BY <2>1, <2>2
<1>4. ASSUME NEW u \in Workers, NEW n \in batch'[u], NEW k \in MsgId \ batch'[u],
             k < n, Exists(k)'
      PROVE  Tried(k)'
  <2>1. n \in batch[u]
    BY <1>4
  <2>2. CASE k \notin batch[u]
    BY <1>1, <1>4, <2>1, <2>2
  <2>3. CASE k \in batch[u]
    <3>1. u = w /\ k = m
      BY <1>4, <2>3
    <3> QED BY <3>1
  <2> QED BY <2>2, <2>3
<1> QED BY <1>3, <1>4

\* When every drain really publishes, however many of them overlap, stop or
\* time out: a message reaches the topic only after publish was tried for every
\* older row that is still there.
THEOREM OldestGoesFirst ==
  ASSUME DryRun = {}
  PROVE  Spec => []OldestFirst
<1> USE DEF NamesInv, TInv, TypeOK, Holding
<1>1. Init /\ NamesInv => OInv
  BY DEF Init, OInv, OldestFirst, Exists
<1>2. ASSUME OInv, NamesInv', PublishedWasDelivered, DeadLetterNeedsFailures, [Next]_vars
      PROVE  OInv'
  <2> USE <1>2
  <2>0. NamesInv /\ MsgId \subseteq Nat
    <3>1. NamesInv
      BY DEF OInv
    <3> QED BY <3>1, MessageIds
  <2>1. ASSUME NEW e \in Events, AddEvent(e) PROVE OInv'
    <3>1. UNCHANGED <<deliveries, failures, timeouts, batch>>
      BY <2>1 DEF AddEvent, broker, drain
    <3>2. \A m \in MsgId : Exists(m)' => Exists(m) \/ m > created
      <4>1. \A m \in MsgId : Exists(m)' => Exists(m) \/ m = created + 1
        BY <2>1 DEF AddEvent, EnqueueOutbox, Exists
      <4> QED BY <2>0, <4>1
    <3> QED BY <3>1, <3>2, NothingListed DEF Tried
  <2>2. ASSUME NEW cutoff \in 1 .. MaxMessages + 1, NEW old \in SUBSET events,
               PruneRetention(cutoff, old)
        PROVE OInv'
    BY <2>2, NothingListed DEF PruneRetention, Exists, broker, drain, Tried
  <2>3. CASE ResetDemoData
    BY <2>3, NothingListed DEF ResetDemoData, Exists, broker, drain, Tried
  <2>4. ASSUME NEW w \in Workers, ListOutboxMessages(w) PROVE OInv'
    <3> DEFINE Older(m) == {k \in Drainable : k < m}
               listed == {m \in Drainable : Cardinality(Older(m)) < BatchSize}
    <3>1. /\ UNCHANGED <<outbox, deliveries, failures, timeouts>>
          /\ batch' = [batch EXCEPT ![w] = listed]
      BY <2>4 DEF ListOutboxMessages, store, broker
    <3>2. ASSUME NEW m \in listed, NEW k \in Drainable, k < m PROVE k \in listed
      <4>1. Older(k) \subseteq Older(m)
        <5>1. m \in Nat /\ k \in Nat /\ \A j \in Drainable : j \in Nat
          BY <2>0 DEF Drainable
        <5>2. \A j \in Drainable : j < k => j < m
          BY <3>2, <5>1
        <5> QED BY <5>2
      <4>2. IsFiniteSet(MsgId)
        BY BoundsAssumption, FS_Interval DEF MsgId
      <4>3. IsFiniteSet(Older(m)) /\ IsFiniteSet(Older(k))
        BY <4>2, FS_Subset DEF Drainable
      <4>4. Cardinality(Older(k)) <= Cardinality(Older(m))
            /\ Cardinality(Older(k)) \in Nat /\ Cardinality(Older(m)) \in Nat
        BY <4>1, <4>3, FS_Subset, FS_CardinalityType
      <4>5. Cardinality(Older(m)) < BatchSize
        OBVIOUS
      <4> HIDE DEF Older
      <4> QED BY <4>4, <4>5, BoundsAssumption
    <3> HIDE DEF listed
    <3>3. ASSUME NEW k \in MsgId, Exists(k), k \notin Drainable PROVE Tried(k)
      <4>1. outbox[k].status \in {"PUBLISHED", "DEAD_LETTER"}
        BY <2>0, <3>3 DEF Drainable, Exists, Row, Status
      <4> QED BY <2>0, <3>3, <4>1, BoundsAssumption
            DEF PublishedWasDelivered, DeadLetterNeedsFailures, Tried
    <3>4. ASSUME NEW u \in Workers, NEW m \in batch'[u], NEW k \in MsgId \ batch'[u],
                 k < m, Exists(k)
          PROVE  Tried(k)
      <4>1. CASE u = w
        <5>1. batch'[u] = listed
          BY <2>0, <3>1, <4>1
        <5> QED BY <3>2, <3>3, <3>4, <5>1
      <4>2. CASE u # w
        <5>1. batch'[u] = batch[u]
          BY <2>0, <3>1, <4>2
        <5> QED BY <3>4, <5>1 DEF OInv
      <4> QED BY <4>1, <4>2
    <3> QED BY <3>1, <3>4 DEF OInv, OldestFirst, Tried, Exists
  <2>5. ASSUME NEW w \in Workers, NEW m \in MsgId, PublishReturns(w, m) PROVE OInv'
    <3>1. /\ deliveries' = [deliveries EXCEPT ![m] = @ + 1]
          /\ UNCHANGED <<outbox, failures, timeouts>>
          /\ batch' = [batch EXCEPT ![w] = @ \ {m}] /\ Take(w, m)
      BY <2>5 DEF PublishReturns, Hold, store
    <3> QED BY <2>0, <3>1, TriesFirst DEF Tried
  <2>6. ASSUME NEW w \in Workers, NEW m \in MsgId, PublishRaisesRuntimeError(w, m)
        PROVE OInv'
    <3>1. /\ failures' = [failures EXCEPT ![m] = @ + 1]
          /\ UNCHANGED <<outbox, deliveries, timeouts>>
          /\ batch' = [batch EXCEPT ![w] = @ \ {m}] /\ Take(w, m)
      BY <2>6 DEF PublishRaisesRuntimeError, PublishFails, Hold, store
    <3> QED BY <2>0, <3>1, TriesFirst DEF Tried
  <2>7. ASSUME NEW w \in Workers, NEW m \in MsgId, PublishRaisesTimeoutError(w, m)
        PROVE OInv'
    <3>1. /\ timeouts' = [timeouts EXCEPT ![m] = @ + 1]
          /\ deliveries' \in {deliveries, [deliveries EXCEPT ![m] = @ + 1]}
          /\ UNCHANGED <<outbox, failures>>
          /\ batch' = [batch EXCEPT ![w] = {}] /\ Take(w, m)
      BY <2>7 DEF PublishRaisesTimeoutError, Abort, store
    <3>2. Tried(m)' /\ \A k \in MsgId : Tried(k) => Tried(k)'
      <4>1. \A k \in MsgId : timeouts'[k] >= timeouts[k] /\ deliveries'[k] >= deliveries[k]
        BY <2>0, <3>1
      <4>2. timeouts'[m] > 0
        BY <2>0, <3>1
      <4> QED BY <2>0, <3>1, <4>1, <4>2 DEF Tried
    <3>3. \A k \in MsgId : deliveries'[k] > 0 => deliveries[k] > 0 \/ k = m
      BY <2>0, <3>1
    <3>4. batch'[w] = {} /\ \A u \in Workers \ {w} : batch'[u] = batch[u]
      BY <2>0, <3>1
    <3> QED BY <3>1, <3>2, <3>3, <3>4, TriesFirst
  <2>8. ASSUME NEW w \in Workers, Mark(w) \/ Crash(w) PROVE OInv'
    <3>1. UNCHANGED <<deliveries, failures, timeouts>>
      BY <2>8 DEF Mark, MarkOutboxPublished, ReadAttempts, MarkOutboxFailed, Crash, broker
    <3>2. \A u \in Workers : batch'[u] \in {batch[u], {}}
      BY <2>0, <2>8 DEF Mark, MarkOutboxPublished, ReadAttempts, MarkOutboxFailed, Crash,
        Continue, Abort
    <3>3. \A m \in MsgId : Exists(m)' <=> Exists(m)
      BY <2>0, <2>8, DrainsKeepRows DEF Drain
    <3> QED BY <3>1, <3>2, <3>3, NothingListed DEF Tried
  <2>9. CASE UNCHANGED vars
    BY <2>9, NothingListed DEF vars, store, broker, drain, Tried, Exists
  <2> QED BY <2>1, <2>2, <2>3, <2>4, <2>5, <2>6, <2>7, <2>8, <2>9 DEF Next, Maintain, Drain
<1>3. OInv => OldestFirst
  BY DEF OInv
<1>4. Spec => []PublishedWasDelivered
  BY PublishedIsDelivered
<1> QED BY <1>1, <1>2, <1>3, <1>4, NamesAreFresh, DeadLetterIsEarned, PTL DEF Spec

-----------------------------------------------------------------------------
(* One drain at a time.                                                    *)

OneDrain == \A u, v \in Workers : u = v

Open(m) == Exists(m) => outbox[m].status \in {"PENDING", "FAILED"}

\* What a single drain has listed or holds is still to be published, and the
\* attempts it has read are those of the row.
SInv ==
  /\ NamesInv
  /\ \A w \in Workers : \A m \in batch[w] : Open(m) /\ m # current[w]
  /\ \A w \in Workers : IF Holding(w) THEN Open(current[w]) ELSE current[w] = 0
  /\ \A w \in Workers :
       pc[w] = "counted" /\ Exists(current[w]) => read[w] = outbox[current[w]].attempts

\* The store's own steps leave no listed row settled.
LEMMA StoreKeepsOpen ==
  ASSUME SInv, NamesInv', UNCHANGED drain,
         \A m \in MsgId : m <= created => outbox'[m] \in {outbox[m], NoRow}
  PROVE  SInv'
<1> USE DEF SInv, NamesInv, TInv, TypeOK
<1>1. UNCHANGED <<pc, batch, current, read>>
  BY DEF drain
<1>2. ASSUME NEW m \in MsgId, m <= created, Open(m) PROVE Open(m)'
  BY <1>2 DEF Open, Exists
<1>3. ASSUME NEW w \in Workers, NEW m \in batch'[w] PROVE Open(m)' /\ m # current'[w]
  BY <1>1, <1>2, <1>3
<1>4. ASSUME NEW w \in Workers
      PROVE  (IF Holding(w) THEN Open(current[w]) ELSE current[w] = 0)'
  <2>1. CASE Holding(w)
    <3>1. current[w] \in MsgId /\ current[w] <= created /\ Open(current[w])
      BY <2>1
    <3>2. PICK m \in MsgId : m = current[w]
      BY <3>1
    <3>3. Open(m)'
      BY <1>2, <3>1, <3>2
    <3> QED BY <1>1, <2>1, <3>2, <3>3 DEF Holding, Open, Exists
  <2>2. CASE ~Holding(w)
    BY <1>1, <2>2 DEF Holding
  <2> QED BY <2>1, <2>2
<1>5. ASSUME NEW w \in Workers, pc'[w] = "counted", Exists(current[w])'
      PROVE  read'[w] = outbox'[current'[w]].attempts
  <2>1. Holding(w) /\ pc[w] = "counted"
    BY <1>1, <1>5 DEF Holding
  <2>2. current[w] \in MsgId /\ current[w] <= created
    BY <2>1
  <2> QED BY <1>1, <1>5, <2>1, <2>2 DEF Exists
<1> QED BY <1>3, <1>4, <1>5

\* Only the drain writes the rows it has listed.
LEMMA OpenKept ==
  ASSUME OneDrain, SInv, NamesInv', [Next]_vars
  PROVE  SInv'
<1> USE DEF SInv, NamesInv, TInv, TypeOK
<1>0. MsgId \subseteq Nat \ {0}
  BY DEF MsgId
<1>1. ASSUME NEW e \in Events, AddEvent(e) PROVE SInv'
  <2>1. outbox' = outbox \/ \A m \in MsgId : m # created + 1 => outbox'[m] = outbox[m]
    BY <1>1 DEF AddEvent, EnqueueOutbox
  <2>2. \A m \in MsgId : m <= created => outbox'[m] \in {outbox[m], NoRow}
    BY <1>0, <2>1
  <2> QED BY <1>1, <2>2, StoreKeepsOpen DEF AddEvent
<1>2. ASSUME NEW cutoff \in 1 .. MaxMessages + 1, NEW old \in SUBSET events,
             PruneRetention(cutoff, old)
      PROVE SInv'
  <2>1. \A m \in MsgId : m <= created => outbox'[m] \in {outbox[m], NoRow}
    BY <1>2 DEF PruneRetention
  <2> QED BY <1>2, <2>1, StoreKeepsOpen DEF PruneRetention
<1>3. CASE ResetDemoData
  <2>1. \A m \in MsgId : m <= created => outbox'[m] \in {outbox[m], NoRow}
    BY <1>3 DEF ResetDemoData
  <2> QED BY <1>3, <2>1, StoreKeepsOpen DEF ResetDemoData
<1>4. ASSUME NEW w \in Workers,
             \/ Drain(w) \/ Crash(w)
             \/ \E m \in MsgId : PublishRaisesTimeoutError(w, m)
      PROVE  SInv'
  <2>0. \A u \in Workers : u = w
    BY DEF OneDrain
  <2> SUFFICES /\ \A m \in batch'[w] : Open(m)' /\ m # current'[w]
               /\ (IF Holding(w) THEN Open(current[w]) ELSE current[w] = 0)'
               /\ pc'[w] = "counted" /\ Exists(current[w])' =>
                    read'[w] = outbox'[current'[w]].attempts
    BY <2>0
  <2>1. CASE ListOutboxMessages(w)
    <3>1. UNCHANGED <<outbox, current>> /\ pc[w] = "idle" /\ pc'[w] = "publish"
          /\ batch'[w] \subseteq Drainable
      BY <2>1 DEF ListOutboxMessages, store
    <3> QED BY <1>0, <3>1 DEF Drainable, Open, Holding, Exists
  <2>2. ASSUME NEW m \in MsgId, PublishReturns(w, m) \/ PublishRaisesRuntimeError(w, m)
        PROVE  SInv'
    <3>1. /\ outbox' = outbox /\ m \in batch[w] /\ current'[w] = m
          /\ batch'[w] = batch[w] \ {m} /\ pc'[w] \in {"published", "failed"}
      BY <2>2 DEF PublishReturns, PublishRaisesRuntimeError, PublishFails, Take, Hold, store
    <3> QED BY <2>0, <3>1 DEF Open, Holding, Exists
  <2>3. ASSUME pc'[w] = "idle", current'[w] = 0, batch'[w] = {} PROVE SInv'
    BY <2>0, <2>3 DEF Holding
  <2>4. ASSUME Abort(w) PROVE SInv'
    BY <2>3, <2>4 DEF Abort, Forget
  <2>5. ASSUME Continue(w), Holding(w), \A m \in MsgId \ {current[w]} : outbox'[m] = outbox[m]
        PROVE  SInv'
    <3>1. pc'[w] \in {"idle", "publish"} /\ current'[w] = 0 /\ batch'[w] = batch[w]
      BY <2>5 DEF Continue, Forget
    <3> QED BY <1>0, <2>0, <2>5, <3>1 DEF Open, Holding, Exists
  <2>6. CASE MarkOutboxPublished(w)
    BY <2>4, <2>5, <2>6 DEF MarkOutboxPublished, Holding
  <2>7. CASE ReadAttempts(w)
    <3>1. CASE /\ Exists(current[w]) /\ read' = [read EXCEPT ![w] = outbox[current[w]].attempts]
               /\ pc' = [pc EXCEPT ![w] = "counted"]
               /\ UNCHANGED <<batch, current, outbox>>
      BY <2>7, <3>1 DEF ReadAttempts, Open, Holding, Exists
    <3> QED BY <2>4, <2>7, <3>1 DEF ReadAttempts, store
  <2>8. CASE MarkOutboxFailed(w)
    BY <2>4, <2>5, <2>8 DEF MarkOutboxFailed, Holding
  <2>9. ASSUME NEW m \in MsgId, PublishRaisesTimeoutError(w, m) PROVE SInv'
    BY <2>4, <2>9 DEF PublishRaisesTimeoutError
  <2>10. CASE Crash(w)
    BY <2>4, <2>10 DEF Crash
  <2> QED BY <1>4, <2>1, <2>2, <2>6, <2>7, <2>8, <2>9, <2>10 DEF Drain, Mark
<1>5. CASE UNCHANGED vars
  BY <1>5, StoreKeepsOpen DEF vars, store
<1> QED BY <1>1, <1>2, <1>3, <1>4, <1>5 DEF Next, Maintain

LEMMA InitiallyOpen == Init /\ NamesInv => SInv
BY DEF Init, SInv, Holding

\* With one drain at a time a row that says PUBLISHED or DEAD_LETTER changes
\* only by being deleted, whatever crashes, time-outs and deletions happen.
THEOREM SettledRowsStay ==
  ASSUME OneDrain
  PROVE  Spec => TerminalIsFinal
<1>1. SInv /\ NamesInv' /\ [Next]_vars => SInv'
  BY OpenKept
<1>2. SInv /\ [Next]_vars =>
        [\A m \in MsgId : Terminal(m) => outbox'[m] \in {outbox[m], NoRow}]_vars
  <2> SUFFICES ASSUME SInv, Next, NEW m \in MsgId, Terminal(m)
               PROVE  outbox'[m] \in {outbox[m], NoRow}
    OBVIOUS
  <2> USE DEF SInv, NamesInv, TInv, TypeOK, Terminal
  <2>1. ASSUME NEW e \in Events, AddEvent(e) PROVE outbox'[m] = outbox[m]
    <3>1. m <= created /\ m \in Nat
      BY DEF MsgId
    <3> QED BY <2>1, <3>1 DEF AddEvent, EnqueueOutbox
  <2>2. CASE Maintain
    BY <2>2 DEF Maintain, PruneRetention, ResetDemoData
  <2>3. ASSUME NEW w \in Workers, MarkOutboxPublished(w) \/ MarkOutboxFailed(w)
        PROVE  outbox'[m] = outbox[m]
    <3>1. Holding(w)
      BY <2>3 DEF MarkOutboxPublished, MarkOutboxFailed, Holding
    <3>2. m # current[w]
      BY <3>1 DEF Open
    <3> QED BY <2>3, <3>2 DEF MarkOutboxPublished, MarkOutboxFailed
  <2>4. ASSUME NEW w \in Workers,
               \/ ListOutboxMessages(w) \/ ReadAttempts(w) \/ Crash(w)
               \/ \E k \in MsgId : \/ PublishReturns(w, k) \/ PublishRaisesRuntimeError(w, k)
                                  \/ PublishRaisesTimeoutError(w, k)
        PROVE  outbox'[m] = outbox[m]
    BY <2>4 DEF ListOutboxMessages, ReadAttempts, Crash, PublishReturns,
      PublishRaisesRuntimeError, PublishFails, PublishRaisesTimeoutError, store
  <2> QED BY <2>1, <2>2, <2>3, <2>4 DEF Next, Drain, Mark
<1> QED BY <1>1, <1>2, InitiallyOpen, NamesAreFresh, PTL DEF Spec, TerminalIsFinal

-----------------------------------------------------------------------------
(* One drain at a time: what is on the topic, and what `attempts` counts.  *)

\* The last copy of a message is on the topic: the drain is about to mark it,
\* or has, or the row is gone.
LastCopy(m) ==
  /\ m <= created
  /\ \A w \in Workers : m \notin batch[w]
  /\ \/ \E w \in Workers : pc[w] = "published" /\ current[w] = m
     \/ Terminal(m)
     \/ ~Exists(m)

DInv ==
  \A m \in MsgId :
    \/ deliveries[m] <= timeouts[m] + crashes
    \/ deliveries[m] <= 1 + timeouts[m] + crashes /\ LastCopy(m)

Handling(w, m) == current[w] = m /\ pc[w] \in {"failed", "counted"}

CInv ==
  \A m \in MsgId : Exists(m) =>
    /\ failures[m] <= 1 + outbox[m].attempts + crashes
    /\ (\A w \in Workers : ~Handling(w, m)) => failures[m] <= outbox[m].attempts + crashes

\* Steps of the store touch neither the topic nor the drain, and give no row
\* back that they have deleted.
LEMMA StoreSteps ==
  ASSUME NamesInv, (\E e \in Events : AddEvent(e)) \/ Maintain \/ UNCHANGED vars
  PROVE  /\ UNCHANGED <<deliveries, failures, timeouts, crashes, pc, batch, current, read>>
         /\ created <= created'
         /\ \A m \in MsgId : m <= created => outbox'[m] \in {outbox[m], NoRow}
         /\ \A m \in MsgId : ~(m <= created) => outbox'[m] = outbox[m] \/ ~Tried(m)
<1> USE DEF NamesInv, TInv, TypeOK
<1>1. MsgId \subseteq Nat
  BY DEF MsgId
<1>2. ASSUME NEW e \in Events, AddEvent(e)
      PROVE  /\ created <= created'
             /\ \A m \in MsgId : m # created + 1 => outbox'[m] = outbox[m]
  BY <1>2 DEF AddEvent, EnqueueOutbox
<1>3. ASSUME NEW e \in Events, AddEvent(e)
      PROVE  UNCHANGED <<deliveries, failures, timeouts, crashes, pc, batch, current, read>>
  BY <1>3 DEF AddEvent, broker, drain
<1>4. CASE Maintain
  <2>1. UNCHANGED <<created, broker, crashes, drain>>
        /\ \A m \in MsgId : outbox'[m] \in {outbox[m], NoRow}
    BY <1>4 DEF Maintain, PruneRetention, ResetDemoData
  <2> QED BY <2>1 DEF broker, drain
<1>5. CASE UNCHANGED vars
  BY <1>5 DEF vars, store, broker, drain
<1> QED BY <1>1, <1>2, <1>3, <1>4, <1>5

LEMMA CopiesKept ==
  ASSUME OneDrain, SInv, NamesInv', DInv, [Next]_vars
  PROVE  DInv'
<1> USE DEF SInv, NamesInv, TInv, TypeOK
<1>0. MsgId \subseteq Nat \ {0}
  BY DEF MsgId
<1>1. CASE (\E e \in Events : AddEvent(e)) \/ Maintain \/ UNCHANGED vars
  <2>1. /\ UNCHANGED <<deliveries, timeouts, crashes, pc, batch, current>> /\ created <= created'
        /\ \A m \in MsgId : m <= created => outbox'[m] \in {outbox[m], NoRow}
    BY <1>1, StoreSteps
  <2>2. ASSUME NEW m \in MsgId, LastCopy(m) PROVE LastCopy(m)'
    <3>1. m <= created /\ m <= created' /\ outbox'[m] \in {outbox[m], NoRow}
      BY <1>0, <2>1, <2>2 DEF LastCopy
    <3> QED BY <2>1, <2>2, <3>1 DEF LastCopy, Terminal, Exists
  <2> QED BY <2>1, <2>2 DEF DInv
<1>2. ASSUME NEW w \in Workers,
             \/ Drain(w) \/ Crash(w)
             \/ \E m \in MsgId : PublishRaisesTimeoutError(w, m)
      PROVE  DInv'
  <2>0. /\ \A u \in Workers : u = w
        /\ created' = created
        /\ \A m \in MsgId : Exists(m)' <=> Exists(m)
    BY <1>2, DrainsKeepRows DEF OneDrain
  \* Nothing is published and the list gets no longer.
  <2>1. ASSUME UNCHANGED <<deliveries, timeouts, crashes>>, pc[w] # "published",
               \A m \in batch'[w] : m \in batch[w] \/ (Exists(m) /\ ~Terminal(m)),
               \A m \in MsgId : Terminal(m) => Terminal(m)'
        PROVE  DInv'
    <3>1. ASSUME NEW m \in MsgId, LastCopy(m) PROVE LastCopy(m)'
      <4>1. m <= created /\ m \notin batch[w] /\ (Terminal(m) \/ ~Exists(m))
        BY <2>0, <2>1, <3>1 DEF LastCopy
      <4>2. m <= created' /\ m \notin batch'[w] /\ (Terminal(m)' \/ ~Exists(m)')
        BY <2>0, <2>1, <4>1
      <4> QED BY <2>0, <4>2 DEF LastCopy
    <3> QED BY <2>1, <3>1 DEF DInv
  <2>2. CASE ListOutboxMessages(w)
    <3>1. /\ UNCHANGED <<outbox, deliveries, timeouts, crashes>> /\ pc[w] = "idle"
          /\ \A m \in batch'[w] : m \in Drainable
      BY <2>2 DEF ListOutboxMessages, store, broker
    <3>2. \A m \in batch'[w] : Exists(m) /\ ~Terminal(m)
      BY <3>1 DEF Drainable, Terminal
    <3> QED BY <2>1, <3>1, <3>2 DEF Terminal, Exists
  <2>3. ASSUME NEW m \in MsgId, PublishReturns(w, m) PROVE DInv'
    <3>1. /\ UNCHANGED <<outbox, timeouts, crashes>> /\ pc[w] = "publish"
          /\ deliveries' \in {deliveries, [deliveries EXCEPT ![m] = @ + 1]}
          /\ m \in batch[w] /\ batch'[w] = batch[w] \ {m}
          /\ pc'[w] = "published" /\ current'[w] = m
      BY <2>3 DEF PublishReturns, Take, Hold, store
    <3>2. deliveries[m] <= timeouts[m] + crashes
      BY <2>0, <3>1 DEF DInv, LastCopy
    <3>3. LastCopy(m)'
      BY <2>0, <3>1 DEF LastCopy
    <3>4. deliveries'[m] <= 1 + timeouts'[m] + crashes'
      BY <3>1, <3>2
    <3>5. ASSUME NEW k \in MsgId, k # m
          PROVE  deliveries'[k] = deliveries[k] /\ (LastCopy(k) => LastCopy(k)')
      BY <2>0, <3>1, <3>5 DEF LastCopy, Terminal, Exists
    <3> QED BY <3>1, <3>3, <3>4, <3>5 DEF DInv
  <2>4. ASSUME NEW m \in MsgId, PublishRaisesRuntimeError(w, m) PROVE DInv'
    <3>1. /\ UNCHANGED <<outbox, deliveries, timeouts, crashes>> /\ pc[w] = "publish"
          /\ batch'[w] \subseteq batch[w]
      BY <2>4 DEF PublishRaisesRuntimeError, PublishFails, Take, Hold, store
    <3> QED BY <2>1, <3>1 DEF Terminal, Exists
  <2>5. ASSUME NEW m \in MsgId, PublishRaisesTimeoutError(w, m) PROVE DInv'
    <3>1. /\ UNCHANGED <<outbox, crashes>> /\ pc[w] = "publish"
          /\ deliveries' \in {deliveries, [deliveries EXCEPT ![m] = @ + 1]}
          /\ timeouts' = [timeouts EXCEPT ![m] = @ + 1]
          /\ m \in batch[w] /\ batch'[w] = {}
      BY <2>5 DEF PublishRaisesTimeoutError, Take, Abort, store
    <3>2. deliveries[m] <= timeouts[m] + crashes
      BY <2>0, <3>1 DEF DInv, LastCopy
    <3>3. deliveries'[m] <= timeouts'[m] + crashes'
      BY <3>1, <3>2
    <3>4. ASSUME NEW k \in MsgId, k # m
          PROVE  /\ deliveries'[k] = deliveries[k] /\ timeouts'[k] = timeouts[k]
                 /\ LastCopy(k) => LastCopy(k)'
      BY <2>0, <3>1, <3>4 DEF LastCopy, Terminal, Exists
    <3> QED BY <3>1, <3>3, <3>4 DEF DInv
  <2>6. CASE MarkOutboxPublished(w)
    <3>1. /\ UNCHANGED <<deliveries, timeouts, crashes>> /\ pc[w] = "published"
          /\ batch'[w] \subseteq batch[w]
      BY <2>6 DEF MarkOutboxPublished, Continue, Abort, broker
    <3>2. ASSUME NEW m \in MsgId, m = current[w], Exists(m) PROVE Terminal(m)'
      <4>1. outbox' = [outbox EXCEPT ![m].status = "PUBLISHED"]
        BY <2>6, <3>2 DEF MarkOutboxPublished
      <4>2. outbox[m] \in Row
        BY <3>2 DEF Exists
      <4>3. outbox'[m].status = "PUBLISHED"
        BY <4>1, <4>2 DEF Row
      <4> QED BY <2>0, <3>2, <4>3 DEF Terminal
    <3>3. ASSUME NEW m \in MsgId, m # current[w] PROVE outbox'[m] = outbox[m]
      BY <2>6, <3>3 DEF MarkOutboxPublished
    <3>4. ASSUME NEW m \in MsgId, LastCopy(m) PROVE LastCopy(m)'
      <4>1. Terminal(m)' \/ ~Exists(m)'
        <5>1. CASE m = current[w]
          BY <2>0, <3>2, <5>1
        <5>2. CASE m # current[w]
          BY <2>0, <3>3, <3>4, <5>2 DEF LastCopy, Terminal, Exists
        <5> QED BY <5>1, <5>2
      <4> QED BY <2>0, <3>1, <3>4, <4>1 DEF LastCopy
    <3> QED BY <3>1, <3>4 DEF DInv
  <2>7. CASE ReadAttempts(w)
    <3>1. UNCHANGED <<outbox, deliveries, timeouts, crashes>> /\ pc[w] = "failed"
          /\ batch'[w] \subseteq batch[w]
      BY <2>7 DEF ReadAttempts, Abort, store, broker
    <3> QED BY <2>1, <3>1 DEF Terminal, Exists
  <2>8. CASE MarkOutboxFailed(w)
    <3>1. UNCHANGED <<deliveries, timeouts, crashes>> /\ pc[w] = "counted"
          /\ batch'[w] \subseteq batch[w]
      BY <2>8 DEF MarkOutboxFailed, Continue, Abort, broker
    <3>2. ASSUME NEW m \in MsgId, Terminal(m) PROVE Terminal(m)'
      <4>1. m # current[w]
        BY <3>1, <3>2 DEF Open, Terminal, Holding
      <4>2. outbox'[m] = outbox[m]
        BY <2>8, <4>1 DEF MarkOutboxFailed
      <4> QED BY <3>2, <4>2 DEF Terminal, Exists
    <3> QED BY <2>1, <3>1, <3>2
  <2>9. CASE Crash(w)
    <3>1. UNCHANGED <<deliveries, timeouts>> /\ crashes' = crashes + 1
      BY <2>9 DEF Crash, broker
    <3> QED BY <3>1 DEF DInv
  <2> QED BY <1>2, <2>2, <2>3, <2>4, <2>5, <2>6, <2>7, <2>8, <2>9 DEF Drain, Mark
<1> QED BY <1>1, <1>2 DEF Next, Maintain

\* With one drain at a time, every copy of a message on the topic beyond the
\* first is explained by a time-out of its publish or by a drain that died.
THEOREM CopiesAreExplained ==
  ASSUME OneDrain
  PROVE  Spec => []DeliveriesExplained
<1>1. SInv /\ DInv /\ NamesInv' /\ [Next]_vars => SInv' /\ DInv'
  BY OpenKept, CopiesKept
<1>2. Init => DInv
  BY DEF Init, DInv
<1>3. SInv /\ DInv => DeliveriesExplained
  <2> SUFFICES ASSUME SInv, DInv, NEW m \in MsgId
               PROVE  deliveries[m] <= 1 + timeouts[m] + crashes
    BY DEF DeliveriesExplained
  <2>1. deliveries[m] \in Nat /\ timeouts[m] \in Nat /\ crashes \in Nat
    BY DEF SInv, NamesInv, TInv, TypeOK
  <2>2. \/ deliveries[m] <= timeouts[m] + crashes
        \/ deliveries[m] <= 1 + timeouts[m] + crashes
    BY DEF DInv
  <2> QED BY <2>1, <2>2
<1> QED BY <1>1, <1>2, <1>3, InitiallyOpen, NamesAreFresh, PTL DEF Spec

LEMMA CountsKept ==
  ASSUME OneDrain, SInv, NamesInv', CInv, [Next]_vars
  PROVE  CInv'
<1> USE DEF SInv, NamesInv, TInv, TypeOK
<1>0. \A m \in MsgId : Exists(m) => outbox[m].attempts \in Nat
  <2> SUFFICES ASSUME NEW m \in MsgId, Exists(m) PROVE outbox[m].attempts \in Nat
    OBVIOUS
  <2>1. outbox[m] \in Row
    BY DEF Exists
  <2> QED BY <2>1 DEF Row
<1>1. CASE (\E e \in Events : AddEvent(e)) \/ Maintain \/ UNCHANGED vars
  <2>1. /\ UNCHANGED <<failures, crashes, pc, current>>
        /\ \A m \in MsgId : m <= created => outbox'[m] \in {outbox[m], NoRow}
        /\ \A m \in MsgId : ~(m <= created) => outbox'[m] = outbox[m] \/ ~Tried(m)
    BY <1>1, StoreSteps
  <2>2. ASSUME NEW m \in MsgId, Exists(m)', Tried(m)
        PROVE  Exists(m) /\ outbox'[m] = outbox[m]
    BY <2>1, <2>2 DEF Exists
  <2>3. ASSUME NEW m \in MsgId, Exists(m)', ~Tried(m)
        PROVE  failures'[m] = 0 /\ outbox'[m].attempts \in Nat
    BY <2>1, <2>3 DEF Tried, Exists, Row
  <2> QED BY <2>1, <2>2, <2>3 DEF CInv, Handling
<1>2. ASSUME NEW w \in Workers,
             \/ Drain(w) \/ Crash(w)
             \/ \E m \in MsgId : PublishRaisesTimeoutError(w, m)
      PROVE  CInv'
  <2>0. /\ \A u \in Workers : u = w
        /\ \A m \in MsgId : Exists(m)' <=> Exists(m)
    BY <1>2, DrainsKeepRows DEF OneDrain
  \* No failure is counted and the drain holds none.
  <2>1. ASSUME UNCHANGED <<failures, crashes>>, pc[w] \notin {"failed", "counted"},
               \A m \in MsgId : Exists(m) => outbox'[m].attempts = outbox[m].attempts
        PROVE  CInv'
    BY <2>0, <2>1 DEF CInv, Handling
  <2>2. ASSUME NEW m \in MsgId, PublishReturns(w, m) \/ PublishRaisesTimeoutError(w, m)
        PROVE  CInv'
    <3>1. UNCHANGED <<outbox, failures, crashes>> /\ pc[w] = "publish"
      BY <2>2 DEF PublishReturns, PublishRaisesTimeoutError, Take, store
    <3> QED BY <2>1, <3>1
  <2>3. CASE ListOutboxMessages(w)
    <3>1. UNCHANGED <<outbox, failures, crashes>> /\ pc[w] = "idle"
      BY <2>3 DEF ListOutboxMessages, store, broker
    <3> QED BY <2>1, <3>1
  <2>4. ASSUME NEW m \in MsgId, PublishRaisesRuntimeError(w, m) PROVE CInv'
    <3>1. /\ UNCHANGED <<outbox, crashes>> /\ pc[w] = "publish"
          /\ failures' = [failures EXCEPT ![m] = @ + 1]
          /\ pc'[w] = "failed" /\ current'[w] = m
      BY <2>4 DEF PublishRaisesRuntimeError, PublishFails, Take, Hold, store
    <3>2. \A k \in MsgId : Exists(k) => failures[k] <= outbox[k].attempts + crashes
      BY <2>0, <3>1 DEF CInv, Handling
    <3>3. Handling(w, m)' /\ failures'[m] = failures[m] + 1
      BY <3>1 DEF Handling
    <3>4. \A k \in MsgId : k # m => failures'[k] = failures[k]
      BY <3>1
    <3> QED BY <1>0, <2>0, <3>1, <3>2, <3>3, <3>4 DEF CInv, Exists
  <2>5. CASE MarkOutboxPublished(w)
    <3>1. UNCHANGED <<failures, crashes>> /\ pc[w] = "published"
      BY <2>5 DEF MarkOutboxPublished, broker
    <3>2. \A m \in MsgId : Exists(m) => outbox'[m].attempts = outbox[m].attempts
      BY <2>5 DEF MarkOutboxPublished, Exists, Row
    <3> QED BY <2>1, <3>1, <3>2
  <2>6. CASE ReadAttempts(w)
    <3>1. UNCHANGED <<outbox, failures, crashes>> /\ pc[w] = "failed"
      BY <2>6 DEF ReadAttempts, store, broker
    <3>2. ASSUME NEW m \in MsgId, Exists(m), Handling(w, m) PROVE Handling(w, m)'
      BY <2>6, <3>2 DEF ReadAttempts, Handling
    <3> QED BY <2>0, <3>1, <3>2 DEF CInv, Exists
  <2>7. CASE MarkOutboxFailed(w)
    <3> DEFINE n == Recount(read[w])
    <3>1. /\ UNCHANGED <<failures, crashes>> /\ pc[w] = "counted" /\ current[w] \in MsgId
          /\ n = read[w] + 1
      BY <2>7 DEF MarkOutboxFailed, Recount, Holding, broker
    <3>2. Exists(current[w]) => outbox'[current[w]].attempts = outbox[current[w]].attempts + 1
      <4> SUFFICES ASSUME Exists(current[w])
                   PROVE  outbox'[current[w]].attempts = outbox[current[w]].attempts + 1
        OBVIOUS
      <4>1. outbox' = [outbox EXCEPT ![current[w]].status = FailedStatus(n),
                                     ![current[w]].attempts = n]
        BY <2>7 DEF MarkOutboxFailed
      <4>2. outbox[current[w]] \in Row /\ read[w] = outbox[current[w]].attempts
        BY <3>1 DEF Exists
      <4>3. \A r \in Row : [r EXCEPT !.status = FailedStatus(n), !.attempts = n].attempts = n
        BY DEF Row
      <4>4. outbox'[current[w]]
              = [outbox[current[w]] EXCEPT !.status = FailedStatus(n), !.attempts = n]
        BY <3>1, <4>1
      <4> HIDE DEF n
      <4> QED BY <3>1, <4>2, <4>3, <4>4
    <3>3. \A m \in MsgId : m # current[w] => outbox'[m] = outbox[m] /\ ~Handling(w, m)
      BY <2>7 DEF MarkOutboxFailed, Handling
    <3> HIDE DEF n
    <3>4. ASSUME NEW m \in MsgId, Exists(m)
          PROVE  failures'[m] <= outbox'[m].attempts + crashes'
      <4>1. CASE m = current[w]
        BY <1>0, <3>1, <3>2, <3>4, <4>1 DEF CInv
      <4>2. CASE m # current[w]
        BY <2>0, <3>1, <3>3, <3>4, <4>2 DEF CInv
      <4> QED BY <4>1, <4>2
    <3>5. \A m \in MsgId : Exists(m)' => outbox'[m].attempts \in Nat
      BY DEF Exists, Row
    <3> QED BY <2>0, <3>1, <3>4, <3>5 DEF CInv
  <2>8. CASE Crash(w)
    <3>1. UNCHANGED <<outbox, failures>> /\ crashes' = crashes + 1
      BY <2>8 DEF Crash, store, broker
    <3> QED BY <1>0, <3>1 DEF CInv, Exists
  <2> QED BY <1>2, <2>2, <2>3, <2>4, <2>5, <2>6, <2>7, <2>8 DEF Drain, Mark
<1> QED BY <1>1, <1>2 DEF Next, Maintain

\* With one drain at a time, a failed publish that nobody is about to record is
\* in the row's attempts, or a drain died before it recorded it.
THEOREM FailuresAreCounted ==
  ASSUME OneDrain
  PROVE  Spec => []FailuresCounted
<1>1. SInv /\ CInv /\ NamesInv' /\ [Next]_vars => SInv' /\ CInv'
  BY OpenKept, CountsKept
<1>2. Init => CInv
  BY DEF Init, CInv, Exists
<1>3. CInv => FailuresCounted
  BY DEF CInv, FailuresCounted, Handling
<1> QED BY <1>1, <1>2, <1>3, InitiallyOpen, NamesAreFresh, PTL DEF Spec
=============================================================================
