----------------------- MODULE StreamIngestionProofs -----------------------
(* No message is lost, for any number of workers, messages and faults.     *)
EXTENDS StreamIngestion, TLAPS

-----------------------------------------------------------------------------
(* The inductive invariant.                                                *)

Shapes ==
  /\ log \in [Offset -> Payload]
  /\ committed \in 0 .. Length
  /\ deadLetters \in [Offset \union {NoOffset} -> Nat]
  /\ pc = [w \in Workers |-> pc[w]]
  /\ position \in [Workers -> 0 .. Length]
  /\ current \in [Workers -> Offset \union {NoOffset}]
  /\ event = [w \in Workers |-> event[w]]

\* The worker has taken a message of the log and not dealt with it yet.
Pending(w) == pc[w] \in {"decode", "lookup", "insert", "dead_letter"}

\* Where a worker is in run says what it holds, and what it has done with it.
Holds ==
  \A w \in Workers :
    /\ pc[w] \in {"poll", "stopped"} => current[w] = NoOffset
    /\ pc[w] \in {"decode", "lookup", "insert", "commit"} => current[w] \in Offset
    /\ pc[w] \in {"lookup", "insert", "commit"} => event[w] \in Readings(log[current[w]])
    /\ pc[w] = "commit" => event[w] \in events
    /\ pc[w] \in {"publish", "commit_dead_letter"} => deadLetters[current[w]] > 0

\* Everything before the position of the owner is handled, except the message
\* it holds; that message, if any, is the last one it received.
OwnerReadOn ==
  \A w \in Workers :
    owner = w =>
      /\ committed <= position[w]
      /\ current[w] \in Offset => current[w] + 1 = position[w] /\ committed <= current[w]
      /\ \A o \in Offset :
           o < position[w] => Handled(o) \/ (Pending(w) /\ o = current[w])

LInv == Shapes /\ Holds /\ OwnerReadOn /\ CommittedIsHandled

LEMMA InitEstablishes == Init => LInv
BY ParametersAssumption DEF Init, LInv, Shapes, Holds, OwnerReadOn, CommittedIsHandled, Offset

\* What is handled stays handled: the store and the dead letters only grow.
LEMMA HandledStays ==
  ASSUME Shapes, Shapes', log' = log, events \subseteq events',
         \A o \in Offset : deadLetters[o] <= deadLetters'[o],
         NEW o \in Offset, Handled(o)
  PROVE  Handled(o)'
BY ParametersAssumption DEF Shapes, Handled, Readings, Offset

\* A step that neither deals with a message nor moves an offset, and after
\* which the workers it moved have stopped, keeps the invariant.
LEMMA LeaveKeeps ==
  ASSUME LInv, NEW w \in Workers, Leave(w), UNCHANGED <<log, events, deadLetters>>
  PROVE  LInv'
<1>1. /\ pc' = [pc EXCEPT ![w] = "stopped"]
      /\ current' = [current EXCEPT ![w] = NoOffset]
      /\ event' = [event EXCEPT ![w] = NoEvent]
      /\ owner' = IF owner = w THEN NoWorker ELSE owner
      /\ UNCHANGED <<committed, position>>
  BY DEF Leave, Drop, Go
<1>2. Shapes'
  BY <1>1 DEF LInv, Shapes
<1>3. Holds'
  BY <1>1 DEF LInv, Shapes, Holds
<1>4. OwnerReadOn'
  <2> SUFFICES ASSUME NEW v \in Workers, owner' = v PROVE v # w /\ owner = v
    BY <1>1 DEF LInv, Shapes, OwnerReadOn, Handled, Pending
  <2> QED BY <1>1, ParametersAssumption
<1>5. CommittedIsHandled'
  BY <1>1 DEF LInv, CommittedIsHandled, Handled
<1> QED BY <1>2, <1>3, <1>4, <1>5 DEF LInv

\* The owner acknowledges only what it and the earlier owners have handled.
LEMMA AcknowledgeKeeps ==
  ASSUME LInv, NEW w \in Workers, Acknowledge(w),
         pc[w] \in {"commit", "commit_dead_letter"},
         UNCHANGED <<log, events, deadLetters, owner, position>>
  PROVE  /\ LInv'
         /\ committed' \in committed .. Length
         /\ \A o \in Offset : o < committed' => Handled(o)
<1>1. /\ owner = w
      /\ committed' = IF current[w] = NoOffset THEN committed ELSE current[w] + 1
      /\ current' = [current EXCEPT ![w] = NoOffset]
      /\ event' = [event EXCEPT ![w] = NoEvent]
      /\ pc' = [pc EXCEPT ![w] = "poll"]
  BY DEF Acknowledge, NextOffset, Drop, Go
<1>2. \A o \in Offset : o < position[w] => Handled(o)
  BY <1>1 DEF LInv, OwnerReadOn, Pending
<1>3. CASE current[w] = NoOffset
  <2>1. committed' = committed /\ \A o \in Offset : o < committed' => Handled(o)
    BY <1>1, <1>3 DEF LInv, CommittedIsHandled
  <2>2. Shapes' /\ Holds'
    BY <1>1, <2>1 DEF LInv, Shapes, Holds
  <2>3. OwnerReadOn' /\ CommittedIsHandled'
    BY <1>1, <1>2, <2>1, ParametersAssumption
    DEF LInv, Shapes, OwnerReadOn, CommittedIsHandled, Handled, Pending, Offset
  <2> QED BY <2>1, <2>2, <2>3 DEF LInv, Shapes
<1>4. CASE current[w] \in Offset
  <2>1. current[w] # NoOffset
    BY <1>4, ParametersAssumption DEF Offset
  <2>2. committed' = position[w] /\ committed' \in committed .. Length
    BY <1>1, <1>4, <2>1, ParametersAssumption DEF LInv, Shapes, OwnerReadOn, Offset
  <2>3. Shapes' /\ Holds'
    BY <1>1, <2>2 DEF LInv, Shapes, Holds
  <2>4. OwnerReadOn' /\ CommittedIsHandled'
    BY <1>1, <1>2, <2>2, ParametersAssumption
    DEF LInv, Shapes, OwnerReadOn, CommittedIsHandled, Handled, Pending, Offset
  <2> QED BY <1>2, <2>2, <2>3, <2>4 DEF LInv
<1> QED BY <1>3, <1>4 DEF LInv, Shapes

\* The steps between receiving a message and acknowledging it: the worker
\* stays where it is in the log, and leaves `pending` only when it is handled.
LEMMA ProcessKeeps ==
  ASSUME LInv, NEW w \in Workers,
         UNCHANGED <<log, committed, owner, position>>,
         pc' = [pc EXCEPT ![w] = pc'[w]],
         current' = [current EXCEPT ![w] = current'[w]],
         current'[w] \in {current[w], NoOffset},
         event' = [event EXCEPT ![w] = event'[w]],
         events \subseteq events', deadLetters' \in [Offset \union {NoOffset} -> Nat],
         \A o \in Offset \union {NoOffset} : deadLetters[o] <= deadLetters'[o],
         Holds',
         \A o \in Offset :
           Pending(w) /\ o = current[w] => Handled(o)' \/ (Pending(w)' /\ o = current'[w])
  PROVE  LInv'
<1>1. Shapes'
  BY DEF LInv, Shapes
<1>2. \A o \in Offset : Handled(o) => Handled(o)'
  BY <1>1, HandledStays DEF LInv
<1>3. CommittedIsHandled'
  BY <1>2 DEF LInv, CommittedIsHandled
<1>4. OwnerReadOn'
  <2> SUFFICES ASSUME NEW v \in Workers, owner = v
      PROVE  /\ committed <= position[v]
             /\ current'[v] \in Offset => current'[v] + 1 = position[v] /\ committed <= current'[v]
             /\ \A o \in Offset :
                  o < position[v] => Handled(o)' \/ (Pending(v)' /\ o = current'[v])
    BY DEF OwnerReadOn
  <2>1. CASE v = w
    <3>1. NoOffset \notin Offset
      BY ParametersAssumption DEF Offset
    <3>2. /\ committed <= position[w]
          /\ current'[w] \in Offset =>
               current'[w] + 1 = position[w] /\ committed <= current'[w]
      BY <2>1, <3>1 DEF LInv, OwnerReadOn
    <3>3. ASSUME NEW o \in Offset, o < position[w]
          PROVE  Handled(o)' \/ (Pending(w)' /\ o = current'[w])
      <4>1. Handled(o) \/ (Pending(w) /\ o = current[w])
        BY <2>1, <3>3 DEF LInv, OwnerReadOn
      <4> QED BY <4>1, <1>2
    <3> QED BY <2>1, <3>2, <3>3
  <2>2. CASE v # w
    BY <2>2, <1>2 DEF LInv, Shapes, OwnerReadOn, Pending
  <2> QED BY <2>1, <2>2
<1> QED BY <1>1, <1>3, <1>4 DEF LInv

-----------------------------------------------------------------------------
(* Steps that move the position of a worker, or its group.                 *)

LEMMA AssignKeeps ==
  ASSUME LInv, NEW w \in Workers, Assign(w)
  PROVE  LInv'
<1>1. /\ pc[w] = "poll"
      /\ owner' = w
      /\ position' = [position EXCEPT ![w] = committed]
      /\ UNCHANGED <<log, committed, events, deadLetters, pc, current, event>>
  BY DEF Assign, LoopGoesOn, StartOffset, store, held
<1>2. Shapes' /\ Holds' /\ CommittedIsHandled'
  BY <1>1 DEF LInv, Shapes, Holds, CommittedIsHandled, Handled
<1>3. OwnerReadOn'
  <2>1. current[w] \notin Offset
    BY <1>1, ParametersAssumption DEF LInv, Holds, Offset
  <2> QED
    BY <1>1, <2>1 DEF LInv, Shapes, OwnerReadOn, CommittedIsHandled, Handled, Offset
<1> QED BY <1>2, <1>3 DEF LInv

LEMMA DeliverKeeps ==
  ASSUME LInv, NEW w \in Workers, Deliver(w)
  PROVE  LInv'
<1> DEFINE o == position[w]
           label == CASE log[o].kind \in {"event", "partial"} -> "lookup"
                      [] log[o].kind \in {"empty", "invalid"} -> "dead_letter"
                      [] log[o].kind = "undecodable" -> "decode"
<1>1. /\ pc[w] = "poll" /\ owner = w /\ o < Length
      /\ position' = [position EXCEPT ![w] = o + 1]
      /\ current' = [current EXCEPT ![w] = o]
      /\ UNCHANGED <<log, committed, owner, events, deadLetters>>
      /\ Parse(w, log[o])
  BY DEF Deliver, Receive, LoopGoesOn, store, LInv, Shapes
<1>2. o \in Offset
  BY <1>1, ParametersAssumption DEF LInv, Shapes, Offset
<1>3. log[o].kind \in {"event", "partial", "empty", "invalid", "undecodable"}
  BY <1>2, ParametersAssumption DEF LInv, Shapes, Payload
<1>4. /\ pc' = [pc EXCEPT ![w] = label]
      /\ label \in {"lookup", "dead_letter", "decode"}
      /\ label = "lookup" => event'[w] \in Readings(log[o])
      /\ event' = [event EXCEPT ![w] = event'[w]]
  <2>1. /\ pc' = [pc EXCEPT ![w] = label]
        /\ label \in {"lookup", "dead_letter", "decode"}
        /\ label = "lookup" => log[o].kind \in {"event", "partial"}
    BY <1>3 DEF Deliver, Classify, Branch, Go
  <2>2. event' = [event EXCEPT ![w] = event'[w]]
    BY <1>1 DEF Parse, LInv, Shapes
  <2>3. log[o].kind \in {"event", "partial"} => event'[w] \in Readings(log[o])
    BY <1>1 DEF Parse, LInv, Shapes
  <2> QED BY <2>1, <2>2, <2>3
<1> HIDE DEF o, label
<1>5. Shapes'
  <2>1. o + 1 \in 0 .. Length
    BY <1>1, <1>2, ParametersAssumption DEF Offset
  <2>2. position' \in [Workers -> 0 .. Length]
        /\ current' \in [Workers -> Offset \union {NoOffset}]
    BY <1>1, <1>2, <2>1 DEF LInv, Shapes
  <2> QED BY <1>1, <1>4, <2>2 DEF LInv, Shapes
<1>6. Holds'
  BY <1>1, <1>2, <1>4 DEF LInv, Shapes, Holds
<1>7. CommittedIsHandled'
  BY <1>1 DEF LInv, CommittedIsHandled, Handled
<1>8. OwnerReadOn'
  <2>1. \A p \in Offset : p < o => Handled(p)
    BY <1>1 DEF LInv, OwnerReadOn, Pending, o
  <2>2. Pending(w)'
    BY <1>4 DEF Pending, LInv, Shapes
  <2>3. committed <= o
    BY <1>1 DEF LInv, OwnerReadOn, o
  <2> SUFFICES ASSUME NEW v \in Workers, owner' = v
      PROVE  /\ committed' <= position'[v]
             /\ current'[v] \in Offset =>
                  current'[v] + 1 = position'[v] /\ committed' <= current'[v]
             /\ \A p \in Offset :
                  p < position'[v] => Handled(p)' \/ (Pending(v)' /\ p = current'[v])
    BY DEF OwnerReadOn
  <2>4. v = w /\ position'[v] = o + 1 /\ current'[v] = o /\ o \in Nat /\ committed \in Nat
    BY <1>1, <1>2, ParametersAssumption DEF LInv, Shapes, Offset
  <2>5. ASSUME NEW p \in Offset, p < o + 1
        PROVE  Handled(p)' \/ (Pending(w)' /\ p = o)
    BY <1>1, <1>2, <2>1, <2>2, <2>5 DEF Handled, Offset
  <2> QED BY <1>1, <2>3, <2>4, <2>5
<1> QED BY <1>5, <1>6, <1>7, <1>8 DEF LInv

-----------------------------------------------------------------------------
\* What a step does to the abstract log: it deals with messages, or moves the
\* cursor past messages that are dealt with.
LogStep ==
  \/ /\ committed' = committed
     /\ \A o \in Offset : Handled(o) => Handled(o)'
  \/ /\ committed' \in committed .. Length
     /\ \A o \in Offset : o < committed' => Handled(o)
     /\ \A o \in Offset : Handled(o)' <=> Handled(o)

\* Steps of a worker on the message it holds.
LEMMA HeldMessageKeeps ==
  ASSUME LInv, NEW w \in Workers,
         Lookup(w) \/ SaveDeadLetter(w) \/ PublishReturns(w)
           \/ PublishRaisesRuntimeError(w) \/ (Insert(w) /\ Free(event[w]))
  PROVE  LInv' /\ committed' = committed /\ \A o \in Offset : Handled(o) => Handled(o)'
<1>1. ASSUME UNCHANGED <<log, committed, owner, position>>, events \subseteq events',
             deadLetters' \in [Offset \union {NoOffset} -> Nat],
             \A o \in Offset \union {NoOffset} : deadLetters[o] <= deadLetters'[o],
             LInv'
      PROVE  committed' = committed /\ \A o \in Offset : Handled(o) => Handled(o)'
  BY <1>1, HandledStays DEF LInv
<1>2. CASE Lookup(w)
  <2>1. PICK label \in {"insert", "commit", "dead_letter"} :
          /\ pc' = [pc EXCEPT ![w] = label]
          /\ label = "commit" => event[w] \in events
    BY <1>2 DEF Lookup, Go
  <2>2. /\ pc[w] = "lookup"
        /\ UNCHANGED <<log, committed, owner, position, events, deadLetters, current, event>>
    BY <1>2 DEF Lookup, group, store, held
  <2>3. Holds'
    BY <2>1, <2>2 DEF LInv, Shapes, Holds
  <2>4. label # "commit" => Pending(w)'
    BY <2>1 DEF Pending, LInv, Shapes
  <2>5. \A o \in Offset : o = current[w] => Handled(o)' \/ Pending(w)'
    BY <2>1, <2>2, <2>4 DEF Handled, LInv, Holds
  <2>6. /\ pc' = [pc EXCEPT ![w] = pc'[w]]
        /\ current' = [current EXCEPT ![w] = current'[w]]
        /\ current'[w] = current[w]
        /\ event' = [event EXCEPT ![w] = event'[w]]
        /\ deadLetters' \in [Offset \union {NoOffset} -> Nat]
        /\ \A o \in Offset \union {NoOffset} : deadLetters[o] <= deadLetters'[o]
    BY <2>1, <2>2 DEF LInv, Shapes
  <2>7. LInv'
    BY <2>2, <2>3, <2>5, <2>6, ProcessKeeps
  <2> QED BY <1>1, <2>2, <2>6, <2>7
<1>3. CASE SaveDeadLetter(w)
  <2>1. PICK label \in {"publish", "commit_dead_letter"} : pc' = [pc EXCEPT ![w] = label]
    BY <1>3 DEF SaveDeadLetter, Go
  <2>2. /\ pc[w] = "dead_letter"
        /\ UNCHANGED <<log, committed, owner, position, events, current, event>>
        /\ deadLetters' = [deadLetters EXCEPT ![current[w]] = @ + 1]
    BY <1>3 DEF SaveDeadLetter, group, held
  <2>3. /\ deadLetters' \in [Offset \union {NoOffset} -> Nat]
        /\ \A o \in Offset \union {NoOffset} : deadLetters[o] <= deadLetters'[o]
        /\ deadLetters'[current[w]] > 0
    BY <2>2 DEF LInv, Shapes
  <2>4. Holds'
    BY <2>1, <2>2, <2>3 DEF LInv, Shapes, Holds
  <2>5. \A o \in Offset : o = current[w] => Handled(o)'
    BY <2>3 DEF Handled
  <2>6. /\ pc' = [pc EXCEPT ![w] = pc'[w]]
        /\ current' = [current EXCEPT ![w] = current'[w]]
        /\ current'[w] = current[w]
        /\ event' = [event EXCEPT ![w] = event'[w]]
    BY <2>1, <2>2 DEF LInv, Shapes
  <2>7. LInv'
    BY <2>2, <2>3, <2>4, <2>5, <2>6, ProcessKeeps
  <2> QED BY <1>1, <2>2, <2>3, <2>7
<1>4. CASE PublishReturns(w)
  <2>1. /\ pc[w] = "publish" /\ pc' = [pc EXCEPT ![w] = "commit_dead_letter"]
        /\ UNCHANGED <<log, committed, owner, position, events, deadLetters, current, event>>
    BY <1>4 DEF PublishReturns, Go, group, store, held
  <2>2. Holds'
    BY <2>1 DEF LInv, Shapes, Holds
  <2>3. ~Pending(w)
    BY <2>1 DEF Pending
  <2>4. /\ pc' = [pc EXCEPT ![w] = pc'[w]]
        /\ current' = [current EXCEPT ![w] = current'[w]]
        /\ current'[w] = current[w]
        /\ event' = [event EXCEPT ![w] = event'[w]]
        /\ deadLetters' \in [Offset \union {NoOffset} -> Nat]
        /\ \A o \in Offset \union {NoOffset} : deadLetters[o] <= deadLetters'[o]
    BY <2>1 DEF LInv, Shapes
  <2>5. LInv'
    BY <2>1, <2>2, <2>3, <2>4, ProcessKeeps
  <2> QED BY <1>1, <2>1, <2>4, <2>5
<1>5. CASE PublishRaisesRuntimeError(w)
  <2>1. /\ pc[w] = "publish" /\ pc' = [pc EXCEPT ![w] = "poll"]
        /\ current' = [current EXCEPT ![w] = NoOffset]
        /\ event' = [event EXCEPT ![w] = NoEvent]
        /\ UNCHANGED <<log, committed, owner, position, events, deadLetters>>
    BY <1>5 DEF PublishRaisesRuntimeError, Drop, Go, group, store, held
  <2>2. Holds'
    BY <2>1 DEF LInv, Shapes, Holds
  <2>3. ~Pending(w)
    BY <2>1 DEF Pending
  <2>4. /\ pc' = [pc EXCEPT ![w] = pc'[w]]
        /\ current' = [current EXCEPT ![w] = current'[w]]
        /\ current'[w] = NoOffset
        /\ event' = [event EXCEPT ![w] = event'[w]]
        /\ deadLetters' \in [Offset \union {NoOffset} -> Nat]
        /\ \A o \in Offset \union {NoOffset} : deadLetters[o] <= deadLetters'[o]
    BY <2>1 DEF LInv, Shapes
  <2>5. LInv'
    BY <2>1, <2>2, <2>3, <2>4, ProcessKeeps
  <2> QED BY <1>1, <2>1, <2>4, <2>5
<1>6. CASE Insert(w) /\ Free(event[w])
  <2>1. /\ pc[w] = "insert" /\ pc' = [pc EXCEPT ![w] = "commit"]
        /\ events' = events \union {event[w]}
        /\ UNCHANGED <<log, committed, owner, position, deadLetters, current, event>>
    BY <1>6 DEF Insert, Go, group, held
  <2>2. Holds'
    BY <2>1 DEF LInv, Shapes, Holds
  <2>3. \A o \in Offset : o = current[w] => Handled(o)'
    BY <2>1 DEF Handled, LInv, Holds
  <2>4. /\ pc' = [pc EXCEPT ![w] = pc'[w]]
        /\ current' = [current EXCEPT ![w] = current'[w]]
        /\ current'[w] = current[w]
        /\ event' = [event EXCEPT ![w] = event'[w]]
        /\ deadLetters' \in [Offset \union {NoOffset} -> Nat]
        /\ \A o \in Offset \union {NoOffset} : deadLetters[o] <= deadLetters'[o]
    BY <2>1 DEF LInv, Shapes
  <2>5. LInv'
    BY <2>1, <2>2, <2>3, <2>4, ProcessKeeps
  <2> QED BY <1>1, <2>1, <2>4, <2>5
<1> QED BY <1>2, <1>3, <1>4, <1>5, <1>6

\* Every step keeps the invariant and is a step of the abstract log.
LEMMA StepKeeps ==
  ASSUME LInv, [Next]_vars
  PROVE  LInv' /\ LogStep
<1>1. ASSUME NEW w \in Workers, Leave(w), UNCHANGED <<log, events, deadLetters>>
      PROVE  LInv' /\ LogStep
  BY <1>1, LeaveKeeps DEF Leave, LogStep, Handled
<1>2. ASSUME UNCHANGED <<log, committed, owner, position, events, deadLetters, pc, current, event>>
      PROVE  LInv' /\ LogStep
  BY <1>2 DEF LInv, Shapes, Holds, OwnerReadOn, CommittedIsHandled, Handled, Pending, LogStep
<1>3. ASSUME NEW w \in Workers, Start(w) PROVE LInv' /\ LogStep
  <2>1. /\ pc[w] = "stopped" /\ pc' = [pc EXCEPT ![w] = "poll"]
        /\ UNCHANGED <<log, committed, owner, position, events, deadLetters, current, event>>
    BY <1>3 DEF Start, Go, group, store, held
  <2>2. Shapes' /\ Holds' /\ CommittedIsHandled'
    BY <2>1 DEF LInv, Shapes, Holds, CommittedIsHandled, Handled
  <2>3. OwnerReadOn'
    BY <2>1 DEF LInv, Shapes, OwnerReadOn, Handled, Pending
  <2> QED BY <2>1, <2>2, <2>3 DEF LInv, LogStep, Handled
<1>4. ASSUME NEW w \in Workers, Assign(w) PROVE LInv' /\ LogStep
  BY <1>4, AssignKeeps DEF Assign, store, LogStep, Handled
<1>5. ASSUME NEW w \in Workers, EmptyPoll(w) PROVE LInv' /\ LogStep
  BY <1>2, <1>5 DEF EmptyPoll, group, store, held
<1>6. ASSUME NEW w \in Workers, Deliver(w) PROVE LInv' /\ LogStep
  BY <1>6, DeliverKeeps DEF Deliver, store, LogStep, Handled
<1>7. ASSUME NEW w \in Workers, PollError(w) PROVE LInv' /\ LogStep
  <2>1. /\ pc[w] = "poll" /\ pc' = [pc EXCEPT ![w] = "dead_letter"]
        /\ current' = [current EXCEPT ![w] = NoOffset]
        /\ event' = [event EXCEPT ![w] = NoEvent]
        /\ UNCHANGED <<log, committed, owner, position, events, deadLetters>>
    BY <1>7 DEF PollError, LoopGoesOn, Branch, Drop, Go, group, store, held
  <2>2. Shapes' /\ Holds' /\ CommittedIsHandled'
    BY <2>1 DEF LInv, Shapes, Holds, CommittedIsHandled, Handled
  <2>3. ~Pending(w) /\ NoOffset \notin Offset
    BY <2>1, ParametersAssumption DEF Pending, Offset
  <2>4. OwnerReadOn'
    BY <2>1, <2>3 DEF LInv, Shapes, OwnerReadOn, Handled, Pending
  <2> QED BY <2>1, <2>2, <2>4 DEF LInv, LogStep, Handled
<1>8. ASSUME NEW w \in Workers, Commit(w) \/ CommitDeadLetter(w) PROVE LInv' /\ LogStep
  <2>1. /\ Acknowledge(w) /\ pc[w] \in {"commit", "commit_dead_letter"}
        /\ UNCHANGED <<log, events, deadLetters, owner, position>>
    BY <1>8 DEF Commit, CommitDeadLetter, store
  <2> QED BY <2>1, AcknowledgeKeeps DEF LogStep, Handled
<1>9. ASSUME NEW w \in Workers, Insert(w) PROVE LInv' /\ LogStep
  <2>1. CASE Free(event[w])
    BY <1>9, <2>1, HeldMessageKeeps DEF LogStep
  <2>2. CASE ~Free(event[w])
    BY <1>1, <1>9, <2>2 DEF Insert, Die
  <2> QED BY <2>1, <2>2
<1>10. ASSUME NEW w \in Workers,
              Lookup(w) \/ SaveDeadLetter(w) \/ PublishReturns(w) \/ PublishRaisesRuntimeError(w)
       PROVE  LInv' /\ LogStep
  BY <1>10, HeldMessageKeeps DEF LogStep
<1>11. ASSUME NEW w \in Workers, Finish(w) \/ PollRaisesRuntimeError(w) \/ Escapes(w)
       PROVE  LInv' /\ LogStep
  BY <1>1, <1>11 DEF Finish, PollRaisesRuntimeError, Escapes, DecodeRaises,
    PublishRaisesTimeoutError, CommitRaises, Crash, Die, store
<1>12. ASSUME NEW e \in Events, ApiAddEvent(e) PROVE LInv' /\ LogStep
  <2>1. /\ events \subseteq events'
        /\ UNCHANGED <<log, committed, owner, position, deadLetters, pc, current, event>>
    BY <1>12 DEF ApiAddEvent, group, held
  <2>2. \A o \in Offset : Handled(o) => Handled(o)'
    BY <2>1 DEF Handled
  <2>3. Shapes' /\ Holds' /\ CommittedIsHandled'
    BY <2>1, <2>2 DEF LInv, Shapes, Holds, CommittedIsHandled
  <2>4. OwnerReadOn'
    BY <2>1, <2>2 DEF LInv, OwnerReadOn, Pending
  <2> QED BY <2>1, <2>2, <2>3, <2>4 DEF LInv, LogStep
<1>13. CASE UNCHANGED vars
  BY <1>2, <1>13 DEF vars, group, store, held
<1> QED
  BY <1>3, <1>4, <1>5, <1>6, <1>7, <1>8, <1>9, <1>10, <1>11, <1>12, <1>13
  DEF Next, Continues, Process

\* The partition is given, and add_event only adds.
LEMMA StoreOnlyGrows ==
  ASSUME [Next]_vars
  PROVE  log' = log /\ events \subseteq events'
BY DEF Next, Continues, Process, Escapes, Start, Assign, EmptyPoll, Deliver, PollError,
  Lookup, Insert, SaveDeadLetter, PublishReturns, PublishRaisesRuntimeError, Commit,
  CommitDeadLetter, DecodeRaises, PublishRaisesTimeoutError, CommitRaises, Crash, Finish,
  PollRaisesRuntimeError, ApiAddEvent, vars, store

\* No message is lost: the committed offset of the group never passes a
\* message that is neither in the store nor among the dead letters, for any
\* number of workers, messages, faults and concurrent API writes.
THEOREM NoMessageIsLost == Spec => []CommittedIsHandled
<1>1. LInv /\ [Next]_vars => LInv'
  BY StepKeeps
<1>2. LInv => CommittedIsHandled
  BY DEF LInv
<1> QED BY InitEstablishes, <1>1, <1>2, PTL DEF Spec

\* The workers implement the abstract log: its cursor is the committed offset,
\* and what it has handled is what is stored or dead-lettered.
THEOREM IngestionImplementsLog == Spec => ImplementsLog
<1>1. Init => Log!Init
  BY ParametersAssumption DEF Init, Log!Init, Handled, Offset
<1>2. LInv /\ [Next]_vars => [Log!Next]_(<<committed, {o \in Offset : Handled(o)}>>)
  <2> SUFFICES ASSUME LInv, [Next]_vars PROVE Log!Next
    OBVIOUS
  <2>1. LogStep
    BY StepKeeps
  <2>2. CASE committed' = committed /\ \A o \in Offset : Handled(o) => Handled(o)'
    BY <2>2 DEF Log!Next, Log!Handle, Log!Offset, Offset
  <2>3. CASE /\ committed' \in committed .. Length
             /\ \A o \in Offset : o < committed' => Handled(o)
             /\ \A o \in Offset : Handled(o)' <=> Handled(o)
    BY <2>3 DEF Log!Next, Log!Advance, Log!Offset, Offset
  <2> QED BY <2>1, <2>2, <2>3 DEF LogStep
<1>3. LInv /\ [Next]_vars => LInv'
  BY StepKeeps
<1> QED BY InitEstablishes, <1>1, <1>2, <1>3, PTL DEF Spec, ImplementsLog, Log!Spec

\* The committed offset never moves back: not when a worker that lost the
\* partition goes on with the message it holds, and not after a crash.
THEOREM OffsetsNeverMoveBack == Spec => CommittedNeverMovesBack
<1>1. LInv /\ [Next]_vars => [committed' >= committed]_vars
  <2> SUFFICES ASSUME LInv, [Next]_vars PROVE committed' >= committed
    OBVIOUS
  <2>1. LogStep /\ committed \in 0 .. Length
    BY StepKeeps DEF LInv, Shapes
  <2> QED BY <2>1, ParametersAssumption DEF LogStep
<1>2. LInv /\ [Next]_vars => LInv'
  BY StepKeeps
<1> QED BY InitEstablishes, <1>1, <1>2, PTL DEF Spec, CommittedNeverMovesBack

-----------------------------------------------------------------------------
(* A message is stored or dead-lettered, not both.                         *)

\* Another event is stored under the event's idempotency key.
Clashes(e) == \E f \in events : f.key = e.key /\ f # e

DeadLettered(o) == deadLetters[o] > 0 /\ log[o].kind = "event"

\* A key is stored once; a worker is about to dead-letter an event, and one is
\* dead-lettered, only when another event has its key.
KInv ==
  /\ \A e, f \in events : e.key = f.key => e = f
  /\ \A w \in Workers, o \in Offset :
       pc[w] = "dead_letter" /\ current[w] = o /\ log[o].kind = "event" => Clashes(log[o].event)
  /\ \A o \in Offset : DeadLettered(o) => Clashes(log[o].event)

\* A step after which no other worker is about to dead-letter, and which
\* leaves the dead letters as they are, only adds an event whose key is free.
LEMMA StoreGrowsKeepsKeys ==
  ASSUME LInv, KInv, UNCHANGED <<log, deadLetters>>,
         events' = events \/ (\E e : Free(e) /\ events' = events \union {e}),
         \A v \in Workers :
           pc'[v] = "dead_letter" /\ current'[v] \in Offset /\ log[current'[v]].kind = "event"
             => Clashes(log[current'[v]].event)
  PROVE  KInv'
<1>1. \A e : Clashes(e) => Clashes(e)'
  BY DEF Clashes
<1>2. \A e, f \in events' : e.key = f.key => e = f
  BY DEF KInv, Free
<1>3. \A o \in Offset : DeadLettered(o)' => Clashes(log[o].event)'
  BY <1>1 DEF KInv, DeadLettered
<1> QED BY <1>1, <1>2, <1>3 DEF KInv

LEMMA KeysKept ==
  ASSUME LInv, KInv, [Next]_vars
  PROVE  KInv'
<1>1. ASSUME UNCHANGED <<log, deadLetters, events>>, NEW w \in Workers,
             pc' = [pc EXCEPT ![w] = pc'[w]], pc'[w] # "dead_letter",
             current' = [current EXCEPT ![w] = current'[w]]
      PROVE  KInv'
  <2>1. ASSUME NEW v \in Workers, pc'[v] = "dead_letter", current'[v] \in Offset,
               log[current'[v]].kind = "event"
        PROVE  Clashes(log[current'[v]].event)
    BY <1>1, <2>1 DEF LInv, Shapes, KInv
  <2> QED BY <1>1, <2>1, StoreGrowsKeepsKeys
<1>2. ASSUME UNCHANGED <<log, deadLetters, events>>, NEW w \in Workers, Leave(w)
      PROVE  KInv'
  BY <1>1, <1>2 DEF Leave, Go, Drop, LInv, Shapes
<1>3. ASSUME UNCHANGED <<log, deadLetters, events, pc, current>> PROVE KInv'
  BY <1>3, StoreGrowsKeepsKeys DEF KInv
<1>4. ASSUME NEW w \in Workers, Start(w) \/ Assign(w) \/ EmptyPoll(w) PROVE KInv'
  BY <1>1, <1>3, <1>4 DEF Start, Assign, EmptyPoll, Go, group, store, held, LInv, Shapes
<1>5. ASSUME NEW w \in Workers, Deliver(w) PROVE KInv'
  <2> DEFINE o == position[w]
  <2>1. /\ UNCHANGED <<log, events, deadLetters>>
        /\ o \in Offset /\ current' = [current EXCEPT ![w] = o]
    BY <1>5, ParametersAssumption DEF Deliver, Receive, store, LInv, Shapes, Offset
  <2>2. log[o].kind \in {"event", "partial", "empty", "invalid", "undecodable"}
    BY <2>1, ParametersAssumption DEF LInv, Shapes, Payload
  <2>3. \E label \in {"lookup", "dead_letter", "decode"} :
          /\ pc' = [pc EXCEPT ![w] = label]
          /\ label = "dead_letter" => log[o].kind # "event"
    BY <1>5, <2>2 DEF Deliver, Classify, Branch, Go
  <2> HIDE DEF o
  <2>4. ASSUME NEW v \in Workers, pc'[v] = "dead_letter", current'[v] \in Offset,
               log[current'[v]].kind = "event"
        PROVE  Clashes(log[current'[v]].event)
    BY <2>1, <2>3, <2>4 DEF LInv, Shapes, KInv
  <2> QED BY <2>1, <2>4, StoreGrowsKeepsKeys
<1>6. ASSUME NEW w \in Workers, PollError(w) PROVE KInv'
  <2>1. /\ UNCHANGED <<log, events, deadLetters>>
        /\ pc' = [pc EXCEPT ![w] = "dead_letter"]
        /\ current' = [current EXCEPT ![w] = NoOffset]
    BY <1>6 DEF PollError, Branch, Go, Drop, store
  <2>2. NoOffset \notin Offset
    BY ParametersAssumption DEF Offset
  <2>3. ASSUME NEW v \in Workers, pc'[v] = "dead_letter", current'[v] \in Offset,
               log[current'[v]].kind = "event"
        PROVE  Clashes(log[current'[v]].event)
    BY <2>1, <2>2, <2>3 DEF LInv, Shapes, KInv
  <2> QED BY <2>1, <2>3, StoreGrowsKeepsKeys
<1>7. ASSUME NEW w \in Workers, Lookup(w) PROVE KInv'
  <2> DEFINE e == event[w]
             same == {f \in events : f.key = e.key}
  <2>1. /\ UNCHANGED <<log, events, deadLetters, current>> /\ pc[w] = "lookup"
        /\ \E label \in {"insert", "commit", "dead_letter"} :
             /\ pc' = [pc EXCEPT ![w] = label]
             /\ label = "dead_letter" => same # {} /\ same # {e}
    BY <1>7 DEF Lookup, Go, store, held
  <2>2. same # {} /\ same # {e} => Clashes(e)
    BY DEF Clashes
  <2>3. current[w] \in Offset /\ e \in Readings(log[current[w]])
    BY <2>1 DEF LInv, Holds
  <2>4. log[current[w]].kind = "event" => log[current[w]].event = e
    BY <2>3 DEF Readings
  <2> HIDE DEF e, same
  <2>5. ASSUME NEW v \in Workers, pc'[v] = "dead_letter", current'[v] \in Offset,
               log[current'[v]].kind = "event"
        PROVE  Clashes(log[current'[v]].event)
    <3>1. CASE v = w
      BY <2>1, <2>2, <2>4, <2>5, <3>1 DEF LInv, Shapes
    <3>2. CASE v # w
      BY <2>1, <2>5, <3>2 DEF LInv, Shapes, KInv
    <3> QED BY <3>1, <3>2
  <2> QED BY <2>1, <2>5, StoreGrowsKeepsKeys
<1>8. ASSUME NEW w \in Workers, Insert(w) PROVE KInv'
  <2>1. CASE Free(event[w])
    <3>1. /\ events' = events \union {event[w]}
          /\ pc' = [pc EXCEPT ![w] = "commit"]
          /\ UNCHANGED <<log, deadLetters, current>>
      BY <1>8, <2>1 DEF Insert, Go, held
    <3>2. ASSUME NEW v \in Workers, pc'[v] = "dead_letter", current'[v] \in Offset,
                 log[current'[v]].kind = "event"
          PROVE  Clashes(log[current'[v]].event)
      BY <3>1, <3>2 DEF LInv, Shapes, KInv
    <3> QED BY <2>1, <3>1, <3>2, StoreGrowsKeepsKeys
  <2>2. CASE ~Free(event[w])
    BY <1>2, <1>8, <2>2 DEF Insert, Die
  <2> QED BY <2>1, <2>2
<1>9. ASSUME NEW w \in Workers, SaveDeadLetter(w) PROVE KInv'
  <2>1. /\ UNCHANGED <<log, events, current>> /\ pc[w] = "dead_letter"
        /\ deadLetters' = [deadLetters EXCEPT ![current[w]] = @ + 1]
        /\ \E label \in {"publish", "commit_dead_letter"} : pc' = [pc EXCEPT ![w] = label]
    BY <1>9 DEF SaveDeadLetter, Go, held
  <2>2. \A e : Clashes(e)' <=> Clashes(e)
    BY <2>1 DEF Clashes
  <2>3. ASSUME NEW o \in Offset, DeadLettered(o)' PROVE Clashes(log[o].event)'
    BY <2>1, <2>2, <2>3 DEF LInv, Shapes, KInv, DeadLettered
  <2>4. ASSUME NEW v \in Workers, NEW o \in Offset,
               pc'[v] = "dead_letter", current'[v] = o, log[o].kind = "event"
        PROVE  Clashes(log[o].event)'
    BY <2>1, <2>2, <2>4 DEF LInv, Shapes, KInv
  <2> QED BY <2>1, <2>3, <2>4 DEF KInv
<1>10. ASSUME NEW w \in Workers,
              \/ PublishReturns(w) \/ PublishRaisesRuntimeError(w)
              \/ Commit(w) \/ CommitDeadLetter(w)
       PROVE  KInv'
  BY <1>1, <1>10 DEF PublishReturns, PublishRaisesRuntimeError, Commit, CommitDeadLetter,
    Acknowledge, Go, Drop, group, store, held, LInv, Shapes
<1>11. ASSUME NEW w \in Workers, Finish(w) \/ PollRaisesRuntimeError(w) \/ Escapes(w)
       PROVE  KInv'
  BY <1>2, <1>11 DEF Finish, PollRaisesRuntimeError, Escapes, DecodeRaises,
    PublishRaisesTimeoutError, CommitRaises, Crash, Die, store
<1>12. ASSUME NEW e \in Events, ApiAddEvent(e) PROVE KInv'
  <2>1. /\ Free(e) /\ events' = events \union {e}
        /\ UNCHANGED <<log, deadLetters, pc, current>>
    BY <1>12 DEF ApiAddEvent, held
  <2> QED BY <2>1, StoreGrowsKeepsKeys DEF KInv
<1>13. CASE UNCHANGED vars
  BY <1>3, <1>13 DEF vars, group, store, held
<1> QED
  BY <1>4, <1>5, <1>6, <1>7, <1>8, <1>9, <1>10, <1>11, <1>12, <1>13
  DEF Next, Continues, Process

\* No event is both stored and dead-lettered, however often it is delivered,
\* by however many workers, and whatever the API adds meanwhile: the SELECT of
\* add_event and its INSERT are separate steps, and it is the unique key that
\* keeps a conflict a conflict.
THEOREM StoredOrDead == Spec => []NeverStoredAndDead
<1>1. Init => KInv
  BY ParametersAssumption DEF Init, KInv, DeadLettered, Offset
<1>2. LInv /\ KInv /\ [Next]_vars => LInv' /\ KInv'
  BY StepKeeps, KeysKept
<1>3. LInv /\ KInv => NeverStoredAndDead
  BY DEF KInv, NeverStoredAndDead, DeadLettered, Clashes
<1> QED BY InitEstablishes, <1>1, <1>2, <1>3, PTL DEF Spec

-----------------------------------------------------------------------------
(* The report accounts for every message.                                  *)

\* The counts of a worker at a place of run: the message it holds is scanned
\* and may not be counted as added, duplicate, failed, dead-lettered or
\* published yet.
Balanced(label, r, publishes) ==
  LET open == IF label \in {"decode", "lookup", "insert", "commit"} THEN 1 ELSE 0
      unsaved == IF label = "dead_letter" THEN 1 ELSE 0
      unpublished == IF label \in {"dead_letter", "publish"} THEN 1 ELSE 0
  IN
  /\ r["scanned"] = r["ingested"] + r["duplicates"] + r["failed"] + open
  /\ r["dead_lettered"] + unsaved = r["failed"]
  /\ r["conflicts"] + r["invalid_messages"] <= r["failed"]
  /\ r["dead_letter_published"] + r["dead_letter_publish_failed"]
       + (IF publishes THEN unpublished ELSE 0) = IF publishes THEN r["failed"] ELSE 0
  /\ label = "publish" => publishes

RInv ==
  /\ report \in [Workers -> [Counters -> Nat]]
  /\ pc = [w \in Workers |-> pc[w]]
  /\ \A w \in Workers : Balanced(pc[w], report[w], w \in DlqWorkers)

\* The counters a step names grow by one, the others stay.
LEMMA IncrementedCounts ==
  ASSUME NEW counts \in [Counters -> Nat], NEW names
  PROVE  /\ Incremented(counts, names) \in [Counters -> Nat]
         /\ \A c \in Counters :
              Incremented(counts, names)[c] = IF c \in names THEN counts[c] + 1 ELSE counts[c]
BY DEF Incremented

\* A step of one worker keeps the counts when it keeps the worker's own.
LEMMA OneWorkerCounts ==
  ASSUME RInv, NEW w \in Workers, NEW label, NEW counts \in [Counters -> Nat],
         pc' = [pc EXCEPT ![w] = label], report' = [report EXCEPT ![w] = counts],
         Balanced(label, counts, w \in DlqWorkers)
  PROVE  RInv'
<1>1. /\ report' \in [Workers -> [Counters -> Nat]]
      /\ pc' = [v \in Workers |-> pc'[v]]
      /\ pc'[w] = label /\ report'[w] = counts
      /\ \A v \in Workers : v # w => pc'[v] = pc[v] /\ report'[v] = report[v]
  BY DEF RInv
<1>2. \A v \in Workers : Balanced(pc'[v], report'[v], v \in DlqWorkers)
  BY <1>1 DEF RInv
<1> QED BY <1>1, <1>2 DEF RInv

LEMMA DeadWorkerCounts ==
  ASSUME RInv, NEW w \in Workers, Die(w)
  PROVE  RInv'
<1>1. NoCounts \in [Counters -> Nat] /\ \A c \in Counters : NoCounts[c] = 0
  BY DEF NoCounts
<1>2. Balanced("stopped", NoCounts, w \in DlqWorkers)
  BY <1>1 DEF Balanced, Counters
<1> QED BY <1>1, <1>2, OneWorkerCounts DEF Die, Leave, Go

LEMMA DeliverCounts ==
  ASSUME RInv, LInv, NEW w \in Workers, Deliver(w)
  PROVE  RInv'
<1> DEFINE kept == [report[w] EXCEPT !["empty_polls"] = 0]
<1>1. position[w] \in Offset /\ pc[w] = "poll"
  BY ParametersAssumption DEF Deliver, Receive, LoopGoesOn, LInv, Shapes, Offset
<1>2. log[position[w]].kind \in {"event", "partial", "empty", "invalid", "undecodable"}
  BY <1>1, ParametersAssumption DEF LInv, Shapes, Payload
<1>3. \/ Branch(w, "lookup", {}) \/ Branch(w, "decode", {})
      \/ Branch(w, "dead_letter", {"failed", "invalid_messages"})
  BY <1>2 DEF Deliver, Classify
<1>4. kept \in [Counters -> Nat] /\ \A c \in Counters \ {"empty_polls"} : kept[c] = report[w][c]
  BY DEF RInv, Counters
<1>5. Balanced("poll", report[w], w \in DlqWorkers)
  BY <1>1 DEF RInv
<1> HIDE DEF kept
<1>6. ASSUME NEW label \in {"lookup", "decode"}, Branch(w, label, {}) PROVE RInv'
  <2> DEFINE counts == Incremented(kept, {} \union {"scanned"})
  <2>1. pc' = [pc EXCEPT ![w] = label] /\ report' = [report EXCEPT ![w] = counts]
    BY <1>6 DEF Branch, Go, kept, RInv
  <2>2. /\ counts \in [Counters -> Nat]
        /\ \A c \in Counters : counts[c] = IF c = "scanned" THEN kept[c] + 1 ELSE kept[c]
    BY <1>4, IncrementedCounts
  <2> HIDE DEF counts
  <2>3. Balanced(label, counts, w \in DlqWorkers)
    BY <1>4, <1>5, <2>2 DEF Balanced, Counters, RInv
  <2> QED BY <2>1, <2>2, <2>3, OneWorkerCounts
<1>7. ASSUME Branch(w, "dead_letter", {"failed", "invalid_messages"}) PROVE RInv'
  <2> DEFINE counts == Incremented(kept, {"failed", "invalid_messages"} \union {"scanned"})
  <2>1. /\ pc' = [pc EXCEPT ![w] = "dead_letter"]
        /\ report' = [report EXCEPT ![w] = counts]
    BY <1>7 DEF Branch, Go, kept, RInv
  <2>2. /\ counts \in [Counters -> Nat]
        /\ \A c \in Counters :
             counts[c] = IF c \in {"failed", "invalid_messages", "scanned"}
                           THEN kept[c] + 1 ELSE kept[c]
    BY <1>4, IncrementedCounts
  <2> HIDE DEF counts
  <2>3. Balanced("dead_letter", counts, w \in DlqWorkers)
    BY <1>4, <1>5, <2>2 DEF Balanced, Counters, RInv
  <2> QED BY <2>1, <2>2, <2>3, OneWorkerCounts
<1> QED BY <1>3, <1>6, <1>7

\* A step of w that counts `names`.
LEMMA CountingStep ==
  ASSUME RInv, NEW w \in Workers, NEW label, NEW names, Go(w, label), Count(w, names),
         Balanced(label, Incremented(report[w], names), w \in DlqWorkers)
  PROVE  RInv'
<1>1. report[w] \in [Counters -> Nat]
  BY DEF RInv
<1> QED BY <1>1, IncrementedCounts, OneWorkerCounts DEF Go, Count, RInv

\* A step of w that counts nothing.
LEMMA UncountedStep ==
  ASSUME RInv, NEW w \in Workers, NEW label, Go(w, label), UNCHANGED report,
         Balanced(label, report[w], w \in DlqWorkers)
  PROVE  RInv'
<1>1. report[w] \in [Counters -> Nat] /\ report' = [report EXCEPT ![w] = report[w]]
  BY DEF RInv
<1> QED BY <1>1, OneWorkerCounts DEF Go

LEMMA CountsKept ==
  ASSUME RInv, LInv, [Next]_vars
  PROVE  RInv'
<1> USE IncrementedCounts
<1>1. ASSUME NEW w \in Workers
      PROVE  report[w] \in [Counters -> Nat] /\ Balanced(pc[w], report[w], w \in DlqWorkers)
  BY DEF RInv
<1>2. CASE UNCHANGED <<pc, report>>
  BY <1>2 DEF RInv
<1>3. ASSUME NEW w \in Workers, Start(w) PROVE RInv'
  <2>1. NoCounts \in [Counters -> Nat] /\ \A c \in Counters : NoCounts[c] = 0
    BY DEF NoCounts
  <2>2. Balanced("poll", NoCounts, w \in DlqWorkers)
    BY <2>1 DEF Balanced, Counters
  <2> QED BY <1>3, <2>1, <2>2, OneWorkerCounts DEF Start, Go
<1>4. ASSUME NEW w \in Workers, EmptyPoll(w) PROVE RInv'
  <2>1. Go(w, "poll") /\ Count(w, {"empty_polls"}) /\ pc[w] = "poll"
    BY <1>4 DEF EmptyPoll, LoopGoesOn, Go, RInv
  <2>2. Balanced("poll", Incremented(report[w], {"empty_polls"}), w \in DlqWorkers)
    BY <1>1, <2>1 DEF Balanced, Counters
  <2> QED BY <2>1, <2>2, CountingStep
<1>5. ASSUME NEW w \in Workers, PollError(w) PROVE RInv'
  <2> DEFINE kept == [report[w] EXCEPT !["empty_polls"] = 0]
             counts == Incremented(kept, {"failed"} \union {"scanned"})
  <2>1. kept \in [Counters -> Nat] /\ \A c \in Counters \ {"empty_polls"} : kept[c] = report[w][c]
    BY <1>1 DEF Counters
  <2>2. /\ pc[w] = "poll" /\ pc' = [pc EXCEPT ![w] = "dead_letter"]
        /\ report' = [report EXCEPT ![w] = counts]
    BY <1>5 DEF PollError, LoopGoesOn, Branch, Go, RInv
  <2>3. /\ counts \in [Counters -> Nat]
        /\ \A c \in Counters :
             counts[c] = IF c \in {"failed", "scanned"} THEN kept[c] + 1 ELSE kept[c]
    BY <2>1
  <2> HIDE DEF kept, counts
  <2>4. report[w] \in [Counters -> Nat] /\ Balanced("poll", report[w], w \in DlqWorkers)
    BY <1>1, <2>2
  <2>5. /\ counts["scanned"] = report[w]["scanned"] + 1
        /\ counts["failed"] = report[w]["failed"] + 1
        /\ \A c \in Counters \ {"scanned", "failed", "empty_polls"} : counts[c] = report[w][c]
    BY <2>1, <2>3 DEF Counters
  <2>6. Balanced("dead_letter", counts, w \in DlqWorkers)
    BY ONLY <2>4, <2>5 DEF Balanced, Counters
  <2> QED BY <2>2, <2>3, <2>6, OneWorkerCounts
<1>6. ASSUME NEW w \in Workers, Lookup(w) PROVE RInv'
  <2>1. ASSUME NEW label \in {"insert", "commit"}, Go(w, label), UNCHANGED report PROVE RInv'
    <3>1. pc[w] = "lookup" /\ (label = "insert" \/ label = "commit")
      BY <1>6, <2>1 DEF Lookup
    <3>2. Balanced("lookup", report[w], w \in DlqWorkers)
      BY <1>1, <3>1
    <3>3. Balanced(label, report[w], w \in DlqWorkers)
      BY <3>1, <3>2 DEF Balanced
    <3> QED BY <2>1, <3>3, UncountedStep
  <2>2. ASSUME Go(w, "dead_letter"), Count(w, ConflictCounts) PROVE RInv'
    <3> DEFINE counts == Incremented(report[w], ConflictCounts)
    <3>1. \A c \in Counters :
            counts[c] = IF c \in {"failed", "conflicts"} THEN report[w][c] + 1 ELSE report[w][c]
      BY <1>1 DEF ConflictCounts
    <3> HIDE DEF counts
    <3>2. Balanced("dead_letter", counts, w \in DlqWorkers)
      BY <1>1, <1>6, <3>1 DEF Lookup, Balanced, Counters
    <3> QED BY <2>2, <3>2, CountingStep DEF counts
  <2> QED BY <1>6, <2>1, <2>2 DEF Lookup
<1>7. ASSUME NEW w \in Workers, Insert(w) PROVE RInv'
  <2>1. CASE Free(event[w])
    <3>1. Go(w, "commit") /\ UNCHANGED report /\ pc[w] = "insert"
      BY <1>7, <2>1 DEF Insert
    <3>2. Balanced("commit", report[w], w \in DlqWorkers)
      BY <1>1, <3>1 DEF Balanced
    <3> QED BY <3>1, <3>2, UncountedStep
  <2>2. CASE ~Free(event[w])
    BY <1>7, <2>2, DeadWorkerCounts DEF Insert
  <2> QED BY <2>1, <2>2
<1>8. ASSUME NEW w \in Workers, SaveDeadLetter(w) PROVE RInv'
  <2>1. /\ pc[w] = "dead_letter" /\ Count(w, {"dead_lettered"})
        /\ Go(w, IF w \in DlqWorkers THEN "publish" ELSE "commit_dead_letter")
    BY <1>8 DEF SaveDeadLetter
  <2>2. Balanced(IF w \in DlqWorkers THEN "publish" ELSE "commit_dead_letter",
                 Incremented(report[w], {"dead_lettered"}), w \in DlqWorkers)
    BY <1>1, <2>1 DEF Balanced, Counters
  <2> QED BY <2>1, <2>2, CountingStep
<1>9. ASSUME NEW w \in Workers, PublishReturns(w) PROVE RInv'
  <2>1. pc[w] = "publish" /\ Count(w, {"dead_letter_published"}) /\ Go(w, "commit_dead_letter")
    BY <1>9 DEF PublishReturns
  <2>2. Balanced("commit_dead_letter", Incremented(report[w], {"dead_letter_published"}),
                 w \in DlqWorkers)
    BY <1>1, <2>1 DEF Balanced, Counters
  <2> QED BY <2>1, <2>2, CountingStep
<1>10. ASSUME NEW w \in Workers, PublishRaisesRuntimeError(w) PROVE RInv'
  <2>1. pc[w] = "publish" /\ Count(w, {"dead_letter_publish_failed"}) /\ Go(w, "poll")
    BY <1>10 DEF PublishRaisesRuntimeError
  <2>2. Balanced("poll", Incremented(report[w], {"dead_letter_publish_failed"}), w \in DlqWorkers)
    BY <1>1, <2>1 DEF Balanced, Counters
  <2> QED BY <2>1, <2>2, CountingStep
<1>11. ASSUME NEW w \in Workers, Commit(w) PROVE RInv'
  <2>1. /\ pc[w] = "commit" /\ Go(w, "poll")
        /\ Count(w, {"duplicates"}) \/ Count(w, {"ingested"})
    BY <1>11 DEF Commit, Acknowledge
  <2>2. Balanced("poll", Incremented(report[w], {"duplicates"}), w \in DlqWorkers)
    BY <1>1, <2>1 DEF Balanced, Counters
  <2>3. Balanced("poll", Incremented(report[w], {"ingested"}), w \in DlqWorkers)
    <3> DEFINE counts == Incremented(report[w], {"ingested"})
    <3>1. \A c \in Counters :
            counts[c] = IF c = "ingested" THEN report[w][c] + 1 ELSE report[w][c]
      BY <1>1
    <3> HIDE DEF counts
    <3>2. report[w] \in [Counters -> Nat] /\ Balanced("commit", report[w], w \in DlqWorkers)
      BY <1>1, <2>1
    <3>3. Balanced("poll", counts, w \in DlqWorkers)
      BY ONLY <3>1, <3>2 DEF Balanced, Counters
    <3> QED BY <3>3 DEF counts
  <2>4. Go(w, "poll") /\ Count(w, {"duplicates"}) => RInv'
    BY <2>2, CountingStep
  <2>5. Go(w, "poll") /\ Count(w, {"ingested"}) => RInv'
    BY <2>3, CountingStep
  <2> QED BY <2>1, <2>4, <2>5
<1>12. ASSUME NEW w \in Workers, CommitDeadLetter(w) PROVE RInv'
  <2>1. pc[w] = "commit_dead_letter" /\ Go(w, "poll") /\ UNCHANGED report
    BY <1>12 DEF CommitDeadLetter, Acknowledge
  <2>2. Balanced("poll", report[w], w \in DlqWorkers)
    BY <1>1, <2>1 DEF Balanced
  <2> QED BY <2>1, <2>2, UncountedStep
<1>13. ASSUME NEW w \in Workers, Finish(w) PROVE RInv'
  <2>1. pc[w] = "poll" /\ Go(w, "stopped") /\ UNCHANGED report
    BY <1>13 DEF Finish, Leave
  <2>2. Balanced("stopped", report[w], w \in DlqWorkers)
    BY <1>1, <2>1 DEF Balanced
  <2> QED BY <2>1, <2>2, UncountedStep
<1>14. ASSUME NEW w \in Workers, PollRaisesRuntimeError(w) \/ Escapes(w) PROVE RInv'
  BY <1>14, DeadWorkerCounts DEF PollRaisesRuntimeError, Escapes, DecodeRaises,
    PublishRaisesTimeoutError, CommitRaises, Crash
<1>15. ASSUME NEW w \in Workers, Assign(w) PROVE RInv'
  BY <1>2, <1>15 DEF Assign
<1>16. ASSUME NEW e \in Events, ApiAddEvent(e) PROVE RInv'
  BY <1>2, <1>16 DEF ApiAddEvent
<1>17. CASE UNCHANGED vars
  BY <1>2, <1>17 DEF vars
<1> QED
  BY <1>3, <1>4, <1>5, <1>6, <1>7, <1>8, <1>9, <1>10, <1>11, <1>12, <1>13, <1>14, <1>15,
     <1>16, <1>17, DeliverCounts
  DEF Next, Continues, Process

\* The report of a run, at its end and between any two messages, accounts for
\* every message scanned and for every failed one, through crashes, failed
\* publishes and lost partitions.
THEOREM ReportsAddUp == Spec => []ReportAddsUp
<1>1. Init => RInv
  <2> SUFFICES ASSUME Init PROVE RInv
    OBVIOUS
  <2>1. NoCounts \in [Counters -> Nat] /\ \A c \in Counters : NoCounts[c] = 0
    BY DEF NoCounts
  <2>2. \A w \in Workers : Balanced("stopped", NoCounts, w \in DlqWorkers)
    BY <2>1 DEF Balanced, Counters
  <2> QED BY <2>1, <2>2 DEF Init, RInv
<1>2. LInv /\ RInv /\ [Next]_vars => LInv' /\ RInv'
  BY StepKeeps, CountsKept
<1>3. RInv => ReportAddsUp
  BY DEF RInv, Balanced, ReportAddsUp, Counters
<1> QED BY InitEstablishes, <1>1, <1>2, <1>3, PTL DEF Spec
=============================================================================
