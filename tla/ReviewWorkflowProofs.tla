------------------------ MODULE ReviewWorkflowProofs ------------------------
(* What holds of Scoring, ReviewWorkflow and Workbench for any number of   *)
(* threads, requests, incidents, events, selections and any threshold      *)
(* policy.                                                                 *)
EXTENDS Workbench, TLAPS

-----------------------------------------------------------------------------
(* Scoring.                                                                *)

\* Severities are summed up to a natural number, whichever signals are raised.
LEMMA TotalIsNat == \A raised : Total(raised) \in Nat
  BY PolicyAssumption DEF Total, Severity

\* The sum is at least that of any one signal; the one that matters is 100.
LEMMA ConfirmedFraudIs100 ==
  \A raised : raised["CONFIRMED_FRAUD_LABEL"] => Total(raised) >= 100
  BY PolicyAssumption DEF Total, Severity

\* A score lies between 0 and 100, also one that the degraded floor lifts.
LEMMA ScoreIsBounded == \A raised, degraded : RiskScore(raised, degraded) \in 0 .. 100
  BY TotalIsNat, PolicyAssumption DEF RiskScore, AtMost100

\* The bands of a policy leave no score without an action.
LEMMA ActionIsDefined ==
  \A score \in 0 .. 100 : \A degraded \in BOOLEAN :
    Action(score, degraded) \in {"APPROVE", "MANUAL_REVIEW", "BLOCK"}
  BY PolicyAssumption DEF Action

\* What preview computes can be stored.
LEMMA PreviewIsTyped ==
  \A E, target, asOf, large :
    /\ Preview(E, target, asOf, large).score \in 0 .. 100
    /\ Preview(E, target, asOf, large).action \in {"APPROVE", "MANUAL_REVIEW", "BLOCK"}
<1> SUFFICES ASSUME NEW E, NEW target, NEW asOf, NEW large
             PROVE  /\ Preview(E, target, asOf, large).score \in 0 .. 100
                    /\ Preview(E, target, asOf, large).action
                         \in {"APPROVE", "MANUAL_REVIEW", "BLOCK"}
  OBVIOUS
<1> DEFINE raised == Raised(Features(E, target, asOf),
                            DistanceToConfirmedFraud(E, target), large)
           score == RiskScore(raised, IsDegraded(target))
<1>1. score \in 0 .. 100
  BY ScoreIsBounded
<1>2. IsDegraded(target) \in BOOLEAN
  BY DEF IsDegraded
<1>3. Action(score, IsDegraded(target)) \in {"APPROVE", "MANUAL_REVIEW", "BLOCK"}
  BY <1>1, <1>2, ActionIsDefined
<1>4. Preview(E, target, asOf, large) = [score |-> score, action |-> Action(score, IsDegraded(target))]
  BY DEF Preview
<1> HIDE DEF score
<1> QED BY <1>1, <1>3, <1>4

\* A user with a fraud label known at as_of gets the score 100, which every
\* policy blocks: RedMin is at most 100 and a user's features are fresh.
LEMMA LabelledUserIsBlocked ==
  ASSUME NEW E, NEW target, NEW asOf, NEW large,
         target = Entity("USER", target.id),
         NEW l \in OfType(E, {"LABEL_CREATED"}),
         l.payload.label_value = "FRAUD", l.at <= asOf, target \in Refs(l)
  PROVE  Preview(E, target, asOf, large).action = "BLOCK"
<1> DEFINE f == Features(E, target, asOf)
           raised == Raised(f, DistanceToConfirmedFraud(E, target), large)
<1>1. target.type = "USER"
  BY DEF Entity
<1>2. f.confirmed_fraud_label
  BY DEF Features, OfType, Known
<1>3. raised["CONFIRMED_FRAUD_LABEL"]
  BY <1>2 DEF Raised
<1>4. RiskScore(raised, IsDegraded(target)) = 100
  BY <1>1, <1>3, ConfirmedFraudIs100, TotalIsNat DEF RiskScore, AtMost100, IsDegraded
<1>5. Action(100, FALSE) = "BLOCK"
  BY PolicyAssumption DEF Action
<1> QED BY <1>1, <1>4, <1>5 DEF Preview, IsDegraded
-----------------------------------------------------------------------------
(* Type correctness.                                                       *)

\* Stamps stay stamps as the clock advances.
LEMMA StampsGrow ==
  ASSUME clock \in Nat, clock' \in Nat, clock <= clock'
  PROVE  /\ Stamp \subseteq Stamp'
         /\ Decision \subseteq Decision' /\ Case \subseteq Case' /\ Review \subseteq Review'
<1>1. Stamp \subseteq Stamp'
  BY DEF Stamp
<1>2. (0 - MaxLag) .. clock \subseteq (0 - MaxLag) .. clock'
  BY ReviewAssumption
<1> QED BY <1>1, <1>2 DEF Decision, Case, Review

\* A step of one thread that leaves it with an object that fits its label.
LEMMA ThreadStep ==
  ASSUME ThreadsOK, clock \in Nat, clock' \in Nat, clock <= clock',
         NEW t \in Threads, NEW label, NEW object,
         label \in {"idle", "save_decision", "get_decision", "save_case",
                   "save_review", "add_review_event", "add_label"},
         Go(t, label), Hold(t, object),
         label = "idle" => object = Nothing,
         label \in {"save_decision", "get_decision"} => object \in Decision',
         label = "save_case" => object \in Case',
         label \in {"save_review", "add_review_event", "add_label"} => object \in Review'
  PROVE  ThreadsOK'
<1>1. pc' \in [Threads -> {"idle", "save_decision", "get_decision", "save_case",
                         "save_review", "add_review_event", "add_label"}]
  BY DEF ThreadsOK, Go, Hold
<1>2. object \in Decision' \union Case' \union Review' \union {Nothing}
  OBVIOUS
<1>3. held' \in [Threads -> Decision' \union Case' \union Review' \union {Nothing}]
  BY <1>2, StampsGrow DEF ThreadsOK, Go, Hold
<1>4. ASSUME NEW u \in Threads PROVE Fits(pc[u], held[u])'
  <2>1. CASE u = t
    BY <2>1 DEF ThreadsOK, Fits, Go, Hold
  <2>2. CASE u # t
    BY <2>2, StampsGrow DEF ThreadsOK, Fits, Go, Hold
  <2> QED BY <2>1, <2>2
<1> QED BY <1>1, <1>3, <1>4 DEF ThreadsOK, Go, Hold

\* The tables survive a step that leaves them alone.
LEMMA TablesKept ==
  ASSUME TablesOK, UNCHANGED tables, clock \in Nat, clock' \in Nat, clock <= clock'
  PROVE  TablesOK'
<1>1. Stamp \subseteq Stamp'
  BY StampsGrow
<1>2. \A e \in events' \ Observed :
        /\ e.type \in {"MANUAL_REVIEW_DECIDED", "LABEL_CREATED"}
        /\ e.key \in {"review", "label"} \X Stamp' /\ e.at \in Stamp'
  BY <1>1 DEF TablesOK, tables
<1>3. decisions' \subseteq Decision' /\ cases' \subseteq Case' /\ reviews' \subseteq Review'
  BY StampsGrow DEF TablesOK, tables
<1> QED BY <1>2, <1>3 DEF TablesOK

\* What a thread holds carries stamps that were taken.
LEMMA HeldStamps ==
  ASSUME ThreadsOK, NEW t \in Threads
  PROVE  Stamps(t) \subseteq Stamp
BY DEF ThreadsOK, Fits, Stamps, Decision, Case, Review

\* The closed case is a case.
LEMMA ClosedIsCase ==
  ASSUME NEW c \in Case, NEW r
  PROVE  /\ Closed(c, r) \in Case /\ Closed(c, r).id = c.id
         /\ Closed(c, r).status = "closed" /\ Closed(c, r).decision_id = c.decision_id
BY DEF Closed, Case

\* An event that decide appends has its type.
LEMMA AppendedEventIsTyped ==
  ASSUME NEW e, TablesOK, AddEvent(e), UNCHANGED <<decisions, cases, reviews, clock>>,
         e.type \in {"MANUAL_REVIEW_DECIDED", "LABEL_CREATED"},
         e.key \in {"review", "label"} \X Stamp, e.at \in Stamp
  PROVE  TablesOK'
<1>1. events' \subseteq events \union {e}
  BY DEF AddEvent
<1> QED BY <1>1 DEF TablesOK, Stamp, Decision, Case, Review

-----------------------------------------------------------------------------

\* One step of a scoring thread.
LEMMA ScoreKeepsTypes ==
  ASSUME TypeOK, NEW s \in Scorers, Score(s)
  PROVE  TypeOK'
<1> s \in Threads
  BY DEF Threads
<1> USE DEF TypeOK
<1>1. ASSUME NEW surface, NEW target \in Targets, NEW asOf \in AsOf(surface),
             NEW large, MakeDecision(s, surface, target, asOf, large)
      PROVE  TypeOK'
  <2> DEFINE d == Preview(events, target, asOf, large)
  <2> PICK object : object = [id |-> clock + 1, target |-> target, as_of |-> asOf,
                              risk_score |-> d.score, action |-> d.action]
    OBVIOUS
  <2>1. clock \in Nat /\ clock' = clock + 1
    BY <1>1 DEF MakeDecision, Tick, CountersOK
  <2>2. asOf \in ((0 - MaxLag) .. clock)' /\ clock + 1 \in Stamp'
    <3>1. asOf \in (0 - MaxLag) .. clock
      BY <2>1, ReviewAssumption DEF AsOf, TablesOK, Stamp
    <3> QED BY <2>1, <3>1, ReviewAssumption DEF Stamp
  <2>3. object \in Decision'
    BY <2>2, PreviewIsTyped DEF Decision
  <2>5. Go(s, "save_decision") /\ Hold(s, object)
    BY <1>1 DEF MakeDecision
  <2>6. ThreadsOK'
    BY <2>1, <2>3, <2>5, ThreadStep
  <2>7. TablesOK'
    BY <1>1, <2>1, TablesKept DEF MakeDecision
  <2>8. CountersOK'
    BY <1>1, <2>1, ReviewAssumption DEF MakeDecision, CountersOK, history, Stamp
  <2> QED BY <2>6, <2>7, <2>8
<1>2. CASE SaveDecision(s)
  <2>1. clock \in Nat /\ clock' = clock
    BY <1>2 DEF SaveDecision, CountersOK
  <2>2. held[s] \in Decision
    BY <1>2 DEF SaveDecision, ThreadsOK, Fits
  <2>3. ThreadsOK'
    <3>1. CASE held[s].id \in from_cli
      <4>1. Go(s, "idle") /\ Hold(s, Nothing)
        BY <1>2, <3>1 DEF SaveDecision, End
      <4> QED BY <2>1, <4>1, ThreadStep
    <3>2. CASE held[s].id \notin from_cli
      <4>1. Go(s, "get_decision") /\ Hold(s, held[s])
        BY <1>2, <3>2 DEF SaveDecision, ThreadsOK, Hold
      <4>2. held[s] \in Decision'
        BY <2>1, <2>2, StampsGrow
      <4> QED BY <2>1, <4>1, <4>2, ThreadStep
    <3> QED BY <3>1, <3>2
  <2>4. TablesOK'
    BY <1>2, <2>1, <2>2 DEF SaveDecision, TablesOK, Stamp, Decision, Case, Review
  <2>5. CountersOK'
    BY <1>2 DEF SaveDecision, CountersOK, history, Stamp
  <2> QED BY <2>3, <2>4, <2>5
<1>3. CASE GetDecision(s)
  <2>1. clock \in Nat /\ clock' \in Nat /\ clock <= clock'
    BY <1>3 DEF GetDecision, Tick, CountersOK
  <2>2. held[s] \in Decision
    BY <1>3 DEF GetDecision, ThreadsOK, Fits
  <2>3. ThreadsOK'
    <3>1. CASE held[s] \in decisions /\ NeedsCase(held[s])
      <4>1. PICK object : object =
              [id |-> clock + 1, decision_id |-> held[s].id,
               target_entity_id |-> held[s].target.id,
               priority |-> held[s].risk_score, status |-> "open"]
        OBVIOUS
      <4>2. clock' = clock + 1 /\ clock + 1 \in Stamp' /\ held[s].id \in Stamp'
        BY <1>3, <2>1, <2>2, <3>1 DEF GetDecision, Tick, Stamp, Decision
      <4>3. object \in Case'
        BY <2>2, <4>1, <4>2 DEF Case, Decision
      <4>4. Go(s, "save_case") /\ Hold(s, object)
        BY <1>3, <3>1, <4>1 DEF GetDecision
      <4> QED BY <2>1, <4>3, <4>4, ThreadStep
    <3>2. CASE ~(held[s] \in decisions /\ NeedsCase(held[s]))
      <4>1. Go(s, "idle") /\ Hold(s, Nothing)
        BY <1>3, <3>2 DEF GetDecision, End
      <4> QED BY <2>1, <4>1, ThreadStep
    <3> QED BY <3>1, <3>2
  <2>4. TablesOK'
    BY <1>3, <2>1, TablesKept DEF GetDecision
  <2>5. CountersOK'
    BY <1>3, <2>1 DEF GetDecision, CountersOK, history, Stamp
  <2> QED BY <2>3, <2>4, <2>5
<1>4. CASE SaveReviewCase(s)
  <2>1. clock \in Nat /\ clock' = clock
    BY <1>4 DEF SaveReviewCase, CountersOK
  <2>2. held[s] \in Case
    BY <1>4 DEF SaveReviewCase, ThreadsOK, Fits
  <2>3. ThreadsOK'
    <3>1. Go(s, "idle") /\ Hold(s, Nothing)
      BY <1>4 DEF SaveReviewCase, End
    <3> QED BY <2>1, <3>1, ThreadStep
  <2>4. TablesOK'
    BY <1>4, <2>1, <2>2 DEF SaveReviewCase, TablesOK, Stamp, Decision, Case, Review
  <2>5. CountersOK'
    BY <1>4 DEF SaveReviewCase, CountersOK, history, Stamp
  <2> QED BY <2>3, <2>4, <2>5
<1> QED BY <1>1, <1>2, <1>3, <1>4 DEF Score

\* One step of an analyst's thread.
LEMMA DecideKeepsTypes ==
  ASSUME TypeOK, NEW a \in Analysts, Decide(a)
  PROVE  TypeOK'
<1> a \in Threads
  BY DEF Threads
<1> USE DEF TypeOK
<1>1. ASSUME NEW case \in cases, NEW outcome \in Outcomes, ReadCase(a, case, outcome)
      PROVE  TypeOK'
  <2>1. clock \in Nat /\ clock' = clock + 1
    BY <1>1 DEF ReadCase, Tick, CountersOK
  <2>2. PICK object : object = [id |-> clock + 1, case_id |-> case.id, outcome |-> outcome,
                                target |-> Entity("USER", case.target_entity_id)]
    OBVIOUS
  <2>3. case \in Case
    BY DEF TablesOK
  <2>4. PICK e \in Targets : case.target_entity_id = e.id
    BY <2>3 DEF Case
  <2>5. clock + 1 \in Stamp' /\ case.id \in Stamp'
    BY <2>1, <2>3 DEF Stamp, Case
  <2>6. object \in Review'
    BY <2>2, <2>4, <2>5 DEF Review
  <2>7. Go(a, "save_review") /\ Hold(a, object)
    BY <1>1, <2>2 DEF ReadCase
  <2>8. ThreadsOK'
    BY <2>1, <2>6, <2>7, ThreadStep
  <2>9. TablesOK'
    BY <1>1, <2>1, TablesKept DEF ReadCase
  <2>10. CountersOK'
    BY <1>1, <2>1, ReviewAssumption DEF ReadCase, CountersOK, history, Stamp
  <2> QED BY <2>8, <2>9, <2>10
<1>2. CASE SaveReviewDecision(a)
  <2>1. clock \in Nat /\ clock' = clock
    BY <1>2 DEF SaveReviewDecision, CountersOK
  <2>2. held[a] \in Review /\ held[a] \in Review'
    BY <1>2, <2>1, StampsGrow DEF SaveReviewDecision, ThreadsOK, Fits
  <2>3. ThreadsOK'
    <3>1. Go(a, "add_review_event") /\ Hold(a, held[a])
      BY <1>2 DEF SaveReviewDecision, Hold, ThreadsOK
    <3> QED BY <2>1, <2>2, <3>1, ThreadStep
  <2>4. TablesOK'
    <3>1. cases' \subseteq Case
      BY <1>2, ClosedIsCase DEF SaveReviewDecision, TablesOK
    <3>2. reviews' \subseteq Review
      BY <1>2, <2>2 DEF SaveReviewDecision, TablesOK
    <3> QED BY <1>2, <2>1, <3>1, <3>2 DEF SaveReviewDecision, TablesOK, Stamp, Decision, Case, Review
  <2>5. CountersOK'
    BY <1>2 DEF SaveReviewDecision, CountersOK, history, Stamp
  <2> QED BY <2>3, <2>4, <2>5
<1>3. CASE AddReviewEvent(a)
  <2>1. clock \in Nat /\ clock' = clock
    BY <1>3 DEF AddReviewEvent, CountersOK
  <2>2. held[a] \in Review /\ held[a] \in Review'
    BY <1>3, <2>1, StampsGrow DEF AddReviewEvent, ThreadsOK, Fits
  <2>3. ThreadsOK'
    <3>1. CASE IsFinal(held[a]) /\ ~Refused(ReviewEvent(held[a]))
      <4>1. Go(a, "add_label") /\ Hold(a, held[a])
        BY <1>3, <3>1 DEF AddReviewEvent, Hold, ThreadsOK
      <4> QED BY <2>1, <2>2, <4>1, ThreadStep
    <3>2. CASE ~(IsFinal(held[a]) /\ ~Refused(ReviewEvent(held[a])))
      <4>1. Go(a, "idle") /\ Hold(a, Nothing)
        BY <1>3, <3>2 DEF AddReviewEvent, End
      <4> QED BY <2>1, <4>1, ThreadStep
    <3> QED BY <3>1, <3>2
  <2>4. TablesOK'
    <3>1. PICK e : e = ReviewEvent(held[a])
      OBVIOUS
    <3>2. /\ e.type \in {"MANUAL_REVIEW_DECIDED", "LABEL_CREATED"}
          /\ e.key \in {"review", "label"} \X Stamp /\ e.at \in Stamp
      BY <2>2, <3>1 DEF ReviewEvent, Review
    <3>3. AddEvent(e)
      BY <1>3, <3>1 DEF AddReviewEvent
    <3> QED BY <1>3, <3>2, <3>3, AppendedEventIsTyped DEF AddReviewEvent
  <2>5. CountersOK'
    BY <1>3 DEF AddReviewEvent, CountersOK, history, Stamp
  <2> QED BY <2>3, <2>4, <2>5
<1>4. CASE AddLabel(a)
  <2>1. clock \in Nat /\ clock' = clock
    BY <1>4 DEF AddLabel, CountersOK
  <2>2. held[a] \in Review
    BY <1>4 DEF AddLabel, ThreadsOK, Fits
  <2>3. ThreadsOK'
    <3>1. Go(a, "idle") /\ Hold(a, Nothing)
      BY <1>4 DEF AddLabel, End
    <3> QED BY <2>1, <3>1, ThreadStep
  <2>4. TablesOK'
    <3>1. PICK e : e = LabelEvent(held[a])
      OBVIOUS
    <3>2. /\ e.type \in {"MANUAL_REVIEW_DECIDED", "LABEL_CREATED"}
          /\ e.key \in {"review", "label"} \X Stamp /\ e.at \in Stamp
      BY <2>2, <3>1 DEF LabelEvent, LabelKey, Review
    <3>3. AddEvent(e)
      BY <1>4, <3>1 DEF AddLabel
    <3> QED BY <1>4, <3>2, <3>3, AppendedEventIsTyped DEF AddLabel
  <2>5. CountersOK'
    BY <1>4 DEF AddLabel, CountersOK, history, Stamp
  <2> QED BY <2>3, <2>4, <2>5
<1> QED BY <1>1, <1>2, <1>3, <1>4 DEF Decide

\* Every state of the tables, of the threads and of the counters has its
\* type: scores stay between 0 and 100, cases are open or closed, and what a
\* thread holds is what its next step needs.
THEOREM TypeCorrect == Spec => []TypeOK
<1>1. Init => TypeOK
  <2> SUFFICES ASSUME Init PROVE TypeOK
    OBVIOUS
  <2>1. TablesOK
    BY DEF Init, TablesOK
  <2>2. ThreadsOK
    BY DEF Init, ThreadsOK, Fits
  <2>3. CountersOK
    BY ReviewAssumption DEF Init, CountersOK
  <2> QED BY <2>1, <2>2, <2>3 DEF TypeOK
<1>2. TypeOK /\ [Next]_vars => TypeOK'
  <2> SUFFICES ASSUME TypeOK, [Next]_vars PROVE TypeOK'
    OBVIOUS
  <2> USE DEF TypeOK
  <2>1. CASE Ingest
    <3>1. TablesOK'
      BY <2>1 DEF Ingest, TablesOK, Stamp, Decision, Case, Review
    <3>2. ThreadsOK'
      BY <2>1 DEF Ingest, ThreadsOK, threads, Fits, Stamp, Decision, Case, Review
    <3>3. CountersOK'
      BY <2>1 DEF Ingest, CountersOK, history, Stamp
    <3> QED BY <3>1, <3>2, <3>3
  <2>2. ASSUME NEW s \in Scorers, Score(s) PROVE TypeOK'
    BY <2>2, ScoreKeepsTypes
  <2>3. ASSUME NEW a \in Analysts, Decide(a) PROVE TypeOK'
    BY <2>3, DecideKeepsTypes
  <2>4. ASSUME NEW t \in Threads, Crash(t) PROVE TypeOK'
    <3>1. clock \in Nat /\ clock' = clock
      BY <2>4 DEF Crash, CountersOK
    <3>2. Go(t, "idle") /\ Hold(t, Nothing)
      BY <2>4 DEF Crash, End
    <3>3. ThreadsOK'
      BY <3>1, <3>2, ThreadStep
    <3>4. TablesOK'
      BY <2>4, <3>1, TablesKept DEF Crash
    <3>5. CountersOK'
      BY <2>4, <3>1, HeldStamps, ReviewAssumption DEF Crash, Incident, CountersOK, Stamp
    <3> QED BY <3>3, <3>4, <3>5
  <2>5. ASSUME NEW asOf \in 1 .. clock + 1, NEW kept \in Periods, PruneRetention(asOf, kept)
        PROVE  TypeOK'
    <3>1. TablesOK'
      BY <2>5 DEF PruneRetention, From, Since, TablesOK, Stamp, Decision, Case, Review
    <3>2. ThreadsOK'
      BY <2>5 DEF PruneRetention, ThreadsOK, threads, Fits, Stamp, Decision, Case, Review
    <3>3. forgotten' \in [events : SUBSET Int, cases : SUBSET Int, reviews : SUBSET Int]
      <4>1. \A e \in events : e.at \in Int
        BY ReviewAssumption DEF TablesOK, Stamp
      <4>2. (\A c \in cases : c.decision_id \in Int) /\ (\A r \in reviews : r.id \in Int)
        BY DEF TablesOK, Case, Review, Stamp
      <4> QED BY <2>5, <4>1, <4>2 DEF PruneRetention, CountersOK
    <3>4. disturbed' \subseteq Stamp' /\ clock' = clock
      BY <2>5, HeldStamps DEF PruneRetention, Deleted, CountersOK, Stamp
    <3>5. CountersOK'
      BY <2>5, <3>3, <3>4, ReviewAssumption
      DEF PruneRetention, Deleted, Incident, CountersOK, Stamp
    <3> QED BY <3>1, <3>2, <3>5
  <2>6. CASE ResetDemoData
    <3>1. TablesOK'
      BY <2>6 DEF ResetDemoData, TablesOK
    <3>2. ThreadsOK'
      BY <2>6 DEF ResetDemoData, ThreadsOK, threads, Fits, Stamp, Decision, Case, Review
    <3>3. disturbed' \subseteq Stamp' /\ clock' = clock
      BY <2>6, HeldStamps DEF ResetDemoData, Deleted, CountersOK, Stamp
    <3>4. CountersOK'
      BY <2>6, <3>3, ReviewAssumption DEF ResetDemoData, Deleted, Incident, CountersOK, Stamp
    <3> QED BY <3>1, <3>2, <3>4
  <2>7. CASE UNCHANGED vars
    <3>1. clock \in Nat /\ clock' = clock
      BY <2>7 DEF vars, CountersOK
    <3>2. TablesOK'
      BY <2>7, <3>1, TablesKept DEF vars
    <3>3. ThreadsOK'
      BY <2>7 DEF vars, ThreadsOK, threads, Fits, Stamp, Decision, Case, Review
    <3>4. CountersOK'
      BY <2>7 DEF vars, CountersOK, history, Stamp
    <3> QED BY <3>2, <3>3, <3>4
  <2> QED BY <2>1, <2>2, <2>3, <2>4, <2>5, <2>6, <2>7 DEF Next
<1> QED BY <1>1, <1>2, PTL DEF Spec

-----------------------------------------------------------------------------
(* A known fraud is blocked.                                               *)

\* Only MakeDecision brings a thread to a decision that is not saved.
LEMMA OnlyMakeDecisionDecides ==
  ASSUME TypeOK, [Next]_vars, NEW s \in Threads,
         pc[s] = "idle", pc'[s] = "save_decision"
  PROVE  \E surface \in Surfaces, target \in Targets, large \in Amounts :
            \E asOf \in AsOf(surface) : MakeDecision(s, surface, target, asOf, large)
<1> pc \in [Threads -> {"idle", "save_decision", "get_decision", "save_case",
                       "save_review", "add_review_event", "add_label"}]
  BY DEF TypeOK, ThreadsOK
<1>1. ASSUME NEW u \in Scorers, Score(u),
             ~ \E surface \in Surfaces, target \in Targets, large \in Amounts :
                  \E asOf \in AsOf(surface) : MakeDecision(s, surface, target, asOf, large)
      PROVE  FALSE
  <2> u \in Threads
    BY DEF Threads
  <2>1. CASE u = s
    BY <1>1, <2>1 DEF Score, SaveDecision, GetDecision, SaveReviewCase
  <2>2. CASE u # s
    BY <1>1, <2>2 DEF Score, MakeDecision, SaveDecision, GetDecision, SaveReviewCase, End, Go
  <2> QED BY <2>1, <2>2
<1>2. ASSUME NEW a \in Analysts, Decide(a) PROVE FALSE
  <2> a \in Threads
    BY DEF Threads
  <2> QED BY <1>2 DEF Decide, ReadCase, SaveReviewDecision, AddReviewEvent, AddLabel, End, Go
<1>3. ASSUME NEW t \in Threads, Crash(t) PROVE FALSE
  BY <1>3 DEF Crash, End, Go
<1>4. CASE UNCHANGED pc
  BY <1>4
<1> QED BY <1>1, <1>2, <1>3, <1>4
        DEF Next, vars, Ingest, PruneRetention, ResetDemoData, threads

\* A request about a user for whom a fraud label dated at or before as_of is
\* stored decides BLOCK, for every policy, every request and whatever other
\* events, labels and reviews say.
THEOREM FraudIsBlocked == Spec => KnownFraudIsBlocked
<1>1. TypeOK /\ [Next]_vars =>
        \A s \in Scorers :
          /\ pc[s] = "idle" /\ pc'[s] = "save_decision"
          /\ held'[s].target.type = "USER"
          /\ \E l \in OfType(events, {"LABEL_CREATED"}) :
               /\ l.payload.label_value = "FRAUD"
               /\ l.at <= held'[s].as_of
               /\ held'[s].target \in Refs(l)
          => held'[s].action = "BLOCK"
  <2> SUFFICES ASSUME TypeOK, [Next]_vars, NEW s \in Scorers,
                      pc[s] = "idle", pc'[s] = "save_decision",
                      held'[s].target.type = "USER",
                      NEW l \in OfType(events, {"LABEL_CREATED"}),
                      l.payload.label_value = "FRAUD",
                      l.at <= held'[s].as_of,
                      held'[s].target \in Refs(l)
               PROVE  held'[s].action = "BLOCK"
    OBVIOUS
  <2> s \in Threads
    BY DEF Threads
  <2>1. PICK surface \in Surfaces, target \in Targets, large \in Amounts :
             \E asOf \in AsOf(surface) : MakeDecision(s, surface, target, asOf, large)
    BY OnlyMakeDecisionDecides
  <2>2. PICK asOf \in AsOf(surface) : MakeDecision(s, surface, target, asOf, large)
    BY <2>1
  <2>3. PICK d : d = Preview(events, target, asOf, large)
    OBVIOUS
  <2>4. held'[s] = [id |-> clock + 1, target |-> target, as_of |-> asOf,
                    risk_score |-> d.score, action |-> d.action]
    BY <2>2, <2>3 DEF MakeDecision, Hold, TypeOK, ThreadsOK
  <2>5. target = Entity("USER", target.id)
    <3>1. target = Entity(target.type, target.id)
      BY ReviewAssumption
    <3>2. target.type = "USER"
      BY <2>4
    <3> QED BY <3>1, <3>2
  <2>6. d.action = "BLOCK"
    BY <2>3, <2>4, <2>5, LabelledUserIsBlocked
  <2> QED BY <2>4, <2>6
<1> QED BY <1>1, TypeCorrect, PTL DEF Spec, KnownFraudIsBlocked

-----------------------------------------------------------------------------
(* Cases and reviews agree.                                                *)

\* A case that is about to be saved is open, new, and unknown to every review.
Fresh(t) ==
  /\ held[t].status = "open"
  /\ \A c \in cases : c.id # held[t].id
  /\ \A r \in reviews : r.case_id # held[t].id
  /\ \A u \in Threads : pc[u] = "save_review" => held[u].case_id # held[t].id
  /\ \A u \in Threads \ {t} : pc[u] = "save_case" => held[u].id # held[t].id

\* A review is younger than its case: pruning, which cuts both tables at the
\* same stamp, keeps the reviews of the cases it keeps.
Younger(r) == r.case_id < r.id

CaseInv ==
  /\ TypeOK
  /\ \A r \in reviews : Younger(r)
  /\ \A t \in Threads : pc[t] = "save_review" => Younger(held[t])
  /\ \A t \in Threads : pc[t] = "save_case" => Fresh(t)
  /\ CaseStatusTracksReviews

\* A step that touches neither table and brings no thread to a save.
LEMMA CasesKept ==
  ASSUME CaseInv, TypeOK', UNCHANGED <<cases, reviews>>,
         \A u \in Threads : pc'[u] \in {"save_case", "save_review"} =>
                            pc'[u] = pc[u] /\ held'[u] = held[u]
  PROVE  CaseInv'
<1>1. ASSUME NEW t \in Threads, pc'[t] = "save_case" PROVE Fresh(t)'
  BY <1>1 DEF CaseInv, Fresh
<1>2. ASSUME NEW t \in Threads, pc'[t] = "save_review" PROVE Younger(held[t])'
  BY <1>2 DEF CaseInv, Younger
<1>3. CaseStatusTracksReviews'
  BY DEF CaseInv, CaseStatusTracksReviews
<1>4. \A r \in reviews' : Younger(r)'
  BY DEF CaseInv, Younger
<1> QED BY <1>1, <1>2, <1>3, <1>4 DEF CaseInv

\* The new case of a decision is fresh: its stamp is larger than every other.
LEMMA QueueingKeepsCases ==
  ASSUME CaseInv, TypeOK', NEW s \in Scorers, GetDecision(s)
  PROVE  CaseInv'
<1> s \in Threads
  BY DEF Threads
<1> USE DEF TypeOK, ThreadsOK
<1>1. TypeOK
  BY DEF CaseInv
<1>2. cases' = cases /\ reviews' = reviews
  BY DEF GetDecision, tables
<1>3. \A u \in Threads \ {s} : pc'[u] = pc[u] /\ held'[u] = held[u]
  BY <1>1 DEF GetDecision, End, Go, Hold
<1>4. CASE held[s] \in decisions /\ NeedsCase(held[s])
  <2>1. /\ pc'[s] = "save_case" /\ held'[s].id = clock + 1 /\ held'[s].status = "open"
    BY <1>1, <1>4 DEF GetDecision, Go, Hold
  <2>2. clock \in Nat
    BY <1>1 DEF CountersOK
  <2>3. /\ \A c \in cases : c.id \in 1 .. clock
        /\ \A r \in reviews : r.case_id \in 1 .. clock
    BY <1>1 DEF TablesOK, Case, Review, Stamp
  <2>4. /\ \A u \in Threads : pc[u] = "save_review" => held[u].case_id \in 1 .. clock
        /\ \A u \in Threads : pc[u] = "save_case" => held[u].id \in 1 .. clock
    BY <1>1 DEF Fits, Case, Review, Stamp
  <2>5. Fresh(s)'
    BY <1>2, <1>3, <2>1, <2>2, <2>3, <2>4 DEF Fresh
  <2>6. ASSUME NEW t \in Threads \ {s}, pc'[t] = "save_case" PROVE Fresh(t)'
    BY <1>2, <1>3, <2>1, <2>2, <2>4, <2>6 DEF Fresh, CaseInv
  <2>7. ASSUME NEW t \in Threads, pc'[t] = "save_review" PROVE Younger(held[t])'
    BY <1>3, <2>1, <2>7 DEF CaseInv, Younger
  <2> QED BY <1>2, <2>5, <2>6, <2>7 DEF CaseInv, CaseStatusTracksReviews, Younger
<1>5. CASE ~(held[s] \in decisions /\ NeedsCase(held[s]))
  <2>1. pc'[s] = "idle"
    BY <1>1, <1>5 DEF GetDecision, End, Go
  <2> QED BY <1>2, <1>3, <2>1, CasesKept
<1> QED BY <1>4, <1>5

\* The saved case is open, and nobody has decided it.
LEMMA SavingKeepsCases ==
  ASSUME CaseInv, TypeOK', NEW s \in Scorers, SaveReviewCase(s)
  PROVE  CaseInv'
<1> s \in Threads
  BY DEF Threads
<1>1. TypeOK /\ Fresh(s)
  BY DEF CaseInv, SaveReviewCase
<1>2. reviews' = reviews /\ cases' = cases \union {held[s]}
  BY DEF SaveReviewCase
<1>3. /\ \A u \in Threads \ {s} : pc'[u] = pc[u] /\ held'[u] = held[u]
      /\ pc[s] = "save_case" /\ pc'[s] = "idle"
  BY <1>1 DEF SaveReviewCase, End, Go, Hold, TypeOK, ThreadsOK
<1>4. ASSUME NEW t \in Threads, pc'[t] = "save_case" PROVE Fresh(t)'
  <2>1. t # s /\ Fresh(t) /\ held'[t] = held[t]
    BY <1>3, <1>4 DEF CaseInv
  <2>2. held[s].id # held[t].id
    BY <1>3, <2>1 DEF Fresh
  <2> QED BY <1>2, <1>3, <2>1, <2>2 DEF Fresh
<1>5. ASSUME NEW t \in Threads, pc'[t] = "save_review" PROVE Younger(held[t])'
  BY <1>3, <1>5 DEF CaseInv, Younger
<1>6. CaseStatusTracksReviews'
  BY <1>1, <1>2 DEF CaseInv, CaseStatusTracksReviews, Fresh
<1> QED BY <1>2, <1>4, <1>5, <1>6 DEF CaseInv, Younger

\* A review that starts is about a case that is saved, hence about no fresh one.
LEMMA ReadingKeepsCases ==
  ASSUME CaseInv, TypeOK', NEW a \in Analysts, NEW case \in cases, NEW outcome,
         ReadCase(a, case, outcome)
  PROVE  CaseInv'
<1> a \in Threads
  BY DEF Threads
<1>1. TypeOK
  BY DEF CaseInv
<1>2. cases' = cases /\ reviews' = reviews
  BY DEF ReadCase, tables
<1>3. /\ \A u \in Threads \ {a} : pc'[u] = pc[u] /\ held'[u] = held[u]
      /\ pc'[a] = "save_review" /\ held'[a].id = clock + 1 /\ held'[a].case_id = case.id
  BY <1>1 DEF ReadCase, Go, Hold, TypeOK, ThreadsOK
<1>4. ASSUME NEW t \in Threads, pc'[t] = "save_case" PROVE Fresh(t)'
  <2>1. t # a /\ Fresh(t) /\ held'[t] = held[t]
    BY <1>3, <1>4 DEF CaseInv
  <2>2. case.id # held[t].id
    BY <2>1 DEF Fresh
  <2> QED BY <1>2, <1>3, <2>1, <2>2 DEF Fresh
<1>5. ASSUME NEW t \in Threads, pc'[t] = "save_review" PROVE Younger(held[t])'
  <2>1. case.id \in 1 .. clock /\ clock \in Nat
    BY <1>1 DEF TypeOK, TablesOK, CountersOK, Case, Stamp
  <2> QED BY <1>3, <1>5, <2>1 DEF CaseInv, Younger
<1> QED BY <1>2, <1>4, <1>5 DEF CaseInv, CaseStatusTracksReviews, Younger

\* The review is saved and its case, if it is still there, closed with it.
LEMMA DecidingKeepsCases ==
  ASSUME CaseInv, TypeOK', NEW a \in Analysts, SaveReviewDecision(a)
  PROVE  CaseInv'
<1> a \in Threads
  BY DEF Threads
<1> DEFINE after(c) == IF c.id = held[a].case_id THEN Closed(c, held[a]) ELSE c
<1>1. TypeOK
  BY DEF CaseInv
<1>2. reviews' = reviews \union {held[a]} /\ cases' = {after(c) : c \in cases}
  BY DEF SaveReviewDecision
<1>3. /\ \A u \in Threads \ {a} : pc'[u] = pc[u] /\ held'[u] = held[u]
      /\ pc[a] = "save_review" /\ pc'[a] = "add_review_event"
  BY <1>1 DEF SaveReviewDecision, Go, TypeOK, ThreadsOK
<1>4. \A c \in cases :
        /\ after(c).id = c.id
        /\ after(c).status = IF c.id = held[a].case_id THEN "closed" ELSE c.status
  BY <1>1, ClosedIsCase DEF TypeOK, TablesOK
<1> HIDE DEF after
<1>5. ASSUME NEW t \in Threads, pc'[t] = "save_case" PROVE Fresh(t)'
  <2>1. t # a /\ Fresh(t) /\ held'[t] = held[t]
    BY <1>3, <1>5 DEF CaseInv
  <2>2. held[a].case_id # held[t].id
    BY <1>3, <2>1 DEF Fresh
  <2>3. \A c \in cases' : c.id # held[t].id
    BY <1>2, <1>4, <2>1 DEF Fresh
  <2>4. \A r \in reviews' : r.case_id # held[t].id
    BY <1>2, <2>1, <2>2 DEF Fresh
  <2> QED BY <1>3, <2>1, <2>3, <2>4 DEF Fresh
<1>6. ASSUME NEW t \in Threads, pc'[t] = "save_review" PROVE Younger(held[t])'
  BY <1>3, <1>6 DEF CaseInv, Younger
<1>7. \A r \in reviews' : Younger(r)
  BY <1>2, <1>3 DEF CaseInv
<1>8. CaseStatusTracksReviews'
  <2> SUFFICES ASSUME NEW c \in cases
               PROVE  after(c).status = "closed" <=> \E r \in reviews' : r.case_id = after(c).id
    BY <1>2 DEF CaseStatusTracksReviews
  <2> QED BY <1>2, <1>4 DEF CaseInv, CaseStatusTracksReviews
<1> QED BY <1>5, <1>6, <1>7, <1>8 DEF CaseInv, Younger

\* Pruning cuts both tables at one stamp: a case it keeps keeps its reviews.
LEMMA PruningKeepsCases ==
  ASSUME CaseInv, TypeOK', NEW asOf, NEW kept, asOf - kept.reviews \in Int,
         PruneRetention(asOf, kept)
  PROVE  CaseInv'
<1>1. TypeOK
  BY DEF CaseInv
<1> PICK cutoff \in Int : cutoff = asOf - kept.reviews
  OBVIOUS
<1>2. /\ cases' = {c \in cases : c.id >= cutoff} /\ reviews' = {r \in reviews : r.id >= cutoff}
      /\ pc' = pc /\ held' = held
  BY DEF PruneRetention, From, threads
<1>3. \A t \in Threads : pc'[t] = "save_case" => Fresh(t)'
  BY <1>2 DEF CaseInv, Fresh
<1>4. \A t \in Threads : pc'[t] = "save_review" => Younger(held[t])'
  BY <1>2 DEF CaseInv, Younger
<1>5. ASSUME NEW c \in cases', NEW r \in reviews, r.case_id = c.id PROVE r \in reviews'
  <2>1. r.id \in Nat /\ c.id \in Nat
    BY <1>1, <1>2 DEF TypeOK, TablesOK, Case, Review, Stamp
  <2>2. c.id < r.id
    BY <1>5 DEF CaseInv, Younger
  <2> QED BY <1>2, <2>1, <2>2
<1>6. CaseStatusTracksReviews'
  BY <1>2, <1>5 DEF CaseInv, CaseStatusTracksReviews
<1>7. \A r \in reviews' : Younger(r)
  BY <1>2 DEF CaseInv
<1> QED BY <1>3, <1>4, <1>6, <1>7 DEF CaseInv, Younger

\* A case is closed exactly when a review of it is stored, for any number of
\* scoring and deciding threads, crashes, prunes and resets.
THEOREM CasesTrackReviews == Spec => []CaseStatusTracksReviews
<1>1. Init => CaseInv
  BY TypeCorrect, ReviewAssumption
  DEF Init, CaseInv, CaseStatusTracksReviews, TypeOK, TablesOK, ThreadsOK, CountersOK, Fits
<1>2. CaseInv /\ TypeOK' /\ [Next]_vars => CaseInv'
  <2> SUFFICES ASSUME CaseInv, TypeOK', [Next]_vars PROVE CaseInv'
    OBVIOUS
  <2>1. TypeOK
    BY DEF CaseInv
  <2>2. CASE Ingest
    BY <2>2, CasesKept DEF Ingest, threads
  <2>3. ASSUME NEW s \in Scorers, Score(s) PROVE CaseInv'
    <3> s \in Threads
      BY DEF Threads
    <3>1. ASSUME NEW surface, NEW target, NEW asOf, NEW large,
                 MakeDecision(s, surface, target, asOf, large)
          PROVE  CaseInv'
      BY <2>1, <3>1, CasesKept DEF MakeDecision, tables, Go, Hold, TypeOK, ThreadsOK
    <3>2. CASE SaveDecision(s)
      BY <2>1, <3>2, CasesKept DEF SaveDecision, End, Go, Hold, TypeOK, ThreadsOK
    <3>3. CASE GetDecision(s)
      BY <3>3, QueueingKeepsCases
    <3>4. CASE SaveReviewCase(s)
      BY <3>4, SavingKeepsCases
    <3> QED BY <2>3, <3>1, <3>2, <3>3, <3>4 DEF Score
  <2>4. ASSUME NEW a \in Analysts, Decide(a) PROVE CaseInv'
    <3> a \in Threads
      BY DEF Threads
    <3>1. ASSUME NEW case \in cases, NEW outcome, ReadCase(a, case, outcome)
          PROVE  CaseInv'
      BY <3>1, ReadingKeepsCases
    <3>2. CASE SaveReviewDecision(a)
      BY <3>2, DecidingKeepsCases
    <3>3. CASE AddReviewEvent(a)
      BY <2>1, <3>3, CasesKept DEF AddReviewEvent, End, Go, Hold, TypeOK, ThreadsOK
    <3>4. CASE AddLabel(a)
      BY <2>1, <3>4, CasesKept DEF AddLabel, End, Go, Hold, TypeOK, ThreadsOK
    <3> QED BY <2>4, <3>1, <3>2, <3>3, <3>4 DEF Decide
  <2>5. ASSUME NEW t \in Threads, Crash(t) PROVE CaseInv'
    BY <2>1, <2>5, CasesKept DEF Crash, tables, End, Go, Hold, TypeOK, ThreadsOK
  <2>6. ASSUME NEW asOf \in 1 .. clock + 1, NEW kept \in Periods, PruneRetention(asOf, kept)
        PROVE  CaseInv'
    <3>1. asOf - kept.reviews \in Int
      BY <2>1, ReviewAssumption DEF TypeOK, CountersOK
    <3> QED BY <2>6, <3>1, PruningKeepsCases
  <2>7. CASE ResetDemoData
    BY <2>7 DEF ResetDemoData, threads, CaseInv, CaseStatusTracksReviews, Fresh, Younger
  <2>8. CASE UNCHANGED vars
    BY <2>8, CasesKept DEF vars, tables, threads
  <2> QED BY <2>2, <2>3, <2>4, <2>5, <2>6, <2>7, <2>8 DEF Next
<1>3. CaseInv => CaseStatusTracksReviews
  BY DEF CaseInv
<1> QED BY <1>1, <1>2, <1>3, TypeCorrect, PTL DEF Spec
-----------------------------------------------------------------------------
(* Workbench: the simulation workbench and the cockpit page.               *)

\* What the two severity tables share is the same, whatever the policy.
LEMMA SharedSeverities ==
  \A code \in DOMAIN Severity \intersect Selectable : SimulatedSeverity[code] = Severity[code]
  BY DEF Severity, SimulatedSeverity, Selectable

\* Selecting what was raised, when the workbench offers all of it, gives the
\* same sum.
LEMMA SameTotal ==
  ASSUME NEW raised, NEW target, SameFacts(raised, target) \subseteq Selectable
  PROVE  SimulatedTotal(SameFacts(raised, target)) = Total(raised)
<1> DEFINE facts == SameFacts(raised, target)
           P(code) == IF raised[code] THEN Severity[code] ELSE 0
<1>1. \A code \in DOMAIN Severity \intersect Selectable : Simulated(facts, code) = P(code)
  <2> SUFFICES ASSUME NEW code \in DOMAIN Severity \intersect Selectable
               PROVE  Simulated(facts, code) = P(code)
    OBVIOUS
  <2>1. code \in facts <=> raised[code]
    <3>1. code # "DEPENDENCY_DEGRADED"
      BY DEF Severity
    <3> QED BY <3>1 DEF SameFacts
  <2> QED BY <2>1, SharedSeverities DEF Simulated
<1>2. \A code \in DOMAIN Severity \ Selectable : P(code) = 0
  BY DEF SameFacts
<1>3. \A code \in Selectable \ DOMAIN Severity : Simulated(facts, code) = 0
  BY DEF Simulated, SameFacts, SimulatedSeverity, Selectable
<1>4. /\ DOMAIN Severity = {"FAILED_LOGIN_VELOCITY", "APPLICATIONS_PER_DEVICE_VELOCITY",
           "DEVICE_SHARED_BY_USERS", "PAYMENT_ATTEMPT_VELOCITY", "HIGH_24H_PAYMENT_AMOUNT",
           "CAMERA_METADATA_ANOMALY", "LOW_BEHAVIOR_ENTROPY", "PRIOR_CHARGEBACK",
           "CONFIRMED_FRAUD_LABEL", "ONE_HOP_FROM_CONFIRMED_FRAUD",
           "NEAR_CONFIRMED_FRAUD_CLUSTER", "HIGH_REQUEST_AMOUNT"}
      /\ Selectable = {"HIGH_REQUEST_AMOUNT", "CAMERA_METADATA_ANOMALY",
           "LOW_BEHAVIOR_ENTROPY", "APPLICATIONS_PER_DEVICE_VELOCITY",
           "PAYMENT_ATTEMPT_VELOCITY", "PRIOR_CHARGEBACK", "ONE_HOP_FROM_CONFIRMED_FRAUD",
           "PUBLIC_KYB_WATCH", "PUBLIC_SANCTIONS_HIT", "APP_BEC_PATTERN",
           "DEPENDENCY_DEGRADED"}
  BY DEF Severity, SimulatedSeverity, Selectable
<1>5. \A code \in DOMAIN Severity : P(code) \in Nat
  BY PolicyAssumption DEF Severity
<1> HIDE DEF facts, P
<1>6. SimulatedTotal(facts) =
        P("HIGH_REQUEST_AMOUNT") + P("CAMERA_METADATA_ANOMALY") + P("LOW_BEHAVIOR_ENTROPY")
      + P("APPLICATIONS_PER_DEVICE_VELOCITY") + P("PAYMENT_ATTEMPT_VELOCITY")
      + P("PRIOR_CHARGEBACK") + P("ONE_HOP_FROM_CONFIRMED_FRAUD")
  BY <1>1, <1>3, <1>4, <1>5 DEF SimulatedTotal
<1>7. Total(raised) =
        P("HIGH_REQUEST_AMOUNT") + P("CAMERA_METADATA_ANOMALY") + P("LOW_BEHAVIOR_ENTROPY")
      + P("APPLICATIONS_PER_DEVICE_VELOCITY") + P("PAYMENT_ATTEMPT_VELOCITY")
      + P("PRIOR_CHARGEBACK") + P("ONE_HOP_FROM_CONFIRMED_FRAUD")
  <2>1. Total(raised) =
          P("FAILED_LOGIN_VELOCITY") + P("APPLICATIONS_PER_DEVICE_VELOCITY")
        + P("DEVICE_SHARED_BY_USERS") + P("PAYMENT_ATTEMPT_VELOCITY")
        + P("HIGH_24H_PAYMENT_AMOUNT") + P("CAMERA_METADATA_ANOMALY")
        + P("LOW_BEHAVIOR_ENTROPY") + P("PRIOR_CHARGEBACK") + P("CONFIRMED_FRAUD_LABEL")
        + P("ONE_HOP_FROM_CONFIRMED_FRAUD") + P("NEAR_CONFIRMED_FRAUD_CLUSTER")
        + P("HIGH_REQUEST_AMOUNT")
    BY DEF Total, P
  <2>2. /\ P("FAILED_LOGIN_VELOCITY") = 0 /\ P("DEVICE_SHARED_BY_USERS") = 0
        /\ P("HIGH_24H_PAYMENT_AMOUNT") = 0 /\ P("CONFIRMED_FRAUD_LABEL") = 0
        /\ P("NEAR_CONFIRMED_FRAUD_CLUSTER") = 0
    BY <1>2, <1>4
  <2> QED BY <2>1, <2>2, <1>4, <1>5
<1> QED BY <1>6, <1>7 DEF facts

\* The same sum takes the same cap, the same degraded floor and the same band.
LEMMA SameDecision ==
  ASSUME NEW raised, NEW target, SameFacts(raised, target) \subseteq Selectable
  PROVE  /\ SimulatedScore(SameFacts(raised, target)) = RiskScore(raised, IsDegraded(target))
         /\ SimulatedAction(SameFacts(raised, target)) =
              Action(RiskScore(raised, IsDegraded(target)), IsDegraded(target))
<1> DEFINE facts == SameFacts(raised, target)
<1>1. "DEPENDENCY_DEGRADED" \in facts <=> IsDegraded(target)
  BY DEF SameFacts, Severity
<1>2. "APP_BEC_PATTERN" \notin facts
  BY DEF SameFacts, Severity
<1>3. IsDegraded(target) \in BOOLEAN /\ ("DEPENDENCY_DEGRADED" \in facts) \in BOOLEAN
  BY DEF IsDegraded
<1>4. ("DEPENDENCY_DEGRADED" \in facts) = IsDegraded(target)
  BY <1>1, <1>3
<1>5. SimulatedTotal(facts) = Total(raised)
  BY SameTotal
<1> HIDE DEF facts
<1>6. SimulatedScore(facts) = RiskScore(raised, IsDegraded(target))
  BY <1>4, <1>5 DEF SimulatedScore, RiskScore
<1>7. SimulatedAction(facts) = Action(RiskScore(raised, IsDegraded(target)), IsDegraded(target))
  BY <1>2, <1>4, <1>6 DEF SimulatedAction
<1> QED BY <1>6, <1>7 DEF facts

\* A row of the page shows at least the points the decision counted.
LEMMA PageTotal ==
  ASSUME NEW raised, NEW selected
  PROVE  Contributed(raised, selected) >= Total(raised)
<1> DEFINE P(code) == IF raised[code] THEN Severity[code] ELSE 0
           Row(code) == Contribution(raised, selected, code)
<1>1. \A code : Counted(raised, code) \in Nat /\ Simulated(selected, code) \in Nat
  BY PolicyAssumption DEF Counted, Simulated, Severity, SimulatedSeverity, Selectable
<1>2. \A code : Row(code) \in Nat /\ Row(code) >= Counted(raised, code)
  BY <1>1 DEF Contribution
<1>3. \A code \in DOMAIN Severity : P(code) \in Nat /\ Counted(raised, code) = P(code)
  BY PolicyAssumption DEF Counted, Severity
<1>4. \A code \in DOMAIN Severity : Row(code) >= P(code) /\ P(code) \in Nat
  BY <1>2, <1>3
<1>5. DOMAIN Severity = {"FAILED_LOGIN_VELOCITY", "APPLICATIONS_PER_DEVICE_VELOCITY",
           "DEVICE_SHARED_BY_USERS", "PAYMENT_ATTEMPT_VELOCITY", "HIGH_24H_PAYMENT_AMOUNT",
           "CAMERA_METADATA_ANOMALY", "LOW_BEHAVIOR_ENTROPY", "PRIOR_CHARGEBACK",
           "CONFIRMED_FRAUD_LABEL", "ONE_HOP_FROM_CONFIRMED_FRAUD",
           "NEAR_CONFIRMED_FRAUD_CLUSTER", "HIGH_REQUEST_AMOUNT"}
  BY DEF Severity
<1>6. Contributed(raised, selected) =
        Row("FAILED_LOGIN_VELOCITY") + Row("APPLICATIONS_PER_DEVICE_VELOCITY")
      + Row("DEVICE_SHARED_BY_USERS") + Row("PAYMENT_ATTEMPT_VELOCITY")
      + Row("HIGH_24H_PAYMENT_AMOUNT") + Row("CAMERA_METADATA_ANOMALY")
      + Row("LOW_BEHAVIOR_ENTROPY") + Row("PRIOR_CHARGEBACK") + Row("CONFIRMED_FRAUD_LABEL")
      + Row("ONE_HOP_FROM_CONFIRMED_FRAUD") + Row("NEAR_CONFIRMED_FRAUD_CLUSTER")
      + Row("HIGH_REQUEST_AMOUNT") + Row("PUBLIC_KYB_WATCH") + Row("PUBLIC_SANCTIONS_HIT")
      + Row("APP_BEC_PATTERN") + Row("DEPENDENCY_DEGRADED")
  BY DEF Contributed
<1>7. Total(raised) =
        P("FAILED_LOGIN_VELOCITY") + P("APPLICATIONS_PER_DEVICE_VELOCITY")
      + P("DEVICE_SHARED_BY_USERS") + P("PAYMENT_ATTEMPT_VELOCITY")
      + P("HIGH_24H_PAYMENT_AMOUNT") + P("CAMERA_METADATA_ANOMALY")
      + P("LOW_BEHAVIOR_ENTROPY") + P("PRIOR_CHARGEBACK") + P("CONFIRMED_FRAUD_LABEL")
      + P("ONE_HOP_FROM_CONFIRMED_FRAUD") + P("NEAR_CONFIRMED_FRAUD_CLUSTER")
      + P("HIGH_REQUEST_AMOUNT")
  BY DEF Total
<1> HIDE DEF P, Row
<1> QED BY <1>2, <1>4, <1>5, <1>6, <1>7

-----------------------------------------------------------------------------
\* What the engine computed for the decision that a thread now holds.
LEMMA DecisionIsPreviewed ==
  ASSUME TypeOK, [Next]_vars, NEW s \in Scorers, Decides(s)
  PROVE  \E raised \in Found(held'[s]) :
           /\ held'[s].risk_score = RiskScore(raised, IsDegraded(held'[s].target))
           /\ held'[s].action = Action(held'[s].risk_score, IsDegraded(held'[s].target))
<1> s \in Threads
  BY DEF Threads
<1>1. PICK surface \in Surfaces, target \in Targets, large \in Amounts :
           \E asOf \in AsOf(surface) : MakeDecision(s, surface, target, asOf, large)
  BY OnlyMakeDecisionDecides DEF Decides
<1>2. PICK asOf \in AsOf(surface) : MakeDecision(s, surface, target, asOf, large)
  BY <1>1
<1>3. PICK d : d = Preview(events, target, asOf, large)
  OBVIOUS
<1>4. held'[s] = [id |-> clock + 1, target |-> target, as_of |-> asOf,
                  risk_score |-> d.score, action |-> d.action]
  BY <1>2, <1>3 DEF MakeDecision, Hold, TypeOK, ThreadsOK
<1>5. PICK raised : raised = RaisedNow(target, asOf, large)
  OBVIOUS
<1>6. raised \in Found(held'[s])
  BY <1>4, <1>5 DEF Found
<1>7. d = [score |-> RiskScore(raised, IsDegraded(target)),
           action |-> Action(RiskScore(raised, IsDegraded(target)), IsDegraded(target))]
  BY <1>3, <1>5 DEF Preview, RaisedNow
<1> QED BY <1>4, <1>6, <1>7

\* The workbench of simulation/workbench.py repeats, for the facts of a live
\* decision, its score and its action: under every policy, for every store.
THEOREM WorkbenchAgrees == Spec => WhatIfAgrees
<1>1. TypeOK /\ [Next]_vars =>
        \A s \in Scorers : Decides(s) =>
          \E raised \in Found(held'[s]) :
            LET facts == SameFacts(raised, held'[s].target) IN
            facts \subseteq Selectable =>
              /\ SimulatedScore(facts) = held'[s].risk_score
              /\ SimulatedAction(facts) = held'[s].action
  BY DecisionIsPreviewed, SameDecision
<1> QED BY <1>1, TypeCorrect, PTL DEF Spec, WhatIfAgrees

\* The rows of the cockpit page add up to a user's score at least: no signal
\* of the decision is lost when the simulation's signals are merged with it.
THEOREM PageExplainsScore == Spec => PageAddsUp
<1>1. TypeOK /\ [Next]_vars =>
        \A s \in Scorers : Decides(s) /\ held'[s].target.type = "USER" =>
          \E raised \in Found(held'[s]) :
            \A scenario \in Scenarios :
              Contributed(raised, Selected(scenario)) >= held'[s].risk_score
  <2> SUFFICES ASSUME TypeOK, [Next]_vars, NEW s \in Scorers, Decides(s),
                      held'[s].target.type = "USER"
               PROVE  \E raised \in Found(held'[s]) :
                        \A scenario \in Scenarios :
                          Contributed(raised, Selected(scenario)) >= held'[s].risk_score
    OBVIOUS
  <2>1. PICK raised \in Found(held'[s]) :
               held'[s].risk_score = RiskScore(raised, IsDegraded(held'[s].target))
    BY DecisionIsPreviewed
  <2>2. RiskScore(raised, FALSE) <= Total(raised)
    BY TotalIsNat DEF RiskScore, AtMost100
  <2>3. held'[s].risk_score <= Total(raised)
    <3>1. IsDegraded(held'[s].target) = FALSE
      BY DEF IsDegraded
    <3> QED BY <2>1, <2>2, <3>1
  <2>4. \A scenario : Contributed(raised, Selected(scenario)) >= held'[s].risk_score
    <3>1. \A scenario : Contributed(raised, Selected(scenario)) >= Total(raised)
      BY PageTotal
    <3>2. \A scenario : Contributed(raised, Selected(scenario)) \in Nat
      BY PolicyAssumption
      DEF Contributed, Contribution, Counted, Simulated, Severity, SimulatedSeverity, Selectable
    <3>3. held'[s].risk_score \in Nat
      BY <2>1, ScoreIsBounded
    <3> QED BY <2>3, <3>1, <3>2, <3>3, TotalIsNat
  <2> QED BY <2>4
<1> QED BY <1>1, TypeCorrect, PTL DEF Spec, PageAddsUp
=============================================================================
