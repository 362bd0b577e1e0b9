------------------------ MODULE ReviewVerdictProofs ------------------------
(* Verdicts and labels of ReviewWorkflow agree, and so do decisions and    *)
(* cases, for any number of threads, requests, incidents and events.       *)
EXTENDS ReviewWorkflowProofs, FiniteSetTheorems

-----------------------------------------------------------------------------
(* Verdicts and labels.                                                    *)

\* The thread is on its way from a review decision to its label.
Deciding(t) == pc[t] \in {"save_review", "add_review_event", "add_label"}

\* Nothing carries the stamp of the review a thread holds but what the thread
\* has stored itself: its next add_event is never refused.
Unused(t) ==
  /\ pc[t] = "save_review" => \A r \in reviews : r.id # held[t].id
  /\ \A r \in reviews : r.id = held[t].id => r = held[t]
  /\ pc[t] # "add_label" => \A e \in events : e.key # <<"review", held[t].id>>
  /\ \A e \in events : e.key # <<"label", held[t].id>>
  /\ \A u \in Threads \ {t} : Deciding(u) => held[u].id # held[t].id

\* What the thread's earlier transactions stored is still there, unless rows
\* were deleted meanwhile.
Backed(t) ==
  \/ held[t].id \in disturbed
  \/ /\ pc[t] # "save_review" => held[t] \in reviews
     /\ pc[t] = "add_label" => ReviewEvent(held[t]) \in events /\ IsFinal(held[t])

\* A confirmed outcome has its label, or is on its way to it, or is excused.
Learned(r) ==
  \/ LabelEvent(r) \in events
  \/ \E t \in Threads : pc[t] \in {"add_review_event", "add_label"} /\ held[t] = r
  \/ r.id \in disturbed \union forgotten.events

\* What the label says the analyst said.
Said(l) ==
  IF l.payload.label_value = "FRAUD" THEN "CONFIRMED_FRAUD" ELSE "CONFIRMED_LEGITIMATE"

\* The review event and the review decision say so too.
SaidByEvent(l) == \E e \in events : e.key = <<"review", l.at>> /\ e.payload.outcome = Said(l)

SaidByReview(l) == \E r \in reviews : r.id = l.at /\ r.outcome = Said(l)

LEMMA LabelsAreBackedIf ==
  (\A l \in OfType(events, {"LABEL_CREATED"}) \ Observed :
     l.at \notin disturbed =>
       SaidByEvent(l) /\ (SaidByReview(l) \/ l.at \in forgotten.reviews))
  <=> LabelsAreBacked
BY DEF LabelsAreBacked, SaidByEvent, SaidByReview, Said

\* A review event carries the time of the review it is keyed by.
Dated == \A e \in events : \A n : e.key = <<"review", n>> => e.at = n

VerdictInv ==
  /\ TypeOK
  /\ \A t \in Threads : Deciding(t) => Unused(t)
  /\ \A t \in Threads : Deciding(t) => pc[t] = "save_review" \/ Backed(t)
  /\ \A r \in reviews : IsFinal(r) => Learned(r)
  /\ Dated
  /\ LabelsAreBacked

\* Steps that store no event and no review, and bring no thread to deciding:
\* those of scoring threads, and crashes.
LEMMA VerdictsKept ==
  ASSUME VerdictInv, TypeOK', UNCHANGED <<events, reviews, forgotten>>,
         disturbed \subseteq disturbed',
         \A u \in Threads : Deciding(u)' => pc'[u] = pc[u] /\ held'[u] = held[u],
         \A u \in Threads : Deciding(u) =>
           (pc'[u] = pc[u] /\ held'[u] = held[u]) \/ held[u].id \in disturbed'
  PROVE  VerdictInv'
<1>1. ASSUME NEW t \in Threads, Deciding(t)' PROVE Unused(t)'
  <2>1. Deciding(t) /\ Unused(t) /\ pc'[t] = pc[t] /\ held'[t] = held[t]
    BY <1>1 DEF VerdictInv, Deciding
  <2>2. \A u \in Threads \ {t} : Deciding(u)' => Deciding(u) /\ held'[u] = held[u]
    BY DEF Deciding
  <2> QED BY <2>1, <2>2 DEF Unused
<1>2. ASSUME NEW t \in Threads, Deciding(t)' PROVE (pc[t] = "save_review" \/ Backed(t))'
  BY <1>2 DEF VerdictInv, Deciding, Backed
<1>3. ASSUME NEW r \in reviews', IsFinal(r) PROVE Learned(r)'
  <2>1. Learned(r)
    BY <1>3 DEF VerdictInv
  <2>2. CASE \E t \in Threads : pc[t] \in {"add_review_event", "add_label"} /\ held[t] = r
    BY <2>2 DEF Learned, Deciding
  <2> QED BY <2>1, <2>2 DEF Learned
<1>4. LabelsAreBacked'
  BY DEF VerdictInv, LabelsAreBacked
<1>5. Dated'
  BY DEF VerdictInv, Dated
<1> QED BY <1>1, <1>2, <1>3, <1>4, <1>5 DEF VerdictInv

\* Events from outside have keys of their own.
LEMMA IngestingKeepsVerdicts ==
  ASSUME VerdictInv, TypeOK', Ingest
  PROVE  VerdictInv'
<1>1. /\ events' = events \union Observed /\ reviews' = reviews /\ pc' = pc /\ held' = held
      /\ disturbed' = disturbed /\ forgotten' = forgotten
  BY DEF Ingest, threads, history
<1>2. \A e \in Observed : \A n : e.key # <<"review", n>> /\ e.key # <<"label", n>>
  BY ReviewAssumption
<1>3. ASSUME NEW t \in Threads, Deciding(t)' PROVE Unused(t)'
  <2>1. Unused(t) /\ Deciding(t)
    BY <1>1, <1>3 DEF VerdictInv, Deciding
  <2> QED BY <1>1, <1>2, <2>1 DEF Unused, Deciding
<1>4. ASSUME NEW t \in Threads, Deciding(t)' PROVE (pc[t] = "save_review" \/ Backed(t))'
  BY <1>1, <1>4 DEF VerdictInv, Deciding, Backed
<1>5. ASSUME NEW r \in reviews', IsFinal(r) PROVE Learned(r)'
  BY <1>1, <1>5 DEF VerdictInv, Learned
<1>6. LabelsAreBacked'
  BY <1>1 DEF VerdictInv, LabelsAreBacked, OfType
<1>7. Dated'
  BY <1>1, <1>2 DEF VerdictInv, Dated
<1> QED BY <1>3, <1>4, <1>5, <1>6, <1>7 DEF VerdictInv

\* A new review has a stamp larger than any in use.
LEMMA ReadingKeepsVerdicts ==
  ASSUME VerdictInv, TypeOK', NEW a \in Analysts, NEW case \in cases, NEW outcome,
         ReadCase(a, case, outcome)
  PROVE  VerdictInv'
<1> a \in Threads
  BY DEF Threads
<1>1. TypeOK
  BY DEF VerdictInv
<1>2. /\ events' = events /\ reviews' = reviews
      /\ disturbed' = disturbed /\ forgotten' = forgotten
  BY DEF ReadCase, tables, history
<1>3. /\ \A u \in Threads \ {a} : pc'[u] = pc[u] /\ held'[u] = held[u]
      /\ pc[a] = "idle" /\ pc'[a] = "save_review" /\ held'[a].id = clock + 1
  BY <1>1 DEF ReadCase, Go, Hold, TypeOK, ThreadsOK
<1>4. clock \in Nat /\ \A r \in reviews : r.id \in 1 .. clock
  BY <1>1 DEF TypeOK, TablesOK, CountersOK, Review, Stamp
<1>5. \A u \in Threads : Deciding(u) => held[u].id \in 1 .. clock
  BY <1>1 DEF Deciding, TypeOK, ThreadsOK, Fits, Review, Stamp
<1>6. \A e \in events : e.key # <<"review", clock + 1>> /\ e.key # <<"label", clock + 1>>
  <2> SUFFICES ASSUME NEW e \in events
               PROVE  e.key # <<"review", clock + 1>> /\ e.key # <<"label", clock + 1>>
    OBVIOUS
  <2>1. CASE e \in Observed
    BY <2>1, ReviewAssumption
  <2>2. CASE e \notin Observed
    <3>1. e.key \in {"review", "label"} \X (1 .. clock)
      BY <1>1, <2>2 DEF TypeOK, TablesOK, Stamp
    <3> QED BY <1>4, <3>1
  <2> QED BY <2>1, <2>2
<1>7. ASSUME NEW t \in Threads, Deciding(t)' PROVE Unused(t)'
  <2>1. CASE t = a
    BY <1>2, <1>3, <1>4, <1>5, <1>6, <2>1 DEF Unused, Deciding
  <2>2. CASE t # a
    <3>1. Deciding(t) /\ Unused(t) /\ pc'[t] = pc[t] /\ held'[t] = held[t]
      BY <1>3, <1>7, <2>2 DEF VerdictInv, Deciding
    <3>2. held'[a].id # held[t].id
      BY <1>3, <1>4, <1>5, <3>1
    <3> QED BY <1>2, <1>3, <3>1, <3>2 DEF Unused, Deciding
  <2> QED BY <2>1, <2>2
<1>8. ASSUME NEW t \in Threads, Deciding(t)' PROVE (pc[t] = "save_review" \/ Backed(t))'
  BY <1>2, <1>3, <1>8 DEF VerdictInv, Deciding, Backed
<1>9. ASSUME NEW r \in reviews', IsFinal(r) PROVE Learned(r)'
  <2>1. Learned(r)
    BY <1>2, <1>9 DEF VerdictInv
  <2>2. CASE \E t \in Threads : pc[t] \in {"add_review_event", "add_label"} /\ held[t] = r
    BY <1>3, <2>2 DEF Learned
  <2> QED BY <1>2, <2>1, <2>2 DEF Learned
<1>10. LabelsAreBacked'
  BY <1>2 DEF VerdictInv, LabelsAreBacked
<1>11. Dated'
  BY <1>2 DEF VerdictInv, Dated
<1> QED BY <1>7, <1>8, <1>9, <1>10, <1>11 DEF VerdictInv

\* The review that is saved is in flight, and stored as it is held.
LEMMA DecidingKeepsVerdicts ==
  ASSUME VerdictInv, TypeOK', NEW a \in Analysts, SaveReviewDecision(a)
  PROVE  VerdictInv'
<1> a \in Threads
  BY DEF Threads
<1>1. TypeOK
  BY DEF VerdictInv
<1>2. /\ events' = events /\ reviews' = reviews \union {held[a]} /\ held' = held
      /\ disturbed' = disturbed /\ forgotten' = forgotten
  BY DEF SaveReviewDecision, history
<1>3. /\ \A u \in Threads \ {a} : pc'[u] = pc[u]
      /\ pc[a] = "save_review" /\ pc'[a] = "add_review_event"
  BY <1>1 DEF SaveReviewDecision, Go, TypeOK, ThreadsOK
<1>4. Deciding(a) /\ Unused(a)
  BY <1>3 DEF VerdictInv, Deciding
<1>5. ASSUME NEW t \in Threads, Deciding(t)' PROVE Unused(t)'
  <2>1. CASE t = a
    BY <1>2, <1>3, <1>4, <2>1 DEF Unused, Deciding
  <2>2. CASE t # a
    <3>1. Deciding(t) /\ Unused(t) /\ pc'[t] = pc[t]
      BY <1>3, <1>5, <2>2 DEF VerdictInv, Deciding
    <3>2. held[a].id # held[t].id
      BY <1>4, <2>2, <3>1 DEF Unused
    <3> QED BY <1>2, <1>3, <1>4, <3>1, <3>2 DEF Unused, Deciding
  <2> QED BY <2>1, <2>2
<1>6. ASSUME NEW t \in Threads, Deciding(t)' PROVE (pc[t] = "save_review" \/ Backed(t))'
  <2>1. CASE t = a
    BY <1>2, <1>3, <2>1 DEF Backed
  <2>2. CASE t # a
    BY <1>2, <1>3, <1>6, <2>2 DEF VerdictInv, Deciding, Backed
  <2> QED BY <2>1, <2>2
<1>7. ASSUME NEW r \in reviews', IsFinal(r) PROVE Learned(r)'
  <2>1. CASE r = held[a]
    BY <1>2, <1>3, <2>1 DEF Learned
  <2>2. CASE r \in reviews
    <3>1. Learned(r)
      BY <1>7, <2>2 DEF VerdictInv
    <3>2. CASE \E t \in Threads : pc[t] \in {"add_review_event", "add_label"} /\ held[t] = r
      BY <1>2, <1>3, <3>2 DEF Learned
    <3> QED BY <1>2, <3>1, <3>2 DEF Learned
  <2> QED BY <1>2, <2>1, <2>2
<1>8. LabelsAreBacked'
  BY <1>2 DEF VerdictInv, LabelsAreBacked
<1>9. Dated'
  BY <1>2 DEF VerdictInv, Dated
<1> QED BY <1>5, <1>6, <1>7, <1>8, <1>9 DEF VerdictInv

\* The review event is never refused, so a confirmed outcome goes on to its label.
LEMMA AddingReviewEventKeepsVerdicts ==
  ASSUME VerdictInv, TypeOK', NEW a \in Analysts, AddReviewEvent(a)
  PROVE  VerdictInv'
<1> a \in Threads
  BY DEF Threads
<1>1. TypeOK
  BY DEF VerdictInv
<1>2. PICK e : e = ReviewEvent(held[a])
  OBVIOUS
<1>3. pc[a] = "add_review_event" /\ Deciding(a) /\ Unused(a) /\ Backed(a)
  BY DEF AddReviewEvent, VerdictInv, Deciding
<1>4. e.key = <<"review", held[a].id>> /\ e.type = "MANUAL_REVIEW_DECIDED"
  BY <1>2 DEF ReviewEvent
<1>5. ~Refused(e)
  BY <1>3, <1>4 DEF Refused, Unused
<1>6. /\ events' = events \union {e} /\ reviews' = reviews
      /\ disturbed' = disturbed /\ forgotten' = forgotten
  BY <1>2, <1>5 DEF AddReviewEvent, AddEvent, history
<1>7. \A u \in Threads \ {a} : pc'[u] = pc[u] /\ held'[u] = held[u]
  BY <1>1 DEF AddReviewEvent, End, Go, Hold, TypeOK, ThreadsOK
<1>8. \/ IsFinal(held[a]) /\ pc'[a] = "add_label" /\ held'[a] = held[a]
      \/ ~IsFinal(held[a]) /\ pc'[a] = "idle"
  BY <1>1, <1>2, <1>5 DEF AddReviewEvent, End, Go, Hold, TypeOK, ThreadsOK
<1>9. ASSUME NEW t \in Threads, Deciding(t)' PROVE Unused(t)'
  <2>1. Deciding(t) /\ Unused(t) /\ held'[t] = held[t]
    BY <1>3, <1>7, <1>8, <1>9 DEF VerdictInv, Deciding
  <2>2. \A u \in Threads \ {t} : Deciding(u)' => Deciding(u) /\ held'[u] = held[u]
    BY <1>3, <1>7, <1>8 DEF Deciding
  <2>3. e.key # <<"label", held[t].id>>
    BY <1>4
  <2>4. pc'[t] # "add_label" => e.key # <<"review", held[t].id>>
    <3>1. CASE t = a
      BY <1>8, <1>9, <3>1 DEF Deciding
    <3>2. CASE t # a
      BY <1>3, <1>4, <2>1, <3>2 DEF Unused
    <3> QED BY <3>1, <3>2
  <2>5. pc'[t] # "add_label" => pc[t] # "add_label"
    BY <1>3, <1>7
  <2>6. pc'[t] = "save_review" => pc[t] = "save_review"
    BY <1>7, <1>8
  <2> QED BY <1>6, <2>1, <2>2, <2>3, <2>4, <2>5, <2>6 DEF Unused
<1>10. ASSUME NEW t \in Threads, Deciding(t)' PROVE (pc[t] = "save_review" \/ Backed(t))'
  <2>1. CASE t = a
    BY <1>2, <1>3, <1>6, <1>8, <1>10, <2>1 DEF Backed, Deciding
  <2>2. CASE t # a
    BY <1>6, <1>7, <1>10, <2>2 DEF VerdictInv, Deciding, Backed
  <2> QED BY <2>1, <2>2
<1>11. ASSUME NEW r \in reviews', IsFinal(r) PROVE Learned(r)'
  <2>1. Learned(r)
    BY <1>6, <1>11 DEF VerdictInv
  <2>2. CASE \E t \in Threads : pc[t] \in {"add_review_event", "add_label"} /\ held[t] = r
    <3>1. PICK t \in Threads : pc[t] \in {"add_review_event", "add_label"} /\ held[t] = r
      BY <2>2
    <3>2. pc'[t] \in {"add_review_event", "add_label"} /\ held'[t] = r
      BY <1>7, <1>8, <1>11, <3>1
    <3> QED BY <3>2 DEF Learned
  <2> QED BY <1>6, <2>1, <2>2 DEF Learned
<1>12. LabelsAreBacked'
  BY <1>4, <1>6 DEF VerdictInv, LabelsAreBacked, OfType
<1>13. Dated'
  <2>1. e.at = held[a].id
    BY <1>2 DEF ReviewEvent
  <2> QED BY <1>4, <1>6, <2>1 DEF VerdictInv, Dated
<1> QED BY <1>9, <1>10, <1>11, <1>12, <1>13 DEF VerdictInv

\* The label is never refused, and what backs it is stored.
LEMMA AddingLabelKeepsVerdicts ==
  ASSUME VerdictInv, TypeOK', NEW a \in Analysts, AddLabel(a)
  PROVE  VerdictInv'
<1> a \in Threads
  BY DEF Threads
<1>1. TypeOK
  BY DEF VerdictInv
<1>2. PICK e : e = LabelEvent(held[a])
  OBVIOUS
<1>3. pc[a] = "add_label" /\ Deciding(a) /\ Unused(a) /\ Backed(a)
  BY DEF AddLabel, VerdictInv, Deciding
<1>4. /\ e.key = <<"label", held[a].id>> /\ e.at = held[a].id
      /\ e.payload.label_value = LabelValue[held[a].outcome]
  BY <1>2 DEF LabelEvent, LabelKey
<1>5. ~Refused(e)
  BY <1>3, <1>4 DEF Refused, Unused
<1>6. /\ events' = events \union {e} /\ reviews' = reviews
      /\ disturbed' = disturbed /\ forgotten' = forgotten
  BY <1>2, <1>5 DEF AddLabel, AddEvent, history
<1>7. /\ \A u \in Threads \ {a} : pc'[u] = pc[u] /\ held'[u] = held[u]
      /\ pc'[a] = "idle"
  BY <1>1 DEF AddLabel, End, Go, Hold, TypeOK, ThreadsOK
<1>8. ASSUME NEW t \in Threads, Deciding(t)' PROVE Unused(t)'
  <2>1. t # a /\ Deciding(t) /\ Unused(t) /\ held'[t] = held[t] /\ pc'[t] = pc[t]
    BY <1>7, <1>8 DEF VerdictInv, Deciding
  <2>2. \A u \in Threads \ {t} : Deciding(u)' => Deciding(u) /\ held'[u] = held[u]
    BY <1>7 DEF Deciding
  <2>3. e.key # <<"review", held[t].id>>
    BY <1>4
  <2>4. e.key # <<"label", held[t].id>>
    BY <1>3, <1>4, <2>1 DEF Unused
  <2> QED BY <1>6, <2>1, <2>2, <2>3, <2>4 DEF Unused
<1>9. ASSUME NEW t \in Threads, Deciding(t)' PROVE (pc[t] = "save_review" \/ Backed(t))'
  BY <1>6, <1>7, <1>9 DEF VerdictInv, Deciding, Backed
<1>10. ASSUME NEW r \in reviews', IsFinal(r) PROVE Learned(r)'
  <2>1. Learned(r)
    BY <1>6, <1>10 DEF VerdictInv
  <2>2. CASE \E t \in Threads : pc[t] \in {"add_review_event", "add_label"} /\ held[t] = r
    <3>1. PICK t \in Threads : pc[t] \in {"add_review_event", "add_label"} /\ held[t] = r
      BY <2>2
    <3>2. CASE t = a
      <4>1. LabelEvent(r)' = LabelEvent(r)
        BY DEF LabelEvent, LabelKey
      <4> QED BY <1>2, <1>6, <3>1, <3>2, <4>1 DEF Learned
    <3>3. CASE t # a
      BY <1>7, <3>1, <3>3 DEF Learned
    <3> QED BY <3>2, <3>3
  <2> QED BY <1>6, <2>1, <2>2 DEF Learned
<1>11. LabelsAreBacked'
  <2> SUFFICES ASSUME NEW l \in OfType(events', {"LABEL_CREATED"}), l \notin Observed,
                      l.at \notin disturbed
               PROVE  SaidByEvent(l)' /\ (SaidByReview(l)' \/ l.at \in forgotten'.reviews)
    BY <1>6 DEF LabelsAreBacked, SaidByEvent, SaidByReview, Said
  <2>1. CASE l \in events
    <3>1. l \in OfType(events, {"LABEL_CREATED"}) \ Observed
      BY <2>1 DEF OfType
    <3>2. SaidByEvent(l) /\ (SaidByReview(l) \/ l.at \in forgotten.reviews)
      BY <3>1, LabelsAreBackedIf DEF VerdictInv
    <3> QED BY <1>6, <3>2 DEF SaidByEvent, SaidByReview, Said
  <2>2. CASE l = e
    <3>1. /\ held[a] \in reviews /\ ReviewEvent(held[a]) \in events
          /\ IsFinal(held[a])
      BY <1>3, <1>4, <2>2 DEF Backed
    <3>2. held[a].outcome = Said(l)
      BY <1>4, <2>2, <3>1 DEF IsFinal, LabelValue, Said
    <3>3. /\ ReviewEvent(held[a]).key = <<"review", held[a].id>>
          /\ ReviewEvent(held[a]).payload.outcome = held[a].outcome
      BY DEF ReviewEvent
    <3>4. SaidByReview(l)'
      BY <1>4, <1>6, <2>2, <3>1, <3>2 DEF SaidByReview, Said
    <3>5. SaidByEvent(l)'
      BY <1>4, <1>6, <2>2, <3>1, <3>2, <3>3 DEF SaidByEvent, Said
    <3> QED BY <3>4, <3>5
  <2> QED BY <1>6, <2>1, <2>2 DEF OfType
<1>12. Dated'
  BY <1>4, <1>6 DEF VerdictInv, Dated
<1> QED BY <1>8, <1>9, <1>10, <1>11, <1>12 DEF VerdictInv

\* Pruning never spares a label and takes its review event, since both carry the
\* review's time; the reviews and the labels it takes are remembered.
LEMMA PruningKeepsVerdicts ==
  ASSUME VerdictInv, TypeOK', NEW asOf, NEW kept,
         asOf - kept.reviews \in Int, asOf - kept.events \in Int, PruneRetention(asOf, kept)
  PROVE  VerdictInv'
<1> PICK cutoff \in Int, eventCutoff \in Int :
         cutoff = asOf - kept.reviews /\ eventCutoff = asOf - kept.events
  OBVIOUS
<1>1. TypeOK
  BY DEF VerdictInv
<1>2. /\ events' = {e \in events : e.at >= eventCutoff}
      /\ reviews' = {r \in reviews : r.id >= cutoff}
      /\ pc' = pc /\ held' = held
      /\ disturbed' = disturbed \union UNION {Stamps(t) : t \in Threads}
      /\ forgotten'.events = forgotten.events \union {e.at : e \in events \ events'}
      /\ forgotten'.reviews = forgotten.reviews \union {r.id : r \in reviews \ reviews'}
  BY DEF PruneRetention, Deleted, From, Since, threads
<1>3. \A t \in Threads : Deciding(t) => held[t].id \in disturbed'
  BY <1>2 DEF Deciding, Stamps
<1>4. ASSUME NEW t \in Threads, Deciding(t)' PROVE Unused(t)'
  <2>1. Deciding(t) /\ Unused(t)
    BY <1>2, <1>4 DEF VerdictInv, Deciding
  <2> QED BY <1>2, <2>1 DEF Unused, Deciding
<1>5. ASSUME NEW t \in Threads, Deciding(t)' PROVE (pc[t] = "save_review" \/ Backed(t))'
  BY <1>2, <1>3, <1>5 DEF Backed, Deciding
<1>7. ASSUME NEW r \in reviews', IsFinal(r) PROVE Learned(r)'
  <2>1. Learned(r)
    BY <1>2, <1>7 DEF VerdictInv
  <2>2. CASE LabelEvent(r) \in events
    <3>1. LabelEvent(r)' = LabelEvent(r) /\ LabelEvent(r).at = r.id
      BY DEF LabelEvent, LabelKey
    <3>2. CASE LabelEvent(r) \in events'
      BY <3>1, <3>2 DEF Learned
    <3>3. CASE LabelEvent(r) \notin events'
      <4>1. r.id \in {e.at : e \in events \ events'}
        BY <2>2, <3>1, <3>3
      <4> QED BY <1>2, <4>1 DEF Learned
    <3> QED BY <3>2, <3>3
  <2>3. CASE \E t \in Threads : pc[t] \in {"add_review_event", "add_label"} /\ held[t] = r
    BY <1>2, <2>3 DEF Learned
  <2>4. CASE r.id \in disturbed \union forgotten.events
    BY <1>2, <2>4 DEF Learned
  <2> QED BY <2>1, <2>2, <2>3, <2>4 DEF Learned
<1>8. LabelsAreBacked'
  <2> SUFFICES ASSUME NEW l \in OfType(events', {"LABEL_CREATED"}), l \notin Observed,
                      l.at \notin disturbed'
               PROVE  SaidByEvent(l)' /\ (SaidByReview(l)' \/ l.at \in forgotten'.reviews)
    BY DEF LabelsAreBacked, SaidByEvent, SaidByReview, Said
  <2>1. /\ l \in OfType(events, {"LABEL_CREATED"}) \ Observed
        /\ l.at >= eventCutoff /\ l.at \notin disturbed
    BY <1>2 DEF OfType
  <2>2. SaidByEvent(l) /\ (SaidByReview(l) \/ l.at \in forgotten.reviews)
    BY <2>1, LabelsAreBackedIf DEF VerdictInv
  <2>3. SaidByEvent(l)'
    <3>1. PICK e \in events : e.key = <<"review", l.at>> /\ e.payload.outcome = Said(l)
      BY <2>2 DEF SaidByEvent
    <3>2. e.at = l.at
      BY <3>1 DEF VerdictInv, Dated
    <3>3. e \in events'
      BY <1>2, <2>1, <3>2
    <3> QED BY <3>1, <3>3 DEF SaidByEvent, Said
  <2>4. CASE SaidByReview(l)
    <3>1. PICK r \in reviews : r.id = l.at /\ r.outcome = Said(l)
      BY <2>4 DEF SaidByReview
    <3>2. CASE r \in reviews'
      BY <2>3, <3>1, <3>2 DEF SaidByReview, Said
    <3>3. CASE r \notin reviews'
      <4>1. l.at \in {q.id : q \in reviews \ reviews'}
        BY <3>1, <3>3
      <4> QED BY <1>2, <2>3, <4>1
    <3> QED BY <2>3, <3>2, <3>3
  <2>5. CASE l.at \in forgotten.reviews
    BY <1>2, <2>3, <2>5
  <2> QED BY <2>2, <2>4, <2>5
<1>9. Dated'
  BY <1>2 DEF VerdictInv, Dated
<1> QED BY <1>4, <1>5, <1>7, <1>8, <1>9 DEF VerdictInv

\* After a reset nothing is stored, and what threads still store is excused.
LEMMA ResettingKeepsVerdicts ==
  ASSUME VerdictInv, TypeOK', ResetDemoData
  PROVE  VerdictInv'
<1>1. /\ events' = {} /\ reviews' = {} /\ pc' = pc /\ held' = held
      /\ disturbed' = disturbed \union UNION {Stamps(t) : t \in Threads}
  BY DEF ResetDemoData, Deleted, threads
<1>2. \A t \in Threads : Deciding(t) => held[t].id \in disturbed'
  BY <1>1 DEF Deciding, Stamps
<1>3. ASSUME NEW t \in Threads, Deciding(t)' PROVE Unused(t)'
  <2>1. Deciding(t) /\ Unused(t)
    BY <1>1, <1>3 DEF VerdictInv, Deciding
  <2> QED BY <1>1, <2>1 DEF Unused, Deciding
<1>4. ASSUME NEW t \in Threads, Deciding(t)' PROVE (pc[t] = "save_review" \/ Backed(t))'
  BY <1>1, <1>2, <1>4 DEF Backed, Deciding
<1> QED BY <1>1, <1>3, <1>4 DEF VerdictInv, LabelsAreBacked, OfType, Dated

\* VerdictInv is an inductive invariant of the workflow.
LEMMA VerdictInvariant == Spec => []VerdictInv
<1>1. Init => VerdictInv
  <2> SUFFICES ASSUME Init PROVE VerdictInv
    OBVIOUS
  <2>1. TypeOK
    BY ReviewAssumption DEF Init, TypeOK, TablesOK, ThreadsOK, CountersOK, Fits
  <2>2. \A t \in Threads : ~Deciding(t)
    BY DEF Init, Deciding
  <2>3. Dated
    BY ReviewAssumption DEF Init, Dated
  <2> QED BY <2>1, <2>2, <2>3 DEF Init, VerdictInv, LabelsAreBacked, OfType
<1>2. VerdictInv /\ TypeOK' /\ [Next]_vars => VerdictInv'
  <2> SUFFICES ASSUME VerdictInv, TypeOK', [Next]_vars PROVE VerdictInv'
    OBVIOUS
  <2>1. TypeOK
    BY DEF VerdictInv
  <2>2. CASE Ingest
    BY <2>2, IngestingKeepsVerdicts
  <2>3. ASSUME NEW s \in Scorers, Score(s) PROVE VerdictInv'
    <3> s \in Threads
      BY DEF Threads
    <3>1. ASSUME NEW surface, NEW target, NEW asOf, NEW large,
                 MakeDecision(s, surface, target, asOf, large)
          PROVE  VerdictInv'
      BY <2>1, <3>1, VerdictsKept
      DEF MakeDecision, tables, history, Go, Hold, TypeOK, ThreadsOK, Deciding
    <3>2. CASE SaveDecision(s)
      BY <2>1, <3>2, VerdictsKept
      DEF SaveDecision, history, End, Go, Hold, TypeOK, ThreadsOK, Deciding
    <3>3. CASE GetDecision(s)
      BY <2>1, <3>3, VerdictsKept
      DEF GetDecision, tables, history, End, Go, Hold, TypeOK, ThreadsOK, Deciding
    <3>4. CASE SaveReviewCase(s)
      BY <2>1, <3>4, VerdictsKept
      DEF SaveReviewCase, history, End, Go, Hold, TypeOK, ThreadsOK, Deciding
    <3> QED BY <2>3, <3>1, <3>2, <3>3, <3>4 DEF Score
  <2>4. ASSUME NEW a \in Analysts, Decide(a) PROVE VerdictInv'
    <3>1. ASSUME NEW case \in cases, NEW outcome, ReadCase(a, case, outcome)
          PROVE  VerdictInv'
      BY <3>1, ReadingKeepsVerdicts
    <3>2. CASE SaveReviewDecision(a)
      BY <3>2, DecidingKeepsVerdicts
    <3>3. CASE AddReviewEvent(a)
      BY <3>3, AddingReviewEventKeepsVerdicts
    <3>4. CASE AddLabel(a)
      BY <3>4, AddingLabelKeepsVerdicts
    <3> QED BY <2>4, <3>1, <3>2, <3>3, <3>4 DEF Decide
  <2>5. ASSUME NEW t \in Threads, Crash(t) PROVE VerdictInv'
    <3>1. /\ UNCHANGED <<events, reviews, forgotten>>
          /\ disturbed' = disturbed \union Stamps(t)
          /\ \A u \in Threads \ {t} : pc'[u] = pc[u] /\ held'[u] = held[u]
          /\ pc'[t] = "idle"
      BY <2>1, <2>5 DEF Crash, tables, End, Go, Hold, TypeOK, ThreadsOK
    <3>2. Deciding(t) => held[t].id \in disturbed'
      BY <3>1 DEF Deciding, Stamps
    <3> QED BY <3>1, <3>2, VerdictsKept DEF Deciding
  <2>6. ASSUME NEW asOf \in 1 .. clock + 1, NEW kept \in Periods, PruneRetention(asOf, kept)
        PROVE  VerdictInv'
    <3>1. asOf - kept.reviews \in Int /\ asOf - kept.events \in Int
      BY <2>1, ReviewAssumption DEF TypeOK, CountersOK
    <3> QED BY <2>6, <3>1, PruningKeepsVerdicts
  <2>7. CASE ResetDemoData
    BY <2>7, ResettingKeepsVerdicts
  <2>8. CASE UNCHANGED vars
    BY <2>8, VerdictsKept DEF vars, tables, threads, history, Deciding
  <2> QED BY <2>2, <2>3, <2>4, <2>5, <2>6, <2>7, <2>8 DEF Next
<1> QED BY <1>1, <1>2, TypeCorrect, PTL DEF Spec

\* A label that is stored has its review event behind it, and its review unless
\* a prune took that, and says what they say, for any number of analysts, prunes
\* with any periods, and resets.
THEOREM LabelsBacked == Spec => []LabelsAreBacked
<1>1. VerdictInv => LabelsAreBacked
  BY DEF VerdictInv
<1> QED BY <1>1, VerdictInvariant, PTL

\* A confirmed outcome gets its label: neither of decide's two add_event calls
\* is ever refused, whoever else decides the same case.
THEOREM VerdictsLearned == Spec => []VerdictsAreLearned
<1>1. VerdictInv => VerdictsAreLearned
  <2> SUFFICES ASSUME VerdictInv, NEW r \in reviews, IsFinal(r), r.id \notin disturbed
               PROVE  LabelEvent(r) \in events \/ InFlight(r.id) \/ r.id \in forgotten.events
    BY DEF VerdictsAreLearned
  <2>1. Learned(r)
    BY DEF VerdictInv
  <2>2. CASE \E t \in Threads : pc[t] \in {"add_review_event", "add_label"} /\ held[t] = r
    BY <2>2 DEF InFlight, Stamps
  <2> QED BY <2>1, <2>2 DEF Learned
<1> QED BY <1>1, VerdictInvariant, PTL
-----------------------------------------------------------------------------
(* Decisions and cases.                                                    *)

\* The thread is on its way from a decision to its case.
Scoring(t) == pc[t] \in {"save_decision", "get_decision", "save_case"}

\* The stamp of the decision it holds, or holds a case for.
About(t) == IF pc[t] = "save_case" THEN held[t].decision_id ELSE held[t].id

\* A decision in flight belongs to one thread, has no case yet, and is stored
\* by nobody else.
Unqueued(t) ==
  /\ \A u \in Threads : Scoring(u) /\ About(u) = About(t) => u = t
  /\ \A c \in cases : c.decision_id # About(t)
  /\ pc[t] = "save_decision" => \A d \in decisions : d.id # held[t].id
  /\ pc[t] = "get_decision" => \A d \in decisions : d.id = held[t].id => d = held[t]
  /\ pc[t] = "save_case" => held[t].decision_id < held[t].id

\* A manual-review decision has its case, or is on its way to it, or is excused.
Queued(d) ==
  \/ \E c \in cases : c.decision_id = d.id
  \/ \E t \in Threads : Scoring(t) /\ About(t) = d.id
  \/ d.id \in disturbed \union forgotten.cases \union from_cli

\* A decision has one case, and only while the thread that made it is at it.
QueueInv ==
  /\ TypeOK
  /\ \A t \in Threads : Scoring(t) => Unqueued(t)
  /\ \A c \in cases : c.decision_id < c.id
  /\ \A c1, c2 \in cases : c1.decision_id = c2.decision_id => c1 = c2
  /\ \A d \in decisions : NeedsCase(d) => Queued(d)

\* Steps that bring no thread nearer to a case: those of analysts, crashes,
\* prunes and resets.
LEMMA QueueKept ==
  ASSUME QueueInv, TypeOK',
         decisions' \subseteq decisions,
         \A c \in cases' : \E b \in cases : c.id = b.id /\ c.decision_id = b.decision_id,
         \A c1, c2 \in cases' : c1.decision_id = c2.decision_id => c1 = c2,
         \A d \in decisions' : \A b \in cases :
           b.decision_id = d.id =>
             d.id \in forgotten'.cases \/ \E c \in cases' : c.decision_id = d.id,
         \A t \in Threads : Scoring(t)' => pc'[t] = pc[t] /\ held'[t] = held[t],
         \A t \in Threads : Scoring(t) => Scoring(t)' \/ About(t) \in disturbed',
         disturbed \subseteq disturbed', from_cli \subseteq from_cli',
         forgotten.cases \subseteq forgotten'.cases
  PROVE  QueueInv'
<1>1. \A t \in Threads : Scoring(t)' => Scoring(t) /\ About(t)' = About(t)
  BY DEF Scoring, About
<1>2. ASSUME NEW t \in Threads, Scoring(t)' PROVE Unqueued(t)'
  <2>1. Unqueued(t) /\ About(t)' = About(t) /\ pc'[t] = pc[t] /\ held'[t] = held[t]
    BY <1>1, <1>2 DEF QueueInv
  <2>2. \A u \in Threads : Scoring(u)' /\ About(u)' = About(t)' => u = t
    BY <1>1, <2>1 DEF Unqueued
  <2>3. \A c \in cases' : c.decision_id # About(t)'
    BY <2>1 DEF Unqueued
  <2>4. /\ pc'[t] = "save_decision" => \A d \in decisions' : d.id # held'[t].id
        /\ pc'[t] = "get_decision" => \A d \in decisions' : d.id = held'[t].id => d = held'[t]
        /\ pc'[t] = "save_case" => held'[t].decision_id < held'[t].id
    BY <2>1 DEF Unqueued
  <2> QED BY <2>2, <2>3, <2>4 DEF Unqueued
<1>3. \A c \in cases' : c.decision_id < c.id
  BY DEF QueueInv
<1>4. ASSUME NEW d \in decisions', NeedsCase(d) PROVE Queued(d)'
  <2>1. Queued(d)
    BY <1>4 DEF QueueInv
  <2>2. CASE \E c \in cases : c.decision_id = d.id
    BY <2>2 DEF Queued
  <2>3. CASE \E t \in Threads : Scoring(t) /\ About(t) = d.id
    <3>1. PICK t \in Threads : Scoring(t) /\ About(t) = d.id
      BY <2>3
    <3>2. CASE Scoring(t)'
      BY <3>1, <3>2, <1>1 DEF Queued
    <3>3. CASE ~Scoring(t)'
      BY <3>1, <3>3 DEF Queued
    <3> QED BY <3>2, <3>3
  <2>4. CASE d.id \in disturbed \union forgotten.cases \union from_cli
    BY <2>4 DEF Queued
  <2> QED BY <2>1, <2>2, <2>3, <2>4 DEF Queued
<1>5. \A d \in decisions' : NeedsCase(d)' => Queued(d)'
  BY <1>4 DEF NeedsCase
<1> QED BY <1>2, <1>3, <1>5 DEF QueueInv

\* A new decision has a stamp that nothing carries.
LEMMA MakingKeepsQueue ==
  ASSUME QueueInv, TypeOK', NEW s \in Scorers,
         NEW surface, NEW target, NEW asOf, NEW large,
         MakeDecision(s, surface, target, asOf, large)
  PROVE  QueueInv'
<1> s \in Threads
  BY DEF Threads
<1>1. /\ pc'[s] = "save_decision" /\ held'[s].id = clock + 1
      /\ \A u \in Threads \ {s} : pc'[u] = pc[u] /\ held'[u] = held[u]
      /\ UNCHANGED <<decisions, cases, disturbed, forgotten>> /\ from_cli \subseteq from_cli'
      /\ pc[s] = "idle"
  BY DEF MakeDecision, tables, history, Go, Hold, QueueInv, TypeOK, ThreadsOK
<1>2. Scoring(s)' /\ About(s)' = clock + 1
  BY <1>1 DEF Scoring, About
<1>3. \A u \in Threads \ {s} : (Scoring(u)' <=> Scoring(u)) /\ About(u)' = About(u)
  BY <1>1 DEF Scoring, About
<1>4. /\ clock \in Nat
      /\ \A u \in Threads \ {s} : Scoring(u) => About(u) \in Stamp
      /\ \A c \in cases : c.decision_id \in Stamp
      /\ \A d \in decisions : d.id \in Stamp
  BY DEF QueueInv, TypeOK, ThreadsOK, TablesOK, CountersOK, Fits, Scoring, About, Decision, Case
<1>5. clock + 1 \notin Stamp
  BY <1>4 DEF Stamp
<1>6. Unqueued(s)'
  BY <1>1, <1>2, <1>3, <1>4, <1>5 DEF Unqueued
<1>7. ASSUME NEW u \in Threads \ {s}, Scoring(u)' PROVE Unqueued(u)'
  <2>1. Scoring(u) /\ Unqueued(u)
    BY <1>3, <1>7 DEF QueueInv
  <2>2. \A v \in Threads : Scoring(v)' /\ About(v)' = About(u)' => v = u
    BY <2>1, <1>2, <1>3, <1>4, <1>5 DEF Unqueued
  <2> QED BY <1>1, <1>3, <2>1, <2>2 DEF Unqueued
<1>8. ASSUME NEW d \in decisions', NeedsCase(d) PROVE Queued(d)'
  <2>1. Queued(d)
    BY <1>1, <1>8 DEF QueueInv
  <2>2. \A t \in Threads : Scoring(t) => t # s
    BY <1>1 DEF Scoring
  <2> QED BY <1>1, <1>3, <2>1, <2>2 DEF Queued
<1>9. \A d \in decisions' : NeedsCase(d)' => Queued(d)'
  BY <1>8 DEF NeedsCase
<1> QED BY <1>1, <1>6, <1>7, <1>9 DEF QueueInv

\* The stored decision stays in flight, unless the CLI made it.
LEMMA SavingKeepsQueue ==
  ASSUME QueueInv, TypeOK', NEW s \in Scorers, SaveDecision(s)
  PROVE  QueueInv'
<1> s \in Threads
  BY DEF Threads
<1>1. /\ decisions' = decisions \union {held[s]} /\ UNCHANGED <<cases, disturbed, forgotten, from_cli>>
      /\ pc[s] = "save_decision"
      /\ \A u \in Threads \ {s} : pc'[u] = pc[u] /\ held'[u] = held[u]
      /\ \/ held[s].id \in from_cli /\ pc'[s] = "idle"
         \/ pc'[s] = "get_decision" /\ held'[s] = held[s]
  BY DEF SaveDecision, history, End, Go, Hold, QueueInv, TypeOK, ThreadsOK
<1>2. \A u \in Threads : Scoring(u)' => Scoring(u) /\ About(u)' = About(u)
  BY <1>1 DEF Scoring, About
<1>3. \A u \in Threads \ {s} : Scoring(u) => Scoring(u)'
  BY <1>1 DEF Scoring
<1>4. Scoring(s) /\ About(s) = held[s].id /\ Unqueued(s)
  BY <1>1 DEF Scoring, About, QueueInv
<1>5. ASSUME NEW u \in Threads, Scoring(u)' PROVE Unqueued(u)'
  <2>1. Unqueued(u) /\ Scoring(u) /\ About(u)' = About(u)
    BY <1>2, <1>5 DEF QueueInv
  <2>2. \A v \in Threads : Scoring(v)' /\ About(v)' = About(u)' => v = u
    BY <1>2, <2>1 DEF Unqueued
  <2>3. \A c \in cases' : c.decision_id # About(u)'
    BY <1>1, <2>1 DEF Unqueued
  <2>4. CASE u = s
    <3>1. pc'[s] = "get_decision" /\ held'[s] = held[s]
      BY <1>1, <1>5, <2>4 DEF Scoring
    <3> QED BY <1>1, <1>4, <2>2, <2>3, <2>4, <3>1 DEF Unqueued
  <2>5. CASE u # s
    <3>1. pc[u] \in {"save_decision", "get_decision"} => held[u].id # held[s].id
      BY <1>4, <2>1, <2>5 DEF Unqueued, About
    <3> QED BY <1>1, <2>1, <2>2, <2>3, <2>5, <3>1 DEF Unqueued
  <2> QED BY <2>4, <2>5
<1>6. ASSUME NEW d \in decisions', NeedsCase(d) PROVE Queued(d)'
  <2>1. CASE d = held[s]
    <3>1. CASE held[s].id \in from_cli
      BY <1>1, <2>1, <3>1 DEF Queued
    <3>2. CASE pc'[s] = "get_decision" /\ held'[s] = held[s]
      <4>1. Scoring(s)' /\ About(s)' = d.id
        BY <2>1, <3>2 DEF Scoring, About
      <4> QED BY <4>1 DEF Queued
    <3> QED BY <1>1, <3>1, <3>2
  <2>2. CASE d \in decisions
    <3>1. Queued(d)
      BY <1>6, <2>2 DEF QueueInv
    <3>2. CASE \E t \in Threads : Scoring(t) /\ About(t) = d.id
      <4>1. PICK t \in Threads : Scoring(t) /\ About(t) = d.id
        BY <3>2
      <4>2. t # s
        BY <1>1, <1>4, <2>2, <4>1 DEF Unqueued
      <4> QED BY <1>2, <1>3, <4>1, <4>2 DEF Queued
    <3> QED BY <1>1, <3>1, <3>2 DEF Queued
  <2> QED BY <1>1, <2>1, <2>2
<1>7. \A d \in decisions' : NeedsCase(d)' => Queued(d)'
  BY <1>6 DEF NeedsCase
<1> QED BY <1>1, <1>5, <1>7 DEF QueueInv

\* A thread that finds its decision gone, or in no need of a case, leaves no
\* other decision without one.
LEMMA GettingKeepsQueue ==
  ASSUME QueueInv, TypeOK', NEW s \in Scorers, GetDecision(s)
  PROVE  QueueInv'
<1> s \in Threads
  BY DEF Threads
<1>1. /\ UNCHANGED <<decisions, cases, disturbed, forgotten, from_cli>>
      /\ pc[s] = "get_decision"
      /\ \A u \in Threads \ {s} : pc'[u] = pc[u] /\ held'[u] = held[u]
      /\ \/ /\ pc'[s] = "save_case"
            /\ held'[s].id = clock + 1 /\ held'[s].decision_id = held[s].id
         \/ pc'[s] = "idle" /\ ~(held[s] \in decisions /\ NeedsCase(held[s]))
  BY DEF GetDecision, tables, history, End, Go, Hold, QueueInv, TypeOK, ThreadsOK
<1>2. \A u \in Threads : Scoring(u)' => Scoring(u) /\ About(u)' = About(u)
  BY <1>1 DEF Scoring, About
<1>3. \A u \in Threads \ {s} : Scoring(u) => Scoring(u)'
  BY <1>1 DEF Scoring
<1>4. /\ Scoring(s) /\ About(s) = held[s].id /\ Unqueued(s)
      /\ held[s].id < clock + 1
  BY <1>1 DEF Scoring, About, QueueInv, TypeOK, ThreadsOK, Fits, Decision, Stamp, CountersOK
<1>5. ASSUME NEW u \in Threads, Scoring(u)' PROVE Unqueued(u)'
  <2>1. Unqueued(u) /\ Scoring(u) /\ About(u)' = About(u)
    BY <1>2, <1>5 DEF QueueInv
  <2>2. \A v \in Threads : Scoring(v)' /\ About(v)' = About(u)' => v = u
    BY <1>2, <2>1 DEF Unqueued
  <2>3. \A c \in cases' : c.decision_id # About(u)'
    BY <1>1, <2>1 DEF Unqueued
  <2>4. CASE u = s
    <3>1. /\ pc'[s] = "save_case"
          /\ held'[s].id = clock + 1 /\ held'[s].decision_id = held[s].id
      BY <1>1, <1>5, <2>4 DEF Scoring
    <3> QED BY <1>4, <2>2, <2>3, <2>4, <3>1 DEF Unqueued
  <2>5. CASE u # s
    BY <1>1, <2>1, <2>2, <2>3, <2>5 DEF Unqueued
  <2> QED BY <2>4, <2>5
<1>6. ASSUME NEW d \in decisions', NeedsCase(d) PROVE Queued(d)'
  <2>1. Queued(d) /\ d \in decisions
    BY <1>1, <1>6 DEF QueueInv
  <2>2. CASE \E t \in Threads : Scoring(t) /\ About(t) = d.id
    <3>1. PICK t \in Threads : Scoring(t) /\ About(t) = d.id
      BY <2>2
    <3>2. CASE t = s
      <4>1. d = held[s]
        BY <1>1, <1>4, <2>1, <3>1, <3>2 DEF Unqueued
      <4>2. pc'[s] = "save_case" /\ held'[s].decision_id = held[s].id
        BY <1>1, <1>6, <2>1, <4>1
      <4>3. Scoring(s)' /\ About(s)' = d.id
        BY <4>1, <4>2 DEF Scoring, About
      <4> QED BY <4>3 DEF Queued
    <3>3. CASE t # s
      BY <1>2, <1>3, <3>1, <3>3 DEF Queued
    <3> QED BY <3>2, <3>3
  <2> QED BY <1>1, <2>1, <2>2 DEF Queued
<1>7. \A d \in decisions' : NeedsCase(d)' => Queued(d)'
  BY <1>6 DEF NeedsCase
<1> QED BY <1>1, <1>5, <1>7 DEF QueueInv

\* The case is the first one of its decision.
LEMMA QueueingKeepsQueue ==
  ASSUME QueueInv, TypeOK', NEW s \in Scorers, SaveReviewCase(s)
  PROVE  QueueInv'
<1> s \in Threads
  BY DEF Threads
<1>1. /\ cases' = cases \union {held[s]} /\ UNCHANGED <<decisions, disturbed, forgotten, from_cli>>
      /\ pc[s] = "save_case" /\ pc'[s] = "idle"
      /\ \A u \in Threads \ {s} : pc'[u] = pc[u] /\ held'[u] = held[u]
  BY DEF SaveReviewCase, history, End, Go, Hold, QueueInv, TypeOK, ThreadsOK
<1>2. Scoring(s) /\ About(s) = held[s].decision_id /\ Unqueued(s) /\ ~Scoring(s)'
  BY <1>1 DEF Scoring, About, QueueInv
<1>3. \A u \in Threads \ {s} : (Scoring(u)' <=> Scoring(u)) /\ About(u)' = About(u)
  BY <1>1 DEF Scoring, About
<1>4. ASSUME NEW u \in Threads, Scoring(u)' PROVE Unqueued(u)'
  <2>1. u # s /\ Scoring(u) /\ Unqueued(u) /\ About(u)' = About(u)
    BY <1>2, <1>3, <1>4 DEF QueueInv
  <2>2. \A v \in Threads : Scoring(v)' /\ About(v)' = About(u)' => v = u
    BY <1>2, <1>3, <2>1 DEF Unqueued
  <2>3. \A c \in cases' : c.decision_id # About(u)'
    BY <1>1, <1>2, <2>1 DEF Unqueued
  <2> QED BY <1>1, <2>1, <2>2, <2>3 DEF Unqueued
<1>5. \A c \in cases' : c.decision_id < c.id
  BY <1>1, <1>2 DEF QueueInv, Unqueued
<1>6. \A c1, c2 \in cases' : c1.decision_id = c2.decision_id => c1 = c2
  BY <1>1, <1>2 DEF QueueInv, Unqueued
<1>7. ASSUME NEW d \in decisions', NeedsCase(d) PROVE Queued(d)'
  <2>1. Queued(d)
    BY <1>1, <1>7 DEF QueueInv
  <2>2. CASE \E t \in Threads : Scoring(t) /\ About(t) = d.id
    <3>1. PICK t \in Threads : Scoring(t) /\ About(t) = d.id
      BY <2>2
    <3>2. CASE t = s
      BY <1>1, <1>2, <3>1, <3>2 DEF Queued
    <3>3. CASE t # s
      BY <1>3, <3>1, <3>3 DEF Queued
    <3> QED BY <3>2, <3>3
  <2> QED BY <1>1, <2>1, <2>2 DEF Queued
<1>8. \A d \in decisions' : NeedsCase(d)' => Queued(d)'
  BY <1>7 DEF NeedsCase
<1> QED BY <1>4, <1>5, <1>6, <1>8 DEF QueueInv

\* Closing a case changes neither its stamp nor its decision.
LEMMA ClosingKeepsQueue ==
  ASSUME QueueInv, TypeOK', NEW a \in Analysts, SaveReviewDecision(a)
  PROVE  QueueInv'
<1> a \in Threads
  BY DEF Threads
<1> DEFINE After(c) == IF c.id = held[a].case_id THEN Closed(c, held[a]) ELSE c
<1>1. cases' = {After(c) : c \in cases} /\ UNCHANGED <<decisions, disturbed, forgotten, from_cli>>
  BY DEF SaveReviewDecision, history
<1>2. /\ \A u \in Threads : Scoring(u)' => pc'[u] = pc[u] /\ held'[u] = held[u]
      /\ \A u \in Threads : Scoring(u) => Scoring(u)'
  BY DEF SaveReviewDecision, Go, QueueInv, TypeOK, ThreadsOK, Scoring
<1>3. \A c \in cases : After(c).id = c.id /\ After(c).decision_id = c.decision_id
  BY ClosedIsCase DEF QueueInv, TypeOK, TablesOK
<1>4. \A b1, b2 \in cases : b1.decision_id = b2.decision_id => b1 = b2
  BY DEF QueueInv
<1> HIDE DEF After
<1>5. \A c \in cases' : \E b \in cases : c.id = b.id /\ c.decision_id = b.decision_id
  BY <1>1, <1>3
<1>6. ASSUME NEW c1 \in cases', NEW c2 \in cases', c1.decision_id = c2.decision_id
      PROVE  c1 = c2
  <2>1. PICK b1 \in cases : c1 = After(b1)
    BY <1>1
  <2>2. PICK b2 \in cases : c2 = After(b2)
    BY <1>1
  <2>3. b1 = b2
    BY <1>3, <1>4, <1>6, <2>1, <2>2
  <2> QED BY <2>1, <2>2, <2>3
<1>7. \A b \in cases : \E c \in cases' : c.decision_id = b.decision_id
  BY <1>1, <1>3
<1>8. \A d \in decisions' : \A b \in cases :
        b.decision_id = d.id => \E c \in cases' : c.decision_id = d.id
  BY <1>7
<1> QED BY <1>1, <1>2, <1>5, <1>6, <1>8, QueueKept

\* Every step keeps the queue.
THEOREM QueueInvariant == Spec => []QueueInv
<1>1. Init /\ TypeOK => QueueInv
  <2> SUFFICES ASSUME Init, TypeOK PROVE QueueInv
    OBVIOUS
  <2>1. \A t \in Threads : ~Scoring(t)
    BY DEF Init, Scoring
  <2> QED BY <2>1 DEF Init, QueueInv
<1>2. QueueInv /\ TypeOK' /\ [Next]_vars => QueueInv'
  <2> SUFFICES ASSUME QueueInv, TypeOK', [Next]_vars PROVE QueueInv'
    OBVIOUS
  <2>1. TypeOK /\ \A c1, c2 \in cases : c1.decision_id = c2.decision_id => c1 = c2
    BY DEF QueueInv
  <2>2. CASE Ingest
    BY <2>1, <2>2, QueueKept DEF Ingest, threads, history, Scoring
  <2>3. ASSUME NEW s \in Scorers, Score(s) PROVE QueueInv'
    BY <2>3, MakingKeepsQueue, SavingKeepsQueue, GettingKeepsQueue, QueueingKeepsQueue DEF Score
  <2>4. ASSUME NEW a \in Analysts, Decide(a) PROVE QueueInv'
    <3> a \in Threads
      BY DEF Threads
    <3>1. ASSUME NEW case \in cases, NEW outcome, ReadCase(a, case, outcome)
          PROVE  QueueInv'
      BY <2>1, <3>1, QueueKept
      DEF ReadCase, tables, history, Go, Hold, TypeOK, ThreadsOK, Scoring
    <3>2. CASE SaveReviewDecision(a)
      BY <3>2, ClosingKeepsQueue
    <3>3. CASE AddReviewEvent(a)
      BY <2>1, <3>3, QueueKept
      DEF AddReviewEvent, history, End, Go, Hold, TypeOK, ThreadsOK, Scoring
    <3>4. CASE AddLabel(a)
      BY <2>1, <3>4, QueueKept
      DEF AddLabel, history, End, Go, Hold, TypeOK, ThreadsOK, Scoring
    <3> QED BY <2>4, <3>1, <3>2, <3>3, <3>4 DEF Decide
  <2>5. ASSUME NEW t \in Threads, Crash(t) PROVE QueueInv'
    <3>1. /\ UNCHANGED <<decisions, cases, forgotten, from_cli>>
          /\ disturbed' = disturbed \union Stamps(t)
          /\ \A u \in Threads \ {t} : pc'[u] = pc[u] /\ held'[u] = held[u]
          /\ pc'[t] = "idle"
      BY <2>1, <2>5 DEF Crash, tables, End, Go, Hold, TypeOK, ThreadsOK
    <3>2. Scoring(t) => About(t) \in disturbed'
      BY <3>1 DEF Scoring, About, Stamps
    <3>3. /\ \A u \in Threads : Scoring(u)' => pc'[u] = pc[u] /\ held'[u] = held[u]
          /\ \A u \in Threads : Scoring(u) => Scoring(u)' \/ About(u) \in disturbed'
      BY <3>1, <3>2 DEF Scoring
    <3> QED BY <2>1, <3>1, <3>3, QueueKept
  <2>6. ASSUME NEW asOf \in 1 .. clock + 1, NEW kept \in Periods, PruneRetention(asOf, kept)
        PROVE  QueueInv'
    <3>1. /\ decisions' \subseteq decisions /\ cases' \subseteq cases
          /\ forgotten'.cases = forgotten.cases \union {c.decision_id : c \in cases \ cases'}
          /\ disturbed \subseteq disturbed' /\ UNCHANGED <<pc, held, from_cli>>
      BY <2>6 DEF PruneRetention, From, Deleted, threads
    <3>3. \A e \in decisions' : \A b \in cases :
            b.decision_id = e.id =>
              e.id \in forgotten'.cases \/ \E c \in cases' : c.decision_id = e.id
      BY <3>1
    <3> QED BY <2>1, <3>1, <3>3, QueueKept DEF Scoring
  <2>7. CASE ResetDemoData
    BY <2>7, QueueKept DEF ResetDemoData, Deleted, threads, Scoring
  <2>8. CASE UNCHANGED vars
    BY <2>1, <2>8, QueueKept DEF vars, tables, threads, history, Scoring
  <2> QED BY <2>2, <2>3, <2>4, <2>5, <2>6, <2>7, <2>8 DEF Next
<1> QED BY <1>1, <1>2, TypeCorrect, PTL DEF Spec

\* Every manual-review decision of the API gets one case, for any number of
\* scoring threads and any periods of retention: nobody else queues it, and only
\* a killed request, deletions during it and a prune of cases leave it without.
THEOREM YellowDecisionsQueued == Spec => []YellowDecisionsAreQueued
<1>1. QueueInv => YellowDecisionsAreQueued
  <2> SUFFICES ASSUME QueueInv, NEW d \in decisions
               PROVE  LET queued == {c \in cases : c.decision_id = d.id} IN
                      /\ Cardinality(queued) <= 1
                      /\ d.action = "MANUAL_REVIEW" /\ queued = {} =>
                           InFlight(d.id) \/ d.id \in disturbed \union forgotten.cases \union from_cli
    BY DEF YellowDecisionsAreQueued
  <2> DEFINE queued == {c \in cases : c.decision_id = d.id}
  <2>1. Cardinality(queued) <= 1
    <3>1. queued = {} \/ \E c \in cases : queued = {c}
      BY DEF QueueInv
    <3> HIDE DEF queued
    <3>2. Cardinality(queued) = 0 \/ Cardinality(queued) = 1
      BY <3>1, FS_EmptySet, FS_Singleton
    <3> QED BY <3>2
  <2>2. ASSUME d.action = "MANUAL_REVIEW", queued = {}
        PROVE  InFlight(d.id) \/ d.id \in disturbed \union forgotten.cases \union from_cli
    <3>1. Queued(d)
      BY <2>2 DEF QueueInv, NeedsCase
    <3>2. ASSUME NEW t \in Threads, Scoring(t), About(t) = d.id PROVE InFlight(d.id)
      BY <3>2 DEF Scoring, About, InFlight, Stamps
    <3> QED BY <2>2, <3>1, <3>2 DEF Queued
  <2> QED BY <2>1, <2>2
<1> QED BY <1>1, QueueInvariant, PTL
=============================================================================
