--------------------------- MODULE ReviewWorkflow ---------------------------
(***************************************************************************)
(* The feedback loop of fraud_v2: a request scores an entity and stores    *)
(* the decision (DecisionEngine.score), a second transaction queues a case *)
(* for it (ReviewService.ensure_case_for_decision), an analyst decides the *)
(* case (ReviewService.decide) and the verdict comes back as a label event *)
(* that later scores read.                                                 *)
(*                                                                         *)
(* Every request is a thread, or a CLI process, with connections of its    *)
(* own; each step below is one transaction or one SELECT, and what a       *)
(* thread holds in memory may be stale.  A uuid and the created_at taken   *)
(* with it are one stamp of a clock that every new object advances.        *)
(***************************************************************************)
EXTENDS Scoring

CONSTANTS
  Scorers,         \* threads that score
  Surfaces,        \* subset of {"api", "cli"}: only the API queues cases
  Analysts,        \* threads that submit review outcomes
  Targets,         \* the entities they are about
  Amounts,         \* whether the amounts of requests are large
  Outcomes,        \* subset of ReviewOutcome
  Observed,        \* events ingested from outside, as one batch
  Maintenance,     \* subset of {"prune", "reset"}
  Periods,         \* how long prunes keep events, decisions and reviews
  MaxLag,          \* bound: how far in the past as_of lies
  MaxDecisions,    \* bound: decisions made
  MaxReviews,      \* bound: outcomes submitted
  MaxIncidents,    \* bound: threads killed, prunes and resets
  Nothing          \* a thread holds nothing

ASSUME ReviewAssumption ==
  /\ Surfaces \subseteq {"api", "cli"}
  /\ Scorers \intersect Analysts = {}
  /\ \A e \in Targets : e = Entity(e.type, e.id)
  /\ \A e \in Observed : e.at \in (0 - MaxLag) .. 0 /\ e.key[1] = "observed"
  /\ Maintenance \subseteq {"prune", "reset"}
  /\ Periods \subseteq [events : Nat, decisions : Nat, reviews : Nat]
  /\ MaxLag \in Nat /\ MaxDecisions \in Nat /\ MaxReviews \in Nat
  /\ MaxIncidents \in Nat

Threads == Scorers \union Analysts

VARIABLES
  events,      \* the events table
  decisions,   \* the decisions table
  cases,       \* the review_cases table
  reviews,     \* the review_decisions table
  pc,          \* where each thread is
  held,        \* the decision or review it has in memory
  clock,       \* the last stamp taken
  made,        \* how many decisions, reviews and incidents there were
  disturbed,   \* stamps of what threads held when they were killed, or when
               \* rows were deleted under them (only properties read it)
  forgotten,   \* what prunes deleted: stamps of events and reviews, and of
               \* the decisions whose cases they deleted (likewise)
  from_cli     \* stamps of the decisions of the CLI's score command

tables == <<events, decisions, cases, reviews>>
threads == <<pc, held>>
history == <<disturbed, forgotten>>
vars == <<tables, threads, clock, made, history, from_cli>>

\* The store holds what was ingested from outside before.
Init ==
  /\ events = Observed /\ decisions = {} /\ cases = {} /\ reviews = {}
  /\ pc = [t \in Threads |-> "idle"]
  /\ held = [t \in Threads |-> Nothing]
  /\ clock = 0
  /\ made = [decisions |-> 0, reviews |-> 0, incidents |-> 0]
  /\ disturbed = {} /\ from_cli = {}
  /\ forgotten = [events |-> {}, cases |-> {}, reviews |-> {}]

Go(t, label) == pc' = [pc EXCEPT ![t] = label]

Hold(t, object) == held' = [held EXCEPT ![t] = object]

\* The request is answered, or an exception ends it.
End(t) == Go(t, "idle") /\ Hold(t, Nothing)

Tick == clock' = clock + 1

\* add_event: an event whose key is known is stored again only if it is the
\* same one; another one is refused with DuplicatePayloadConflict.
Refused(e) == \E f \in events : f.key = e.key /\ f # e

AddEvent(e) == events' = IF Refused(e) THEN events ELSE events \union {e}

\* They reach the store through the API, a file or the stream; the demo adds
\* them again when it finds the store empty.
Ingest ==
  /\ ~(Observed \subseteq events)
  /\ events' = events \union Observed
  /\ UNCHANGED <<decisions, cases, reviews, threads, clock, made, history, from_cli>>

-----------------------------------------------------------------------------
(* DecisionEngine.score and ReviewService.ensure_case_for_decision.        *)

\* Everything up to save_decision: one SELECT of all events.  as_of is the
\* client's; the CLI takes the time of the last event of an earlier SELECT.
\* Nothing is stored when the graph search raises.
MakeDecision(s, surface, target, asOf, large) ==
  LET d == Preview(events, target, asOf, large) IN
  /\ pc[s] = "idle"
  /\ made.decisions < MaxDecisions
  /\ ~SearchRaises(events, target)
  /\ Tick
  /\ made' = [made EXCEPT !.decisions = @ + 1]
  /\ Hold(s, [id |-> clock + 1, target |-> target, as_of |-> asOf,
              risk_score |-> d.score, action |-> d.action])
  /\ Go(s, "save_decision")
  /\ from_cli' = from_cli \union (IF surface = "cli" THEN {clock + 1} ELSE {})
  /\ UNCHANGED <<tables, history>>

SaveDecision(s) ==
  /\ pc[s] = "save_decision"
  /\ decisions' = decisions \union {held[s]}
  /\ IF held[s].id \in from_cli THEN End(s) ELSE Go(s, "get_decision") /\ UNCHANGED held
  /\ UNCHANGED <<events, cases, reviews, clock, made, history, from_cli>>

\* Fault: only the decisions of the upper half of the band are queued.
NeedsCase_HighOnly(d) == d.action = "MANUAL_REVIEW" /\ 2 * d.risk_score > GreenMax + RedMin

NeedsCase(d) == d.action = "MANUAL_REVIEW"

\* get_decision: DecisionNotFound when the decision is gone.
GetDecision(s) ==
  /\ pc[s] = "get_decision"
  /\ IF held[s] \in decisions /\ NeedsCase(held[s])
       THEN /\ Go(s, "save_case")
            /\ Tick
            /\ Hold(s, [id |-> clock + 1, decision_id |-> held[s].id,
                        target_entity_id |-> held[s].target.id,
                        priority |-> held[s].risk_score, status |-> "open"])
       ELSE End(s) /\ UNCHANGED clock
  /\ UNCHANGED <<tables, made, history, from_cli>>

SaveReviewCase(s) ==
  /\ pc[s] = "save_case"
  /\ cases' = cases \union {held[s]}
  /\ End(s)
  /\ UNCHANGED <<events, decisions, reviews, clock, made, history, from_cli>>

-----------------------------------------------------------------------------
(* ReviewService.decide.                                                   *)

\* list_review_cases finds the case, whatever its status.
ReadCase(a, case, outcome) ==
  /\ pc[a] = "idle"
  /\ made.reviews < MaxReviews
  /\ Tick
  /\ made' = [made EXCEPT !.reviews = @ + 1]
  /\ Hold(a, [id |-> clock + 1, case_id |-> case.id, outcome |-> outcome,
              target |-> Entity("USER", case.target_entity_id)])
  /\ Go(a, "save_review")
  /\ UNCHANGED <<tables, history, from_cli>>

\* Fault: a case that needs more information stays open.
Closed_FinalOnly(case, review) ==
  IF review.outcome \in {"CONFIRMED_FRAUD", "CONFIRMED_LEGITIMATE"}
    THEN [case EXCEPT !.status = "closed"] ELSE case

\* The case after any review decision.
Closed(case, review) == [case EXCEPT !.status = "closed"]

\* save_review_decision.  (Its SELECT of the case comes before the
\* transaction; nobody else changes a case, and one that is gone stays so.)
SaveReviewDecision(a) ==
  /\ pc[a] = "save_review"
  /\ reviews' = reviews \union {held[a]}
  /\ cases' = {IF c.id = held[a].case_id THEN Closed(c, held[a]) ELSE c : c \in cases}
  /\ Go(a, "add_review_event")
  /\ UNCHANGED <<events, decisions, held, clock, made, history, from_cli>>

\* The event that carries the review: `occurred_at` is the review's.
ReviewEvent(review) ==
  [key |-> <<"review", review.id>>, type |-> "MANUAL_REVIEW_DECIDED", at |-> review.id,
   refs |-> <<review.target>>,
   payload |-> [case_id |-> review.case_id, outcome |-> review.outcome]]

\* Fault: what is not confirmed as fraud counts as legitimate.
LabelValue_Default ==
  [o \in Outcomes |-> IF o = "CONFIRMED_FRAUD" THEN "FRAUD" ELSE "LEGITIMATE"]

LabelValue ==
  [CONFIRMED_FRAUD |-> "FRAUD", CONFIRMED_LEGITIMATE |-> "LEGITIMATE"]

IsFinal(review) == review.outcome \in DOMAIN LabelValue

\* Fault: one label for each case.
LabelKey_PerCase(review) == <<"label", review.case_id>>

LabelKey(review) == <<"label", review.id>>

LabelEvent(review) ==
  [key |-> LabelKey(review), type |-> "LABEL_CREATED", at |-> review.id,
   refs |-> <<review.target>>,
   payload |-> [target_entity |-> review.target, label_value |-> LabelValue[review.outcome]]]

AddReviewEvent(a) ==
  LET e == ReviewEvent(held[a]) IN
  /\ pc[a] = "add_review_event"
  /\ AddEvent(e)
  /\ IF IsFinal(held[a]) /\ ~Refused(e) THEN Go(a, "add_label") /\ UNCHANGED held
                                        ELSE End(a)
  /\ UNCHANGED <<decisions, cases, reviews, clock, made, history, from_cli>>

AddLabel(a) ==
  /\ pc[a] = "add_label"
  /\ AddEvent(LabelEvent(held[a]))
  /\ End(a)
  /\ UNCHANGED <<decisions, cases, reviews, clock, made, history, from_cli>>

-----------------------------------------------------------------------------
(* What else happens to the tables and the threads.                        *)

Incident ==
  /\ made.incidents < MaxIncidents
  /\ made' = [made EXCEPT !.incidents = @ + 1]

\* The stamps of what a thread holds.
Stamps(t) ==
  IF pc[t] = "idle" THEN {}
  ELSE IF pc[t] = "save_case" THEN {held[t].id, held[t].decision_id} ELSE {held[t].id}

\* The process is killed between two transactions.
Crash(t) ==
  /\ pc[t] # "idle"
  /\ Incident
  /\ disturbed' = disturbed \union Stamps(t)
  /\ End(t)
  /\ UNCHANGED <<tables, clock, forgotten, from_cli>>

Deleted ==
  /\ Incident
  /\ disturbed' = disturbed \union UNION {Stamps(t) : t \in Threads}

From(table, cutoff) == {r \in table : r.id >= cutoff}

\* prune_retention: events, decisions, and reviews with their cases are kept
\* for periods of their own, counted from as_of.
PruneRetention(asOf, kept) ==
  /\ "prune" \in Maintenance
  /\ Deleted
  /\ events' = Since(events, asOf - kept.events)
  /\ decisions' = From(decisions, asOf - kept.decisions)
  /\ cases' = From(cases, asOf - kept.reviews)
  /\ reviews' = From(reviews, asOf - kept.reviews)
  /\ forgotten' = [events |-> forgotten.events \union {e.at : e \in events \ events'},
                   cases |-> forgotten.cases \union {c.decision_id : c \in cases \ cases'},
                   reviews |-> forgotten.reviews \union {r.id : r \in reviews \ reviews'}]
  /\ UNCHANGED <<threads, clock, from_cli>>

\* reset_demo_data; the demo's events come back through Ingest.
ResetDemoData ==
  /\ "reset" \in Maintenance
  /\ Deleted
  /\ events' = {} /\ decisions' = {} /\ cases' = {} /\ reviews' = {}
  /\ UNCHANGED <<threads, clock, forgotten, from_cli>>

AsOf(surface) ==
  IF surface = "cli" THEN {e.at : e \in events} ELSE clock - MaxLag .. clock

Score(s) ==
  \/ \E surface \in Surfaces, target \in Targets, large \in Amounts :
       \E asOf \in AsOf(surface) :
         /\ surface = "cli" => target.type = "USER"
         /\ MakeDecision(s, surface, target, asOf, large)
  \/ SaveDecision(s) \/ GetDecision(s) \/ SaveReviewCase(s)

Decide(a) ==
  \/ \E case \in cases, outcome \in Outcomes : ReadCase(a, case, outcome)
  \/ SaveReviewDecision(a) \/ AddReviewEvent(a) \/ AddLabel(a)

Next ==
  \/ Ingest
  \/ \E s \in Scorers : Score(s)
  \/ \E a \in Analysts : Decide(a)
  \/ \E t \in Threads : Crash(t)
  \/ \E asOf \in 1 .. clock + 1, kept \in Periods : PruneRetention(asOf, kept)
  \/ ResetDemoData

Spec == Init /\ [][Next]_vars
-----------------------------------------------------------------------------
(* Properties.                                                             *)

Stamp == 1 .. clock

Decision ==
  [id : Stamp, target : Targets, as_of : (0 - MaxLag) .. clock, risk_score : 0 .. 100,
   action : {"APPROVE", "MANUAL_REVIEW", "BLOCK"}]

Case ==
  [id : Stamp, decision_id : Stamp, target_entity_id : {e.id : e \in Targets},
   priority : 0 .. 100, status : {"open", "closed"}]

Review ==
  [id : Stamp, case_id : Stamp, outcome : Outcomes,
   target : {Entity("USER", e.id) : e \in Targets}]

TablesOK ==
  /\ \A e \in events \ Observed :
       /\ e.type \in {"MANUAL_REVIEW_DECIDED", "LABEL_CREATED"}
       /\ e.key \in {"review", "label"} \X Stamp /\ e.at \in Stamp
  /\ decisions \subseteq Decision
  /\ cases \subseteq Case
  /\ reviews \subseteq Review

\* What a thread holds at each of its steps.
Fits(label, object) ==
  /\ label = "idle" => object = Nothing
  /\ label \in {"save_decision", "get_decision"} => object \in Decision
  /\ label = "save_case" => object \in Case
  /\ label \in {"save_review", "add_review_event", "add_label"} => object \in Review

ThreadsOK ==
  /\ pc \in [Threads -> {"idle", "save_decision", "get_decision", "save_case",
                         "save_review", "add_review_event", "add_label"}]
  /\ held \in [Threads -> Decision \union Case \union Review \union {Nothing}]
  /\ \A t \in Threads : Fits(pc[t], held[t])

CountersOK ==
  /\ clock \in Nat
  /\ forgotten \in [events : SUBSET Int, cases : SUBSET Int, reviews : SUBSET Int]
  /\ disturbed \subseteq Stamp /\ from_cli \subseteq Stamp
  /\ made \in [decisions : 0 .. MaxDecisions, reviews : 0 .. MaxReviews,
                incidents : 0 .. MaxIncidents]

TypeOK == TablesOK /\ ThreadsOK /\ CountersOK

\* A label is in the store only on the word of an analyst: the review event
\* beside it and its review decision say what it says, unless rows were deleted
\* while decide was between its transactions.  A prune that keeps reviews for
\* less long than events takes the review decision, never the event alone.
LabelsAreBacked ==
  \A l \in OfType(events, {"LABEL_CREATED"}) \ Observed :
    LET outcome == IF l.payload.label_value = "FRAUD" THEN "CONFIRMED_FRAUD"
                                                      ELSE "CONFIRMED_LEGITIMATE" IN
    \/ l.at \in disturbed
    \/ /\ \E e \in events : e.key = <<"review", l.at>> /\ e.payload.outcome = outcome
       /\ \/ \E r \in reviews : r.id = l.at /\ r.outcome = outcome
          \/ l.at \in forgotten.reviews

\* A case is closed exactly when a review decision about it is stored: no
\* interleaving of analysts, pruning and resets reopens a case or closes one
\* that nobody decided.
CaseStatusTracksReviews ==
  \A c \in cases : c.status = "closed" <=> \E r \in reviews : r.case_id = c.id

InFlight(stamp) == \E t \in Threads : stamp \in Stamps(t)

\* Every manual-review decision of the API has one case, as soon as its
\* request is through; it is without one only when its request was killed or
\* rows were deleted during it, or when a prune that keeps reviews for less long
\* than decisions took the case.  (The CLI's score command never queues one.)
YellowDecisionsAreQueued ==
  \A d \in decisions :
    LET queued == {c \in cases : c.decision_id = d.id} IN
    /\ Cardinality(queued) <= 1
    /\ d.action = "MANUAL_REVIEW" /\ queued = {} =>
         InFlight(d.id) \/ d.id \in disturbed \union forgotten.cases \union from_cli

\* Every confirmed outcome is a label of its own, also when several analysts
\* decide one case, unless its request was killed or a prune took
\* the label.
VerdictsAreLearned ==
  \A r \in reviews :
    IsFinal(r) =>
      \/ LabelEvent(r) \in events
      \/ InFlight(r.id) \/ r.id \in disturbed \union forgotten.events

\* A user whom a label known at as_of confirms as a fraud is blocked, whatever
\* other analysts said and whatever the thresholds of the policy.
KnownFraudIsBlocked ==
  [][\A s \in Scorers :
       /\ pc[s] = "idle" /\ pc'[s] = "save_decision"
       /\ held'[s].target.type = "USER"
       /\ \E l \in OfType(events, {"LABEL_CREATED"}) :
            /\ l.payload.label_value = "FRAUD"
            /\ l.at <= held'[s].as_of
            /\ held'[s].target \in Refs(l)
       => held'[s].action = "BLOCK"]_vars

\* docs/data-strategy.md:193-196: a score uses event-time features available
\* at as_of, prior labels available before it, and the graph known before it.
ScoresUseThePast ==
  [][\A s \in Scorers :
       pc[s] = "idle" /\ pc'[s] = "save_decision" =>
         \E large \in Amounts :
           LET d == held'[s]
               past == Preview(Known(events, d.as_of), d.target, d.as_of, large)
           IN d.risk_score = past.score /\ d.action = past.action]_vars
=============================================================================
