------------------------------ MODULE Workbench ------------------------------
(***************************************************************************)
(* The what-if workbench (simulation/workbench.py: `simulate-risk` and     *)
(* /dashboard/simulate) and the cockpit page (cockpit.py, /cockpit), which *)
(* explain the engine's decisions.  They store nothing: a page is a        *)
(* function of the events it reads and of the toggles that are on.  But    *)
(* they carry a second copy of the severities of RuleEngine and of the     *)
(* steps of DecisionEngine, which has to stay the same.                    *)
(***************************************************************************)
EXTENDS ReviewWorkflow

CONSTANT HighAmountThreshold   \* the policy's high_request_amount_threshold

ASSUME ThresholdAssumption == HighAmountThreshold \in Nat

-----------------------------------------------------------------------------
(* run_simulation.                                                         *)

\* Fault: the severity of a rule was changed in RuleEngine alone.
SimulatedSeverity_Outdated ==
  [HIGH_REQUEST_AMOUNT |-> HighAmountSeverity, CAMERA_METADATA_ANOMALY |-> 20,
   LOW_BEHAVIOR_ENTROPY |-> 20, APPLICATIONS_PER_DEVICE_VELOCITY |-> 35,
   PAYMENT_ATTEMPT_VELOCITY |-> 25, PRIOR_CHARGEBACK |-> 45,
   ONE_HOP_FROM_CONFIRMED_FRAUD |-> 45, PUBLIC_KYB_WATCH |-> 20,
   PUBLIC_SANCTIONS_HIT |-> 60, APP_BEC_PATTERN |-> 25, DEPENDENCY_DEGRADED |-> 0]

SimulatedSeverity ==
  [HIGH_REQUEST_AMOUNT |-> HighAmountSeverity, CAMERA_METADATA_ANOMALY |-> 20,
   LOW_BEHAVIOR_ENTROPY |-> 25, APPLICATIONS_PER_DEVICE_VELOCITY |-> 35,
   PAYMENT_ATTEMPT_VELOCITY |-> 25, PRIOR_CHARGEBACK |-> 45,
   ONE_HOP_FROM_CONFIRMED_FRAUD |-> 45, PUBLIC_KYB_WATCH |-> 20,
   PUBLIC_SANCTIONS_HIT |-> 60, APP_BEC_PATTERN |-> 25, DEPENDENCY_DEGRADED |-> 0]

\* What a request can select; the amount selects HIGH_REQUEST_AMOUNT.
Selectable == DOMAIN SimulatedSeverity

\* The points of a signal that is selected.
Simulated(selected, code) ==
  IF code \in selected \intersect Selectable THEN SimulatedSeverity[code] ELSE 0

SimulatedTotal(selected) ==
  LET P(code) == Simulated(selected, code) IN
    P("HIGH_REQUEST_AMOUNT") + P("CAMERA_METADATA_ANOMALY") + P("LOW_BEHAVIOR_ENTROPY")
  + P("APPLICATIONS_PER_DEVICE_VELOCITY") + P("PAYMENT_ATTEMPT_VELOCITY")
  + P("PRIOR_CHARGEBACK") + P("ONE_HOP_FROM_CONFIRMED_FRAUD") + P("PUBLIC_KYB_WATCH")
  + P("PUBLIC_SANCTIONS_HIT") + P("APP_BEC_PATTERN") + P("DEPENDENCY_DEGRADED")

SimulatedScore(selected) ==
  LET score == AtMost100(SimulatedTotal(selected)) IN
  IF "DEPENDENCY_DEGRADED" \in selected /\ score < DegradedMin THEN DegradedMin ELSE score

SimulatedAction(selected) ==
  LET action == Action(SimulatedScore(selected), "DEPENDENCY_DEGRADED" \in selected) IN
  IF action = "MANUAL_REVIEW" /\ "APP_BEC_PATTERN" \in selected THEN "BREAK_THE_SPELL"
                                                               ELSE action

-----------------------------------------------------------------------------
(* The cockpit page.                                                       *)

\* What its scenarios select, and the amounts they ask for.
Scenarios ==
  {[amount |-> 100, selected |-> {}],
   [amount |-> 500, selected |-> {"CAMERA_METADATA_ANOMALY", "LOW_BEHAVIOR_ENTROPY"}],
   [amount |-> 1000, selected |-> {"PRIOR_CHARGEBACK", "PAYMENT_ATTEMPT_VELOCITY"}],
   [amount |-> 1000,
    selected |-> {"APPLICATIONS_PER_DEVICE_VELOCITY", "ONE_HOP_FROM_CONFIRMED_FRAUD"}],
   [amount |-> 750, selected |-> {"APP_BEC_PATTERN", "PAYMENT_ATTEMPT_VELOCITY"}],
   [amount |-> 250, selected |-> {"DEPENDENCY_DEGRADED"}]}

Large(scenario) == scenario.amount >= HighAmountThreshold

Selected(scenario) ==
  scenario.selected \union IF Large(scenario) THEN {"HIGH_REQUEST_AMOUNT"} ELSE {}

\* The points of a signal of the decision.
Counted(raised, code) ==
  IF code \in DOMAIN Severity /\ raised[code] THEN Severity[code] ELSE 0

\* Fault: the page shows the simulation's signals when it has any.
Contribution_SimulationFirst(raised, selected, code) ==
  IF selected # {} THEN Simulated(selected, code) ELSE Counted(raised, code)

\* signal_contributions: the larger points of a signal that both have.
Contribution(raised, selected, code) ==
  LET counted == Counted(raised, code)
      simulated == Simulated(selected, code)
  IN IF counted >= simulated THEN counted ELSE simulated

\* The points of all the rows of the page.
Contributed(raised, selected) ==
  LET P(code) == Contribution(raised, selected, code) IN
    P("FAILED_LOGIN_VELOCITY") + P("APPLICATIONS_PER_DEVICE_VELOCITY")
  + P("DEVICE_SHARED_BY_USERS") + P("PAYMENT_ATTEMPT_VELOCITY")
  + P("HIGH_24H_PAYMENT_AMOUNT") + P("CAMERA_METADATA_ANOMALY")
  + P("LOW_BEHAVIOR_ENTROPY") + P("PRIOR_CHARGEBACK") + P("CONFIRMED_FRAUD_LABEL")
  + P("ONE_HOP_FROM_CONFIRMED_FRAUD") + P("NEAR_CONFIRMED_FRAUD_CLUSTER")
  + P("HIGH_REQUEST_AMOUNT") + P("PUBLIC_KYB_WATCH") + P("PUBLIC_SANCTIONS_HIT")
  + P("APP_BEC_PATTERN") + P("DEPENDENCY_DEGRADED")

-----------------------------------------------------------------------------
(* Properties.                                                             *)

RaisedNow(target, asOf, large) ==
  Raised(Features(events, target, asOf), DistanceToConfirmedFraud(events, target), large)

\* The toggles that repeat what a decision found.
SameFacts(raised, target) ==
  {code \in DOMAIN Severity : raised[code]}
    \union IF IsDegraded(target) THEN {"DEPENDENCY_DEGRADED"} ELSE {}

Decides(s) == pc[s] = "idle" /\ pc'[s] = "save_decision"

\* What a decision made now raised, for a request of some amount.
Found(d) == {RaisedNow(d.target, d.as_of, large) : large \in Amounts}

\* An analyst who selects in the workbench what a live decision found gets
\* the decision's score and action, for every decision whose signals the
\* workbench offers, degraded ones included.
WhatIfAgrees ==
  [][\A s \in Scorers : Decides(s) =>
       \E raised \in Found(held'[s]) :
         LET facts == SameFacts(raised, held'[s].target) IN
         facts \subseteq Selectable =>
           /\ SimulatedScore(facts) = held'[s].risk_score
           /\ SimulatedAction(facts) = held'[s].action]_vars

\* tests/unit/test_cockpit.py:34: the rows of the cockpit page add up to the
\* score at least, whichever scenario is shown beside a user's decision.
PageAddsUp ==
  [][\A s \in Scorers : Decides(s) /\ held'[s].target.type = "USER" =>
       \E raised \in Found(held'[s]) :
         \A scenario \in Scenarios :
           Contributed(raised, Selected(scenario)) >= held'[s].risk_score]_vars
=============================================================================
