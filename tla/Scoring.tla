------------------------------ MODULE Scoring ------------------------------
(***************************************************************************)
(* How fraud_v2 scores an entity: FeatureBuilder over the stored events,   *)
(* GraphService over the same list, the signals of RuleEngine, and the     *)
(* bands of ThresholdPolicy.  Everything here is a function of a set of    *)
(* events; ReviewWorkflow has the processes that store and score.          *)
(*                                                                         *)
(* An event is [key, type, at, refs, payload]: its idempotency key, type   *)
(* and occurred_at, the entities it refers to in order, and what the code  *)
(* reads of its payload.  A condition on payload fields that only one      *)
(* feature asks for is the field `risky`.                                  *)
(***************************************************************************)
EXTENDS Integers, FiniteSets, FiniteSetsExt, Sequences

CONSTANTS
  ThreeMinutes, TenMinutes, OneHour, Day,   \* the windows, in units of `at`
  GreenMax, RedMin, DegradedMin,            \* bands of the ThresholdPolicy
  HighAmountSeverity                        \* its high_request_amount_severity

\* What ThresholdPolicy validates.
ASSUME PolicyAssumption ==
  /\ GreenMax \in 0 .. 100 /\ RedMin \in 0 .. 100 /\ GreenMax < RedMin
  /\ DegradedMin \in 0 .. 100
  /\ HighAmountSeverity \in 0 .. 100

Entity(type, id) == [type |-> type, id |-> id]

Refs(e) == {e.refs[i] : i \in DOMAIN e.refs}

OfType(events, types) == {e \in events : e.type \in types}

Since(events, start) == {e \in events : e.at >= start}

-----------------------------------------------------------------------------
(* FeatureBuilder.                                                         *)

\* Faults: events of the instant itself are left out; later ones are used.
Known_Before(events, asOf) == {e \in events : e.at < asOf}

Known(events, asOf) == {e \in events : e.at <= asOf}

WithDevice == {"APPLICATION_SUBMITTED", "DEVICE_OBSERVED", "LOGIN_ATTEMPT",
               "BEHAVIORAL_SIGNAL_OBSERVED", "PAYMENT_ATTEMPTED", "CAMERA_METADATA_OBSERVED"}

\* The device of the last event that names one, if any does (which of several
\* at the same instant comes last is left open).
LatestDevice(events) ==
  LET naming == OfType(events, WithDevice) IN
  IF naming = {} THEN {}
  ELSE {(CHOOSE e \in naming : \A f \in naming : f.at <= e.at).payload.device}

\* The features RuleEngine reads, of the user with the target's id whatever
\* the target's type.
Features(events, target, asOf) ==
  LET known  == Known(events, asOf)
      user   == {e \in known : Entity("USER", target.id) \in Refs(e)}
      device == {e \in known : \E d \in LatestDevice(user) : Entity("DEVICE", d) \in Refs(e)}
      Count(types, window) == Cardinality(Since(OfType(user, types), asOf - window))
      Risky(type) == {e \in OfType(user, {type}) : e.payload.risky}
  IN
  [failed_login_count_3m |-> Cardinality(Since(Risky("LOGIN_ATTEMPT"), asOf - ThreeMinutes)),
   applications_per_device_1h |->
     Cardinality(Since(OfType(device, {"APPLICATION_SUBMITTED"}), asOf - OneHour)),
   distinct_users_on_device_1h |->
     Cardinality({e.payload.user : e \in Since(OfType(device,
       {"APPLICATION_SUBMITTED", "DEVICE_OBSERVED", "PAYMENT_ATTEMPTED"}), asOf - OneHour)}),
   payment_attempt_count_10m |-> Count({"PAYMENT_ATTEMPTED"}, TenMinutes),
   payment_amount_24h |->
     MapThenSumSet(LAMBDA e : e.payload.amount,
                   Since(OfType(user, {"PAYMENT_ATTEMPTED"}), asOf - Day)),
   chargebacks_total |-> Cardinality(OfType(user, {"CHARGEBACK_RECEIVED"})),
   confirmed_fraud_label |->
     \E e \in OfType(user, {"LABEL_CREATED"}) : e.payload.label_value = "FRAUD",
   virtual_camera_flag |-> Risky("CAMERA_METADATA_OBSERVED") # {},
   low_behavior_entropy |-> Risky("BEHAVIORAL_SIGNAL_OBSERVED") # {}]

\* Only users have features that are fresh.
IsDegraded(target) == target.type # "USER"

-----------------------------------------------------------------------------
(* GraphService.                                                           *)

\* A device or payment event links its user to what the payload names; any
\* other event links its first entity to the rest.
EdgesForEvent(e) ==
  IF e.type \in {"DEVICE_OBSERVED", "PAYMENT_ATTEMPTED"}
    THEN {Entity("USER", e.payload.user)} \X
           ({Entity("DEVICE", e.payload.device)} \union e.payload.linked)
    ELSE {<<e.refs[1], e.refs[i]>> : i \in 2 .. Len(e.refs)}

Edges(events) == UNION {EdgesForEvent(e) : e \in events}

Nodes(events) ==
  UNION {Refs(e) : e \in events} \union UNION {{edge[1], edge[2]} : edge \in Edges(events)}

FraudNodes(events) ==
  {e.payload.target_entity :
     e \in {l \in OfType(events, {"LABEL_CREATED"}) : l.payload.label_value = "FRAUD"}}

Neighbours(events, nodes) ==
  nodes \union {n \in Nodes(events) :
                  \E m \in nodes : <<m, n>> \in Edges(events) \/ <<n, m>> \in Edges(events)}

\* Stands for None: further than the cut-off of three hops, or unconnected.
NoDistance == 4

\* The number of hops to the nearest fraud node.
DistanceToConfirmedFraud(events, target) ==
  LET within[k \in 0 .. 3] ==
        IF k = 0 THEN {target} ELSE Neighbours(events, within[k - 1])
      hops == {k \in 0 .. 3 : FraudNodes(events) \intersect within[k] # {}}
  IN IF target \notin Nodes(events) \/ hops = {} THEN NoDistance ELSE Min(hops)

\* networkx raises NodeNotFound for a fraud node that no event refers to, and
\* only NetworkXNoPath is caught.
SearchRaises(events, target) ==
  /\ target \in Nodes(events)
  /\ target \notin FraudNodes(events)
  /\ ~(FraudNodes(events) \subseteq Nodes(events))

-----------------------------------------------------------------------------
(* RuleEngine, DecisionEngine and ThresholdPolicy.                         *)

Severity ==
  [FAILED_LOGIN_VELOCITY |-> 30, APPLICATIONS_PER_DEVICE_VELOCITY |-> 35,
   DEVICE_SHARED_BY_USERS |-> 40, PAYMENT_ATTEMPT_VELOCITY |-> 25,
   HIGH_24H_PAYMENT_AMOUNT |-> 15, CAMERA_METADATA_ANOMALY |-> 20,
   LOW_BEHAVIOR_ENTROPY |-> 25, PRIOR_CHARGEBACK |-> 45, CONFIRMED_FRAUD_LABEL |-> 100,
   ONE_HOP_FROM_CONFIRMED_FRAUD |-> 45, NEAR_CONFIRMED_FRAUD_CLUSTER |-> 30,
   HIGH_REQUEST_AMOUNT |-> HighAmountSeverity]

\* Whether each signal is raised, for a request of a large amount or not.
Raised(f, distance, large) ==
  [FAILED_LOGIN_VELOCITY |-> f.failed_login_count_3m >= 5,
   APPLICATIONS_PER_DEVICE_VELOCITY |-> f.applications_per_device_1h >= 3,
   DEVICE_SHARED_BY_USERS |-> f.distinct_users_on_device_1h >= 3,
   PAYMENT_ATTEMPT_VELOCITY |-> f.payment_attempt_count_10m >= 3,
   HIGH_24H_PAYMENT_AMOUNT |-> f.payment_amount_24h >= 1000,
   CAMERA_METADATA_ANOMALY |-> f.virtual_camera_flag,
   LOW_BEHAVIOR_ENTROPY |-> f.low_behavior_entropy,
   PRIOR_CHARGEBACK |-> f.chargebacks_total >= 1,
   CONFIRMED_FRAUD_LABEL |-> f.confirmed_fraud_label,
   ONE_HOP_FROM_CONFIRMED_FRAUD |-> distance = 1,
   NEAR_CONFIRMED_FRAUD_CLUSTER |-> distance \in 2 .. 3,
   HIGH_REQUEST_AMOUNT |-> large]

\* The sum of the severities, written out so that it can be reasoned about.
Total(raised) ==
  LET P(code) == IF raised[code] THEN Severity[code] ELSE 0 IN
    P("FAILED_LOGIN_VELOCITY") + P("APPLICATIONS_PER_DEVICE_VELOCITY")
  + P("DEVICE_SHARED_BY_USERS") + P("PAYMENT_ATTEMPT_VELOCITY")
  + P("HIGH_24H_PAYMENT_AMOUNT") + P("CAMERA_METADATA_ANOMALY")
  + P("LOW_BEHAVIOR_ENTROPY") + P("PRIOR_CHARGEBACK") + P("CONFIRMED_FRAUD_LABEL")
  + P("ONE_HOP_FROM_CONFIRMED_FRAUD") + P("NEAR_CONFIRMED_FRAUD_CLUSTER")
  + P("HIGH_REQUEST_AMOUNT")

AtMost100(n) == IF n <= 100 THEN n ELSE 100

RiskScore(raised, degraded) ==
  LET score == AtMost100(Total(raised)) IN
  IF degraded /\ score < DegradedMin THEN DegradedMin ELSE score

\* tier_action: the tiers GREEN, YELLOW and RED go with these actions.
Action(score, degraded) ==
  CASE degraded -> "MANUAL_REVIEW"
    [] ~degraded /\ score <= GreenMax -> "APPROVE"
    [] ~degraded /\ GreenMax < score /\ score < RedMin -> "MANUAL_REVIEW"
    [] ~degraded /\ GreenMax < score /\ RedMin <= score -> "BLOCK"

\* preview: features as of the request, and the graph of all the events.
Preview(events, target, asOf, large) ==
  LET raised == Raised(Features(events, target, asOf),
                       DistanceToConfirmedFraud(events, target), large)
      score == RiskScore(raised, IsDegraded(target))
  IN [score |-> score, action |-> Action(score, IsDegraded(target))]
=============================================================================
