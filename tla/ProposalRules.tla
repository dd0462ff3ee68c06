----------------------------- MODULE ProposalRules -----------------------------
(***************************************************************************)
(* The pure part of the recommendation pipeline: the sanitized projection  *)
(* of a snapshot and the facts its metrics support                         *)
(* (recommend_projection.py), the decision table of the deterministic      *)
(* provider (model_provider.py) and the validation every model answer must *)
(* pass before it becomes a proposal (recommend_contracts.py).             *)
(*                                                                         *)
(* Metrics are small naturals in the unit of the limit they are compared   *)
(* with; NA stands for the metric NOT_APPLICABLE.  Names of risks, texts   *)
(* and timestamps of a payload are left out.                               *)
(***************************************************************************)
EXTENDS Naturals, FiniteSets

CONSTANTS
  Limits, \* policy_limits of the projection
  NA      \* the metric NOT_APPLICABLE

LimitNames ==
  {"pressure", "target", "step", "window", "stopSpend", "minClicks",
   "minConversions", "lowCtr", "lowCtrImpressions", "bidMaxClicks"}
ASSUME LimitsAssumption == Limits \in [LimitNames -> Nat]

Unchanging == {"KEEP", "REQUEST_HUMAN_HELP"}

OptimizationActions ==
  Unchanging \cup
  {"INCREASE_WEEKLY_BUDGET", "DECREASE_WEEKLY_BUDGET", "INCREASE_SEARCH_BID",
   "DECREASE_SEARCH_BID", "SET_AD_VARIANT", "SUSPEND_CAMPAIGN", "RESUME_CAMPAIGN"}

StatusActions ==
  [EFFECTIVE |-> {"KEEP", "INCREASE_WEEKLY_BUDGET", "INCREASE_SEARCH_BID",
                  "RESUME_CAMPAIGN"},
   INEFFECTIVE |-> {"KEEP", "DECREASE_WEEKLY_BUDGET", "DECREASE_SEARCH_BID",
                    "SET_AD_VARIANT", "SUSPEND_CAMPAIGN"},
   INSUFFICIENT_DATA |-> {"KEEP"},
   NEEDS_HUMAN |-> {"REQUEST_HUMAN_HELP"}]

FactEvidence ==
  [BUDGET_UTILIZATION_AT_OR_ABOVE_THRESHOLD |-> {"budget_utilization", "policy_limits"},
   CPA_AT_OR_BELOW_TARGET |-> {"cpa", "policy_limits"},
   CPA_ABOVE_TARGET |-> {"cpa", "policy_limits"},
   LOW_CTR_BELOW_THRESHOLD |-> {"ctr", "impressions", "policy_limits"},
   NO_CONVERSIONS |-> {"goal_visits"},
   NO_CONVERSION_SPEND_AT_OR_ABOVE_THRESHOLD |-> {"cost_micros", "policy_limits"},
   SAMPLE_BELOW_GATE0_MINIMUM |-> {"clicks", "goal_visits", "policy_limits"},
   SOURCE_MISMATCH |-> {"comparability"},
   ANALYTICS_CONTEXT_INCOMPLETE |-> {"comparability"}]

EvidenceFor(facts) == UNION {FactEvidence[f] : f \in facts}

ProjectionFields == EvidenceFor(DOMAIN FactEvidence) \cup {"campaign_state", "clicks"}

------------------------------------------------------------------------------
(* The projection (recommend_projection.py)                                *)

SampleTooSmall(p) ==
  \/ p.confidence = "INSUFFICIENT_DATA"
  \/ p.clicks < Limits.minClicks
  \/ p.goalVisits < Limits.minConversions

SpentForNothing(p) == p.goalVisits = 0 /\ p.spend >= Limits.stopSpend

UnderPressure(p) == p.utilization # NA /\ p.utilization >= Limits.pressure
OnTarget(p) == p.cpa # NA /\ p.cpa <= Limits.target
AboveTarget(p) == p.cpa # NA /\ p.cpa > Limits.target
LowCtr(p) ==
  p.ctr # NA /\ p.ctr < Limits.lowCtr /\ p.impressions >= Limits.lowCtrImpressions

FactIf(condition, fact) == IF condition THEN {fact} ELSE {}

\* supported_facts.
SupportedFacts(p) ==
  CASE p.comparability = "INCOMPATIBLE" -> {"SOURCE_MISMATCH"}
    [] p.comparability = "PARTIAL" -> {"ANALYTICS_CONTEXT_INCOMPLETE"}
    [] p.comparability = "COMPARABLE" /\ SampleTooSmall(p) ->
         {"SAMPLE_BELOW_GATE0_MINIMUM"}
    [] OTHER ->
         UNION {FactIf(UnderPressure(p), "BUDGET_UTILIZATION_AT_OR_ABOVE_THRESHOLD"),
                FactIf(OnTarget(p), "CPA_AT_OR_BELOW_TARGET"),
                FactIf(AboveTarget(p), "CPA_ABOVE_TARGET"),
                FactIf(LowCtr(p), "LOW_CTR_BELOW_THRESHOLD"),
                FactIf(p.goalVisits = 0, "NO_CONVERSIONS"),
                FactIf(SpentForNothing(p), "NO_CONVERSION_SPEND_AT_OR_ABOVE_THRESHOLD")}

Actionable(p) ==
  /\ p.state \in {"ON", "SUSPENDED"}
  /\ p.strategy = "HIGHEST_POSITION"
  /\ p.variant \in {"A", "B"}

\* build_sanitized_projection: the facts are derived, never copied, and a
\* campaign that is neither on nor suspended allows no financial advice.
Sanitized(s) ==
  [s EXCEPT !.facts = SupportedFacts(s),
            !.financial = @ /\ s.state \in {"ON", "SUSPENDED"}]

\* validate_projection.
ValidProjection(p) ==
  /\ p.comparability \in {"COMPARABLE", "PARTIAL", "INCOMPATIBLE"}
  /\ p.confidence \in {"READY", "INSUFFICIENT_DATA", "STALE_DATA"}
  /\ p.financial => Actionable(p)
  /\ p.facts # {}
  /\ p.facts = SupportedFacts(p)

------------------------------------------------------------------------------
(* The deterministic provider (model_provider.py)                          *)

\* What the answer changes: an operation with its step, variant or target.
Diff(operation, value) == [operation |-> operation, step |-> 0, value |-> value]
StepDiff(operation) == [operation |-> operation, step |-> Limits.step, value |-> "none"]
NoChange == Diff("NO_CHANGE", "none")

Answer(p, status, action, parameter, diff) ==
  [status |-> status, facts |-> p.facts, action |-> action, parameter |-> parameter,
   evidence |-> EvidenceFor(p.facts),
   effect |-> IF action \in Unchanging THEN "NO_CHANGE" ELSE "POSITIVE",
   window |-> Limits.window, diff |-> diff]

Stepped(p, status, action) ==
  Answer(p, status, action, "none", StepDiff(action))

OtherVariant(p) == IF p.variant = "A" THEN "B" ELSE "A"

AskHuman(p) ==
  Answer(p, "NEEDS_HUMAN", "REQUEST_HUMAN_HELP",
         IF "ANALYTICS_CONTEXT_INCOMPLETE" \in p.facts
         THEN "MISSING_ANALYTICS_CONTEXT" ELSE "AMBIGUOUS_DATA",
         NoChange)

Resumable(p) == p.state = "SUSPENDED" /\ OnTarget(p)

\* The rows of generate for a comparable, large enough sample.
Advice(p) ==
  IF Resumable(p)
  THEN Answer(p, "EFFECTIVE", "RESUME_CAMPAIGN", "none", Diff("RESUME_CAMPAIGN", "ON"))
  ELSE IF LowCtr(p)
  THEN Answer(p, "INEFFECTIVE", "SET_AD_VARIANT", OtherVariant(p),
              Diff("SET_AD_VARIANT", OtherVariant(p)))
  ELSE IF AboveTarget(p)
  THEN Stepped(p, "INEFFECTIVE",
               IF UnderPressure(p) THEN "DECREASE_WEEKLY_BUDGET" ELSE "DECREASE_SEARCH_BID")
  ELSE IF UnderPressure(p)
  THEN Stepped(p, "EFFECTIVE", "INCREASE_WEEKLY_BUDGET")
  ELSE IF p.clicks <= Limits.bidMaxClicks
  THEN Stepped(p, "EFFECTIVE", "INCREASE_SEARCH_BID")
  ELSE Answer(p, "EFFECTIVE", "KEEP", "none", NoChange)

\* DeterministicFakeModelProvider.generate.  Money spent without a single
\* conversion is looked at before the size of the sample.
FakeAnswer(p) ==
  IF p.comparability # "COMPARABLE" THEN AskHuman(p)
  ELSE IF SpentForNothing(p)
  THEN Answer(p, "INEFFECTIVE", "SUSPEND_CAMPAIGN", "none",
              Diff("SUSPEND_CAMPAIGN", "SUSPENDED"))
  ELSE IF SampleTooSmall(p)
  THEN Answer(p, "INSUFFICIENT_DATA", "KEEP", "none", NoChange)
  ELSE Advice(p)

\* generate raises where a row has to compare a metric that is
\* NOT_APPLICABLE: Decimal("NOT_APPLICABLE") is an InvalidOperation.
FakeRaises(p) ==
  /\ p.comparability = "COMPARABLE" /\ ~SpentForNothing(p) /\ ~SampleTooSmall(p)
  /\ \/ p.state = "SUSPENDED" /\ p.cpa = NA
     \/ ~Resumable(p) /\ p.ctr = NA
     \/ ~Resumable(p) /\ ~LowCtr(p) /\ (p.cpa = NA \/ p.utilization = NA)

------------------------------------------------------------------------------
(* The validation of an answer (recommend_contracts.py)                    *)

\* _validate_action.
ValidAction(a) ==
  /\ a.action \in OptimizationActions
  /\ a.action \in StatusActions[a.status]
  /\ CASE a.action = "SET_AD_VARIANT" -> a.parameter \in {"A", "B"}
       [] a.action = "REQUEST_HUMAN_HELP" ->
            a.parameter \in {"MISSING_ANALYTICS_CONTEXT", "AMBIGUOUS_DATA"}
       [] OTHER -> a.parameter = "none"

Steps == {"INCREASE_WEEKLY_BUDGET", "DECREASE_WEEKLY_BUDGET",
          "INCREASE_SEARCH_BID", "DECREASE_SEARCH_BID"}

\* _validate_expected_diff.
ValidDiff(a) ==
  /\ a.diff.operation = IF a.action \in Unchanging THEN "NO_CHANGE" ELSE a.action
  /\ CASE a.action \in Unchanging -> a.diff.value = "none"
       [] a.action \in Steps -> a.diff.step \in 1..100
       [] a.action = "SET_AD_VARIANT" -> a.diff.value \in {"A", "B"}
       [] a.action = "SUSPEND_CAMPAIGN" -> a.diff.value = "SUSPENDED"
       [] a.action = "RESUME_CAMPAIGN" -> a.diff.value = "ON"

\* An answer names facts, observed or not.
FactsNamed(a, p) == a.facts # {}
\* The facts of an answer are facts of the projection.
FactsObserved(a, p) == a.facts # {} /\ a.facts \subseteq p.facts

\* _validate_model_payload.
ValidAnswer(a, p) ==
  /\ a.status \in DOMAIN StatusActions
  /\ FactsObserved(a, p)
  /\ ValidAction(a)
  /\ a.evidence \subseteq ProjectionFields
  /\ EvidenceFor(a.facts) \subseteq a.evidence
  /\ a.effect = IF a.action \in Unchanging THEN "NO_CHANGE" ELSE "POSITIVE"
  /\ a.window >= 1
  /\ ValidDiff(a)
===============================================================================
