---------------------------- MODULE AutomationRules ----------------------------
(***************************************************************************)
(* The rules of the test autopilot (ui_automation.py): which scenarios,    *)
(* trigger rules and recommendation rules the dashboard accepts, which     *)
(* triggers a scenario matches under a set of rules, and what is advised   *)
(* about it (ui_service.py over recommend_projection.py and                *)
(* model_provider.py).                                                     *)
(*                                                                         *)
(* A ratio is compared with its threshold by cross multiplication, as the  *)
(* code compares exact decimals.  Money is in rubles, the click-through    *)
(* limit in tenths of a percent, ages in minutes.                          *)
(***************************************************************************)
EXTENDS Integers, FiniteSets

CONSTANTS
  Gate, \* the Gate 0 policy: the default thresholds and the bounds they set
  NA    \* the metric NOT_APPLICABLE

GateNames ==
  {"minClicks", "minConversions", "target", "pressure", "growth", "noConversion",
   "stopSpend", "pacing", "cpc", "ctr", "conversionRate", "goalHours", "goalVisits",
   "mismatch", "direct", "metrika", "skew", "lowCtr", "lowCtrImpressions",
   "bidMaxClicks", "step", "window", "day", "observation", "late"}
\* no sample is large enough without a conversion
ASSUME GateAssumption ==
  /\ Gate \in [GateNames -> Nat]
  /\ Gate.minConversions > 0 /\ Gate.day > 0
  /\ NA \notin Int

Most == 100000000 \* the largest value of most fields

------------------------------------------------------------------------------
(* What the operator may store                                             *)

\* A set of rules has exactly these fields.
TriggerRules ==
  [budgetPressure : [enabled : BOOLEAN, percent : Int],
   spendGrowth : [enabled : BOOLEAN, rub : Int, ceiling : Int],
   noConversion : [enabled : BOOLEAN, rub : Int],
   pacing : [enabled : BOOLEAN, percent : Int],
   cpc : [enabled : BOOLEAN, percent : Int],
   ctr : [enabled : BOOLEAN, percent : Int],
   conversionRate : [enabled : BOOLEAN, percent : Int],
   goalCessation : [enabled : BOOLEAN, hours : Int, visits : Int],
   mismatch : [enabled : BOOLEAN, percent : Int],
   externalChange : [enabled : BOOLEAN],
   freshness : [enabled : BOOLEAN, direct : Int, metrika : Int, skew : Int]]
RecommendationRules ==
  [minClicks : Int, minConversions : Int, target : Int, pressure : Int,
   stopSpend : Int, lowCtr : Int, lowCtrImpressions : Int, bidMaxClicks : Int]

\* default_rules.
DefaultRules ==
  [budgetPressure |-> [enabled |-> TRUE, percent |-> Gate.pressure],
   spendGrowth |-> [enabled |-> TRUE, rub |-> Gate.growth, ceiling |-> 0],
   noConversion |-> [enabled |-> TRUE, rub |-> Gate.noConversion],
   pacing |-> [enabled |-> TRUE, percent |-> 100 + Gate.pacing],
   cpc |-> [enabled |-> TRUE, percent |-> Gate.cpc],
   ctr |-> [enabled |-> TRUE, percent |-> Gate.ctr],
   conversionRate |-> [enabled |-> TRUE, percent |-> Gate.conversionRate],
   goalCessation |-> [enabled |-> TRUE, hours |-> Gate.goalHours,
                      visits |-> Gate.goalVisits],
   mismatch |-> [enabled |-> TRUE, percent |-> Gate.mismatch],
   externalChange |-> [enabled |-> TRUE],
   freshness |-> [enabled |-> TRUE, direct |-> Gate.direct,
                  metrika |-> Gate.metrika, skew |-> Gate.skew]]

\* default_recommendation_rules, under the target CPA of a campaign.
DefaultAdviceRules(target) ==
  [minClicks |-> Gate.minClicks, minConversions |-> Gate.minConversions,
   target |-> target, pressure |-> Gate.pressure, stopSpend |-> Gate.stopSpend,
   lowCtr |-> Gate.lowCtr, lowCtrImpressions |-> Gate.lowCtrImpressions,
   bidMaxClicks |-> Gate.bidMaxClicks]

\* The five thresholds validate_rules checks in one loop.
PercentRules == {"pacing", "cpc", "ctr", "conversionRate", "mismatch"}

\* safety_floor_checks: the financial triggers.
AboveFloors(rules) ==
  /\ rules.budgetPressure.percent >= Gate.pressure
  /\ rules.spendGrowth.rub >= Gate.growth
  /\ rules.noConversion.rub >= Gate.noConversion

\* validate_rules: a switch may always be turned off.
ValidRules(rules) ==
  /\ AboveFloors(rules)
  /\ rules.budgetPressure.percent <= 500
  /\ rules.spendGrowth.rub <= Most /\ rules.noConversion.rub <= Most
  /\ rules.spendGrowth.ceiling \in -100..0
  /\ \A name \in PercentRules :
       /\ rules[name].percent >= DefaultRules[name].percent
       /\ rules[name].percent <= 10000
  /\ rules.goalCessation.hours >= Gate.goalHours /\ rules.goalCessation.hours <= 8760
  /\ rules.goalCessation.visits >= Gate.goalVisits /\ rules.goalCessation.visits <= Most
  /\ \A age \in {"direct", "metrika", "skew"} :
       /\ rules.freshness[age] >= 1
       /\ rules.freshness[age] <= DefaultRules.freshness[age]

\* validate_recommendation_rules, against the target of a campaign.
ValidAdviceRules(rules, target) ==
  LET floor == DefaultAdviceRules(target)
  IN /\ rules.minClicks >= floor.minClicks /\ rules.minClicks <= 1000000
     /\ rules.minConversions >= floor.minConversions /\ rules.minConversions <= 1000000
     /\ rules.target \in 1..target
     /\ rules.pressure >= floor.pressure /\ rules.pressure <= 500
     /\ rules.stopSpend >= floor.stopSpend /\ rules.stopSpend <= Most
     /\ rules.lowCtr \in 1..floor.lowCtr
     /\ rules.lowCtrImpressions >= floor.lowCtrImpressions
     /\ rules.lowCtrImpressions <= Most
     /\ rules.bidMaxClicks >= floor.minClicks /\ rules.bidMaxClicks <= floor.bidMaxClicks

Counts == {"clicks", "spend", "visits", "conversions", "baselineSpend",
           "baselineConversions", "baselineClicks", "hours", "mismatch",
           "directAge", "metrikaAge", "skew"}
Totals == {"impressions", "budget", "expectedSpend", "baselineImpressions",
           "baselineVisits"}

\* What a scenario is parsed as.
Scenario(s) ==
  /\ \A field \in Counts \cup Totals : s[field] \in Int
  /\ s.externalChange \in BOOLEAN

\* validate_scenario.
ValidScenario(s) ==
  /\ \A field \in Counts : s[field] >= 0 /\ s[field] <= Most
  /\ \A field \in Totals : s[field] >= 1 /\ s[field] <= Most
  /\ s.state \in {"ON", "SUSPENDED"}
  /\ s.clicks <= s.impressions
  /\ s.conversions <= s.visits
  /\ s.baselineConversions <= s.visits
  /\ s.baselineClicks <= s.baselineImpressions
  /\ s.baselineConversions <= s.baselineVisits

------------------------------------------------------------------------------
(* The triggers a scenario matches: evaluate_triggers                      *)

\* |a / b - c / d| as a share of c / d reaches percent; none without a base.
Deviates(a, b, c, d, percent) ==
  LET gap == a * d - c * b
  IN /\ b # 0 /\ d # 0 /\ c # 0
     /\ 100 * (IF gap < 0 THEN -gap ELSE gap) >= percent * c * b

BudgetPressed(s, rule) == rule.enabled /\ 100 * s.spend >= rule.percent * s.budget
PacedAhead(s, rule) == rule.enabled /\ 100 * s.spend >= rule.percent * s.expectedSpend
CpcDeviates(s, rule) ==
  rule.enabled /\ Deviates(s.spend, s.clicks, s.baselineSpend, s.baselineClicks, rule.percent)
CtrDeviates(s, rule) ==
  /\ rule.enabled
  /\ Deviates(s.clicks, s.impressions, s.baselineClicks, s.baselineImpressions, rule.percent)
ConversionsDeviate(s, rule) ==
  /\ rule.enabled
  /\ Deviates(s.conversions, s.visits, s.baselineConversions, s.baselineVisits, rule.percent)
GoalCeased(s, rule) ==
  rule.enabled /\ s.hours >= rule.hours /\ s.visits >= rule.visits

\* Growth from no conversions to some has no percentage and never matches.
SpendGrew(s, rule) ==
  /\ rule.enabled
  /\ s.spend - s.baselineSpend >= rule.rub
  /\ IF s.baselineConversions = 0
     THEN s.conversions = 0 /\ rule.ceiling >= 0
     ELSE 100 * (s.conversions - s.baselineConversions)
            <= rule.ceiling * s.baselineConversions
NothingConverted(s, rule) ==
  rule.enabled /\ s.conversions = 0 /\ s.spend >= rule.rub

PerformanceTriggers(s, rules) ==
  {trigger \in
     {"BUDGET_PRESSURE", "PACING_AHEAD", "CPC_DEVIATION_FROM_BASELINE",
      "CTR_DEVIATION_FROM_BASELINE", "CONVERSION_RATE_DEVIATION_FROM_BASELINE",
      "GOAL_CESSATION", "SPEND_GROWTH_WITHOUT_CONVERSION", "NO_CONVERSION_SPEND"} :
     CASE trigger = "BUDGET_PRESSURE" -> BudgetPressed(s, rules.budgetPressure)
       [] trigger = "PACING_AHEAD" -> PacedAhead(s, rules.pacing)
       [] trigger = "CPC_DEVIATION_FROM_BASELINE" -> CpcDeviates(s, rules.cpc)
       [] trigger = "CTR_DEVIATION_FROM_BASELINE" -> CtrDeviates(s, rules.ctr)
       [] trigger = "CONVERSION_RATE_DEVIATION_FROM_BASELINE" ->
            ConversionsDeviate(s, rules.conversionRate)
       [] trigger = "GOAL_CESSATION" -> GoalCeased(s, rules.goalCessation)
       [] trigger = "SPEND_GROWTH_WITHOUT_CONVERSION" -> SpendGrew(s, rules.spendGrowth)
       [] OTHER -> NothingConverted(s, rules.noConversion)}

\* The triggers after which nothing may be applied.
SafetyTriggers(s, rules) ==
  {trigger \in
     {"SOURCE_MISMATCH", "UNKNOWN_EXTERNAL_CHANGE", "DIRECT_DATA_STALE",
      "METRIKA_DATA_STALE", "WATERMARK_SKEW_EXCEEDED"} :
     CASE trigger = "SOURCE_MISMATCH" ->
            rules.mismatch.enabled /\ s.mismatch >= rules.mismatch.percent
       [] trigger = "UNKNOWN_EXTERNAL_CHANGE" ->
            rules.externalChange.enabled /\ s.externalChange
       [] trigger = "DIRECT_DATA_STALE" ->
            rules.freshness.enabled /\ s.directAge > rules.freshness.direct
       [] trigger = "METRIKA_DATA_STALE" ->
            rules.freshness.enabled /\ s.metrikaAge > rules.freshness.metrika
       [] OTHER -> rules.freshness.enabled /\ s.skew > rules.freshness.skew}

Triggers(s, rules) == PerformanceTriggers(s, rules) \cup SafetyTriggers(s, rules)

------------------------------------------------------------------------------
(* What is advised                                                         *)

CeilingOf(a, b) == (a + b - 1) \div b

\* recommendation_policy, as the limits of a projection.
AdviceLimits(rules) ==
  [name \in DOMAIN rules \cup {"step", "window"} |->
     IF name \in {"step", "window"} THEN Gate[name] ELSE rules[name]]

\* _scenario_fixture and the linked observation of it: the sources of the
\* fixture are comparable, the sample is judged by Gate 0 and not by the
\* rules, and a safety trigger makes them incomparable (_projection_source).
Projection(s, rules) ==
  LET unsafe == SafetyTriggers(s, rules) # {}
      small == s.clicks < Gate.minClicks \/ s.conversions < Gate.minConversions
  IN [comparability |-> IF unsafe THEN "INCOMPATIBLE" ELSE "COMPARABLE",
      confidence |-> IF small THEN "INSUFFICIENT_DATA" ELSE "READY",
      state |-> s.state, strategy |-> "HIGHEST_POSITION", variant |-> "A",
      financial |-> ~small /\ ~unsafe, clicks |-> s.clicks,
      goalVisits |-> s.conversions, spend |-> s.spend, impressions |-> s.impressions,
      cpa |-> IF s.conversions = 0 THEN NA ELSE CeilingOf(s.spend, s.conversions),
      ctr |-> (1000 * s.clicks) \div s.impressions,
      utilization |-> (100 * s.spend) \div s.budget, facts |-> {}]

Advisor(limits) == INSTANCE ProposalRules WITH Limits <- limits

\* The recommendation of _run: the answer of the provider about the
\* sanitized projection, which must pass the trusted schema.
Advised(s, rules, adviceRules) ==
  LET limits == AdviceLimits(adviceRules)
      shown == Advisor(limits)!Sanitized(Projection(s, rules))
  IN Advisor(limits)!FakeAnswer(shown)

\* _campaign_goal_report: the actual CPA is the displayed one, rounded half
\* up to a kopeck.
GoalStatus(s, adviceRules) ==
  IF s.conversions = 0 THEN "NOT_EVALUABLE"
  ELSE IF s.clicks < Gate.minClicks \/ s.conversions < Gate.minConversions
  THEN "INSUFFICIENT_DATA"
  ELSE IF (200 * s.spend + s.conversions) \div (2 * s.conversions)
            <= 100 * adviceRules.target
  THEN "ACHIEVED" ELSE "NOT_ACHIEVED"
===============================================================================
