---------------------------- MODULE DashboardProofs ----------------------------
(***************************************************************************)
(* Proofs about the dashboard process, for any operators, scenarios, rules *)
(* and faults.                                                             *)
(***************************************************************************)
EXTENDS Dashboard, FiniteSetTheorems, SequenceTheorems, WellFoundedInduction, TLAPS

-----------------------------------------------------------------------------
(* The rules.                                                              *)

\* A threshold that is raised matches no more: products keep the order of a factor.
LEMMA ProductsKeepOrder ==
  \A a, b, c \in Int : a <= b /\ c >= 0 => a * c <= b * c
OBVIOUS

LEMMA GateTypes ==
  /\ \A name \in GateNames : Gate[name] \in Nat
  /\ DefaultRules \in TriggerRules
  /\ \A t \in Int : DefaultAdviceRules(t) \in RecommendationRules
<1>1. \A name \in GateNames : Gate[name] \in Nat
  BY GateAssumption
<1> QED
  BY <1>1 DEF GateNames, DefaultRules, TriggerRules, DefaultAdviceRules, RecommendationRules

\* A deviation that reaches a threshold reaches every lower one.
LEMMA DeviatesMore ==
  ASSUME NEW a \in Int, NEW b \in Int, NEW c \in Int, NEW d \in Int, b >= 0, c >= 0,
         NEW p \in Int, NEW q \in Int, q <= p, Deviates(a, b, c, d, p)
  PROVE  Deviates(a, b, c, d, q)
<1>1. q * c <= p * c /\ p * c \in Int /\ q * c \in Int
  BY ProductsKeepOrder
<1>2. q * c * b <= p * c * b /\ p * c * b \in Int /\ q * c * b \in Int
  BY <1>1, ProductsKeepOrder
<1>3. (a * d - c * b) \in Int
  OBVIOUS
<1> QED
  BY <1>2, <1>3 DEF Deviates

-----------------------------------------------------------------------------
(* What is advised.                                                        *)

Operations ==
  {"NO_CHANGE", "RESUME_CAMPAIGN", "SET_AD_VARIANT", "DECREASE_WEEKLY_BUDGET",
   "DECREASE_SEARCH_BID", "INCREASE_WEEKLY_BUDGET", "INCREASE_SEARCH_BID",
   "SUSPEND_CAMPAIGN"}

\* The limits of a projection are the rules of the recommendation.
LEMMA LimitsOf ==
  ASSUME NEW advice \in RecommendationRules
  PROVE  LET limits == AdviceLimits(advice)
         IN /\ limits.target = advice.target
            /\ limits.minConversions = advice.minConversions
            /\ limits.step = Gate.step
BY DEF AdviceLimits, RecommendationRules

\* An advice names one of the operations, with the step of the policy or none, and spends
\* more only on a large enough sample whose price of a conversion is within the target.
LEMMA AdviceOperations ==
  ASSUME NEW s, NEW rules \in TriggerRules, NEW advice \in RecommendationRules
  PROVE  LET diff == Advised(s, rules, advice).diff
             p == Projection(s, rules)
         IN /\ diff.operation \in Operations
            /\ diff.step \in {0, Gate.step}
            /\ diff.operation \in Raises => /\ ~(p.goalVisits < advice.minConversions)
                                            /\ ~(p.cpa # NA /\ p.cpa > advice.target)
<1> DEFINE p == Projection(s, rules)
           limits == AdviceLimits(advice)
           q == Advisor(limits)!Sanitized(p)
<1>1. q.goalVisits = p.goalVisits /\ q.cpa = p.cpa
  BY DEF Projection, Advisor!Sanitized
<1>2. /\ limits.target = advice.target /\ limits.minConversions = advice.minConversions
      /\ limits.step = Gate.step
  BY LimitsOf
<1> HIDE DEF q, limits
<1>3. Advised(s, rules, advice) = Advisor(limits)!FakeAnswer(q)
  BY DEF Advised, q, limits
<1>4. LET diff == Advisor(limits)!FakeAnswer(q).diff
      IN /\ diff.operation \in Operations
         /\ diff.step \in {0, limits.step}
         /\ diff.operation \in Raises => /\ ~(q.goalVisits < limits.minConversions)
                                         /\ ~(q.cpa # NA /\ q.cpa > limits.target)
  BY DEF Advisor!FakeAnswer, Advisor!Advice, Advisor!Answer, Advisor!Stepped, Advisor!StepDiff,
         Advisor!Diff, Advisor!NoChange, Advisor!AskHuman, Advisor!SampleTooSmall,
         Advisor!AboveTarget, Operations, Raises
<1> QED
  BY <1>1, <1>2, <1>3, <1>4

\* A price rounded up to the ruble is within a target only if the exact price is.
LEMMA CeilingBounds ==
  ASSUME NEW a \in Int, NEW b \in Int, b > 0, NEW t \in Int, CeilingOf(a, b) <= t
  PROVE  a <= t * b
<1> DEFINE n == a + b - 1
           q == n \div b
<1>1. n \in Int /\ q \in Int /\ q <= t
  BY DEF CeilingOf
<1>2. n < (q + 1) * b
  BY <1>1
<1>3. a <= q * b
  BY <1>1, <1>2
<1>4. q * b <= t * b
  BY <1>1, ProductsKeepOrder
<1> QED
  BY <1>1, <1>3, <1>4

\* An advice to spend more keeps the price of a conversion within the target.
LEMMA RaisesAreAffordable ==
  ASSUME NEW s, Scenario(s), ValidScenario(s), NEW rules \in TriggerRules,
         NEW advice \in RecommendationRules, advice.minConversions >= Gate.minConversions,
         Advised(s, rules, advice).diff.operation \in Raises
  PROVE  s.spend <= advice.target * s.conversions
<1> DEFINE p == Projection(s, rules)
<1>1. /\ p.goalVisits = s.conversions
      /\ p.cpa = IF s.conversions = 0 THEN NA ELSE CeilingOf(s.spend, s.conversions)
  BY DEF Projection
<1>2. /\ ~(p.goalVisits < advice.minConversions)
      /\ ~(p.cpa # NA /\ p.cpa > advice.target)
  BY AdviceOperations
<1>3. /\ s.conversions \in Int /\ s.spend \in Int /\ s.conversions >= 0
      /\ advice.minConversions \in Int /\ advice.target \in Int
      /\ Gate.minConversions \in Nat /\ Gate.minConversions > 0 /\ NA \notin Int
  BY GateAssumption, GateTypes DEF Scenario, ValidScenario, Counts, RecommendationRules, GateNames
<1> HIDE DEF p
<1>4. s.conversions > 0
  BY <1>1, <1>2, <1>3
<1>5. CeilingOf(s.spend, s.conversions) \in Int
  BY <1>3, <1>4 DEF CeilingOf
<1>6. CeilingOf(s.spend, s.conversions) <= advice.target
  BY <1>1, <1>2, <1>3, <1>4, <1>5
<1> QED
  BY <1>3, <1>4, <1>6, CeilingBounds

\* What rules that keep the floors of the policy match, the rules of the policy match.
LEMMA TriggersAreSupported ==
  ASSUME NEW s, Scenario(s), ValidScenario(s), NEW rules \in TriggerRules, ValidRules(rules)
  PROVE  PerformanceTriggers(s, rules) \subseteq PerformanceTriggers(s, DefaultRules)
<1>1. /\ \A field \in Counts \cup Totals : s[field] \in Int
      /\ \A field \in Counts : s[field] >= 0
      /\ \A field \in Totals : s[field] >= 1
  BY DEF Scenario, ValidScenario
<1>2. /\ s.clicks \in Int /\ s.clicks >= 0 /\ s.spend \in Int /\ s.spend >= 0
      /\ s.visits \in Int /\ s.visits >= 0 /\ s.conversions \in Int /\ s.conversions >= 0
      /\ s.baselineSpend \in Int /\ s.baselineSpend >= 0
      /\ s.baselineConversions \in Int /\ s.baselineConversions >= 0
      /\ s.baselineClicks \in Int /\ s.baselineClicks >= 0
      /\ s.hours \in Int
  BY <1>1 DEF Counts
<1>3. /\ s.impressions \in Int /\ s.impressions >= 1 /\ s.budget \in Int /\ s.budget >= 1
      /\ s.expectedSpend \in Int /\ s.expectedSpend >= 1
      /\ s.baselineImpressions \in Int /\ s.baselineImpressions >= 1
      /\ s.baselineVisits \in Int /\ s.baselineVisits >= 1
  BY <1>1 DEF Totals
<1>4. \A name \in GateNames : Gate[name] \in Nat
  BY GateTypes
<1>5. /\ rules.budgetPressure.percent \in Int /\ rules.spendGrowth.rub \in Int
      /\ rules.spendGrowth.ceiling \in Int /\ rules.noConversion.rub \in Int
      /\ rules.pacing.percent \in Int /\ rules.cpc.percent \in Int /\ rules.ctr.percent \in Int
      /\ rules.conversionRate.percent \in Int /\ rules.goalCessation.hours \in Int
      /\ rules.goalCessation.visits \in Int
  BY DEF TriggerRules
<1>6. /\ DefaultRules.budgetPressure.percent \in Int
      /\ DefaultRules.budgetPressure.percent <= rules.budgetPressure.percent
      /\ DefaultRules.budgetPressure.enabled
  BY <1>4 DEF DefaultRules, ValidRules, AboveFloors, GateNames
<1>7. ASSUME BudgetPressed(s, rules.budgetPressure)
      PROVE  BudgetPressed(s, DefaultRules.budgetPressure)
  <2>1. DefaultRules.budgetPressure.percent * s.budget <= rules.budgetPressure.percent * s.budget
    BY <1>3, <1>5, <1>6, ProductsKeepOrder
  <2> QED
    BY <1>2, <1>3, <1>5, <1>6, <1>7, <2>1 DEF BudgetPressed
<1>8. \A name \in PercentRules : /\ DefaultRules[name].percent \in Int
                                 /\ DefaultRules[name].percent <= rules[name].percent
                                 /\ DefaultRules[name].enabled
  BY <1>4 DEF DefaultRules, ValidRules, PercentRules, GateNames
<1>9. /\ DefaultRules.pacing.percent \in Int /\ DefaultRules.pacing.percent <= rules.pacing.percent
      /\ DefaultRules.cpc.percent \in Int /\ DefaultRules.cpc.percent <= rules.cpc.percent
      /\ DefaultRules.ctr.percent \in Int /\ DefaultRules.ctr.percent <= rules.ctr.percent
      /\ DefaultRules.conversionRate.percent \in Int
      /\ DefaultRules.conversionRate.percent <= rules.conversionRate.percent
      /\ DefaultRules.pacing.enabled /\ DefaultRules.cpc.enabled /\ DefaultRules.ctr.enabled
      /\ DefaultRules.conversionRate.enabled
  BY <1>8 DEF PercentRules
<1>10. ASSUME PacedAhead(s, rules.pacing)
       PROVE  PacedAhead(s, DefaultRules.pacing)
  <2>1. DefaultRules.pacing.percent * s.expectedSpend <= rules.pacing.percent * s.expectedSpend
    BY <1>3, <1>5, <1>9, ProductsKeepOrder
  <2> QED
    BY <1>2, <1>3, <1>5, <1>9, <1>10, <2>1 DEF PacedAhead
<1>11. CpcDeviates(s, rules.cpc) => CpcDeviates(s, DefaultRules.cpc)
  BY <1>2, <1>3, <1>5, <1>9, DeviatesMore DEF CpcDeviates
<1>12. ASSUME CtrDeviates(s, rules.ctr)
       PROVE  CtrDeviates(s, DefaultRules.ctr)
  <2> DEFINE low == DefaultRules.ctr.percent
             high == rules.ctr.percent
  <2>1. low \in Int /\ high \in Int /\ low <= high
    BY <1>5, <1>9
  <2>2. Deviates(s.clicks, s.impressions, s.baselineClicks, s.baselineImpressions, high)
    BY <1>12 DEF CtrDeviates
  <2> HIDE DEF low, high
  <2>3. /\ s.clicks \in Int /\ s.impressions \in Int /\ s.baselineClicks \in Int
        /\ s.baselineImpressions \in Int /\ s.impressions >= 0 /\ s.baselineClicks >= 0
    BY <1>2, <1>3
  <2>4. Deviates(s.clicks, s.impressions, s.baselineClicks, s.baselineImpressions, low)
    BY <2>1, <2>2, <2>3, DeviatesMore
  <2> QED
    BY <1>9, <2>4 DEF CtrDeviates, low
<1>13. ConversionsDeviate(s, rules.conversionRate) => ConversionsDeviate(s, DefaultRules.conversionRate)
  BY <1>2, <1>3, <1>5, <1>9, DeviatesMore DEF ConversionsDeviate
<1>14. GoalCeased(s, rules.goalCessation) => GoalCeased(s, DefaultRules.goalCessation)
  BY <1>2, <1>4, <1>5 DEF GoalCeased, DefaultRules, ValidRules, GateNames
<1>15. ASSUME SpendGrew(s, rules.spendGrowth)
       PROVE  SpendGrew(s, DefaultRules.spendGrowth)
  <2>1. /\ DefaultRules.spendGrowth.enabled /\ DefaultRules.spendGrowth.ceiling = 0
        /\ DefaultRules.spendGrowth.rub \in Int
        /\ DefaultRules.spendGrowth.rub <= rules.spendGrowth.rub
        /\ rules.spendGrowth.ceiling <= 0
    BY <1>4, <1>5, SMTT(30) DEF DefaultRules, ValidRules, AboveFloors, GateNames
  <2>2. rules.spendGrowth.ceiling * s.baselineConversions <= 0 * s.baselineConversions
    BY <1>2, <1>5, <2>1, ProductsKeepOrder, SMTT(30)
  <2>3. /\ s.spend - s.baselineSpend >= rules.spendGrowth.rub
        /\ s.baselineConversions = 0 => s.conversions = 0
        /\ s.baselineConversions # 0 =>
             100 * (s.conversions - s.baselineConversions)
               <= rules.spendGrowth.ceiling * s.baselineConversions
    BY <1>15 DEF SpendGrew
  <2>4. rules.spendGrowth.ceiling * s.baselineConversions <= 0
    BY <1>2, <1>5, <2>2
  <2>5. s.spend - s.baselineSpend >= DefaultRules.spendGrowth.rub
    BY <1>2, <1>5, <2>1, <2>3
  <2>6. rules.spendGrowth.ceiling * s.baselineConversions \in Int
    BY <1>2, <1>5
  <2>7. s.baselineConversions # 0 =>
          100 * (s.conversions - s.baselineConversions) <= 0 * s.baselineConversions
    BY <1>2, <2>3, <2>4, <2>6
  <2> QED
    BY <1>2, <2>1, <2>3, <2>5, <2>7 DEF SpendGrew
<1>16. NothingConverted(s, rules.noConversion) => NothingConverted(s, DefaultRules.noConversion)
  BY <1>2, <1>4, <1>5 DEF NothingConverted, DefaultRules, ValidRules, AboveFloors, GateNames
<1> HIDE DEF DefaultRules
<1> QED
  BY <1>7, <1>10, <1>11, <1>12, <1>13, <1>14, <1>15, <1>16 DEF PerformanceTriggers

\* Rules that watch the age of the data as the policy does, or more closely, let through
\* no data that the policy calls stale.
LEMMA FreshEnough ==
  ASSUME NEW s, Scenario(s), ValidScenario(s), NEW rules \in TriggerRules, ValidRules(rules),
         SafetyTriggers(s, rules) = {}, rules.freshness.enabled
  PROVE  SafetyTriggers(s, DefaultRules) \subseteq {"SOURCE_MISMATCH", "UNKNOWN_EXTERNAL_CHANGE"}
<1>1. s.directAge \in Int /\ s.metrikaAge \in Int /\ s.skew \in Int
  BY DEF Scenario, Counts
<1>2. /\ rules.freshness.direct \in Int /\ rules.freshness.metrika \in Int
      /\ rules.freshness.skew \in Int
  BY DEF TriggerRules
<1>3. /\ DefaultRules.freshness.direct \in Int /\ DefaultRules.freshness.metrika \in Int
      /\ DefaultRules.freshness.skew \in Int
  BY GateTypes DEF TriggerRules
<1>4. /\ rules.freshness.direct <= DefaultRules.freshness.direct
      /\ rules.freshness.metrika <= DefaultRules.freshness.metrika
      /\ rules.freshness.skew <= DefaultRules.freshness.skew
  BY DEF ValidRules
<1>5. /\ s.directAge <= rules.freshness.direct
      /\ s.metrikaAge <= rules.freshness.metrika
      /\ s.skew <= rules.freshness.skew
  <2>1. /\ "DIRECT_DATA_STALE" \notin SafetyTriggers(s, rules)
        /\ "METRIKA_DATA_STALE" \notin SafetyTriggers(s, rules)
        /\ "WATERMARK_SKEW_EXCEEDED" \notin SafetyTriggers(s, rules)
    OBVIOUS
  <2> QED
    BY <1>1, <1>2, <2>1 DEF SafetyTriggers
<1> HIDE DEF DefaultRules
<1> QED
  BY <1>1, <1>2, <1>3, <1>4, <1>5 DEF SafetyTriggers

-----------------------------------------------------------------------------
(* Types.                                                                  *)

USE DEF settingsVars, authorityVars, draftVars, reportVars, executionVars, impactVars, clockVars

Kinds == {"none", "cycle", "configure", "run", "edit", "create", "select", "delete",
          "revision", "approval", "evaluate"}
Execs == {"none", "APPLIED", "BLOCKED", "NOT_TRIGGERED", "NO_CHANGE", "PENDING_APPROVAL",
          "ALREADY_PROCESSED"}
Goals == {"NOT_EVALUABLE", "INSUFFICIENT_DATA", "ACHIEVED", "NOT_ACHIEVED"}
SettingsRow == [enabled : BOOLEAN, next : Int \cup {Nobody}, policy : Policy]
MandateRow == [status : {"ACTIVE", "REVOKED"}, until : Int]
DraftRow == [id : Nat, revision : Nat, target : Int]
RunRow == [kind : Kinds, source : Nat, policy : Policy, op : Operations, step : Int,
           exec : Execs, target : Int, goal : Goals]
GrantRow == [run : Nat, until : Int, status : {"GRANTED", "USED", "REVOKED"}]
ChangeRow == [run : Nat, grant : Nat, op : Operations, step : Int]
HistoryRow == [claim : Nat, run : Nat, exec : Execs]
AskedRow == [on : BOOLEAN, decisions : Nat, overlapped : BOOLEAN, restarted : BOOLEAN,
             stale : BOOLEAN]
ClaimRow == [at : Int, every : Int, asked : AskedRow]
Points == {"idle", "claimed", "mandate", "begin", "decide", "report", "record", "failed",
           "dead", "authority", "validate", "write", "check", "edit", "create", "select", "delete",
           "sync", "execute", "evaluate", "impact report", "write report",
           "impact workflow", "write workflow"}
\* the jobs that carry one request for an evaluation
JobWith(request) ==
  [kind : Kinds, policy : Policy, on : BOOLEAN, read : SettingsRow \cup {Nobody},
   claim : Nat, mandate : Nat, at : Int, run : Nat, step : Int, exec : Execs,
   op : Operations, target : Int, draft : Nat, seen : Nat, fresh : Nat,
   decisions : Nat, cycles : Nat, request : {request}]
JobOK(j) == j \in JobWith(j.request)

WorkOK ==
  /\ pc \in [Procs -> Points]
  /\ job = [p \in Procs |-> job[p]]
  /\ \A p \in Procs : JobOK(job[p])
  /\ \A p \in Procs : pc[p] = "write" => job[p].read \in SettingsRow
  /\ \A p \in Procs : pc[p] = "check" => job[p].kind \in {"edit", "create", "select", "delete"}

StoreOK ==
  /\ session \in Sessions
  /\ settings \in SettingsRow /\ asked \in AskedRow /\ claims \in Seq(ClaimRow)
  /\ mandates \in Seq(MandateRow) /\ grants \in Seq(GrantRow) /\ killed \in BOOLEAN
  /\ drafts \in Seq(DraftRow) /\ drafts # <<>> /\ selected \in Nat
  /\ runs \in Seq(RunRow) /\ applied \in Seq(ChangeRow) /\ history \in Seq(HistoryRow)
  /\ quiet \in Int /\ now \in Int /\ sent \in Nat /\ lost \subseteq Nat
  /\ lock \in Procs \cup {Nobody}
  /\ late = [day \in DOMAIN session.traffic |-> late[day]]
  /\ \A day \in DOMAIN session.traffic : late[day] \in Nat
  /\ measured = [day \in DOMAIN session.traffic |-> measured[day]]
  /\ documents = [file \in DOMAIN documents |-> documents[file]]

TypeOK == WorkOK /\ StoreOK

LEMMA NoJobOK ==
  /\ JobOK(NoJob) /\ FirstPolicy \in Policy /\ NoJob.claim = 0 /\ NoJob.run = 0
  /\ NoJob.kind = "none" /\ NoJob.request = Nobody
  /\ \A r \in Sessions : r.policies \subseteq Policy
<1>1. FirstPolicy \in Policy
  BY DashboardAssumption, GateTypes DEF FirstPolicy, Policy, GateNames
<1>2. NoJob.request = Nobody
  BY DEF NoJob
<1>3. NoJob \in JobWith(Nobody)
  <2>1. "NO_CHANGE" \in Operations /\ "none" \in Kinds /\ "none" \in Execs
    BY DEF Operations, Kinds, Execs
  <2> QED
    BY <1>1, <2>1 DEF NoJob, JobWith
<1> QED
  BY <1>1, <1>2, <1>3, DashboardAssumption DEF NoJob, JobOK

\* Work gives process p its next point and job and leaves the others alone.
LEMMA WorkNext ==
  ASSUME WorkOK, NEW p \in Procs, NEW where \in Points, NEW j, JobOK(j), Work(p, where, j),
         where = "write" => j.read \in SettingsRow,
         where = "check" => j.kind \in {"edit", "create", "select", "delete"}
  PROVE  /\ WorkOK'
         /\ pc'[p] = where /\ job'[p] = j
         /\ \A q \in Procs \ {p} : pc'[q] = pc[q] /\ job'[q] = job[q]
<1>1. pc' = [pc EXCEPT ![p] = where] /\ job' = [job EXCEPT ![p] = j]
  BY DEF Work, Goto
<1>2. /\ pc' \in [Procs -> Points] /\ job' = [q \in Procs |-> job'[q]]
      /\ pc'[p] = where /\ job'[p] = j
      /\ \A q \in Procs \ {p} : pc'[q] = pc[q] /\ job'[q] = job[q]
  BY <1>1 DEF WorkOK
<1> QED
  BY <1>2 DEF WorkOK

LEMMA ReturnNext ==
  ASSUME WorkOK, NEW p \in Procs, Return(p)
  PROVE  /\ WorkOK'
         /\ pc'[p] = "idle" /\ job'[p] = NoJob
         /\ \A q \in Procs \ {p} : pc'[q] = pc[q] /\ job'[q] = job[q]
<1>1. "idle" \in Points
  BY DEF Points
<1> QED
  BY <1>1, NoJobOK, WorkNext DEF Return

LEMMA GotoNext ==
  ASSUME WorkOK, NEW p \in Procs, NEW where \in Points \ {"write", "check"},
         Goto(p, where), UNCHANGED job
  PROVE  /\ WorkOK'
         /\ pc'[p] = where
         /\ \A q \in Procs \ {p} : pc'[q] = pc[q]
<1>1. pc' = [pc EXCEPT ![p] = where] /\ job' = job
  BY DEF Goto
<1>2. pc' \in [Procs -> Points] /\ pc'[p] = where /\ \A q \in Procs \ {p} : pc'[q] = pc[q]
  BY <1>1 DEF WorkOK
<1> QED
  BY <1>1, <1>2 DEF WorkOK

storeVars == <<session, settings, asked, claims, mandates, grants, killed, drafts, selected,
               runs, applied, history, quiet, now, sent, lost, lock, late, measured, documents>>
LEMMA StoreStays == StoreOK /\ UNCHANGED storeVars => StoreOK'
BY DEF StoreOK, storeVars

\* A set of numbers up to a bound has a greatest one.
Less == {pair \in Nat \X Nat : pair[1] < pair[2]}
LEMMA LessWellFounded == IsWellFoundedOn(Less, Nat)
<1>1. Less = OpToRel(<, Nat)
  BY Zenon DEF OpToRel, Less
<1> QED
  BY <1>1, NatLessThanWellFounded, Zenon

LEMMA Greatest ==
  ASSUME NEW n \in Nat, NEW S, S \subseteq 1..n, S # {}
  PROVE  \E i \in S : \A j \in S : j <= i
<1> DEFINE P == {m \in Nat : n - m \in S}
<1>1. PICK i \in S : TRUE
  OBVIOUS
<1>2. i \in 1..n
  OBVIOUS
<1>3. n - i \in Nat /\ n - (n - i) = i
  BY <1>2
<1>4. P # {} /\ P \subseteq Nat
  BY <1>1, <1>3
<1>5. PICK m \in P : \A k \in P : <<k, m>> \notin Less
  <2> HIDE DEF P
  <2> QED
    BY <1>4, WFMin, LessWellFounded
<1>6. n - m \in S /\ m \in Nat
  BY <1>5
<1>7. ASSUME NEW j \in S
      PROVE  j <= n - m
  <2>1. j \in 1..n
    OBVIOUS
  <2>2. n - j \in Nat /\ n - (n - j) = j
    BY <2>1
  <2>3. n - j \in P
    BY <2>2
  <2>4. ~(n - j < m)
    BY <1>5, <1>6, <2>2, <2>3 DEF Less
  <2> QED
    BY <1>6, <2>1, <2>2, <2>4
<1> QED
  BY <1>6, <1>7

LEMMA NewestOf ==
  ASSUME TypeOK
  PROVE  /\ NewestActive \in Nat
         /\ \A r : GrantsFor(r) # {} => BoundGrant(r) \in GrantsFor(r)
<1>1. Len(mandates) \in Nat /\ StoredActive \subseteq 1..Len(mandates)
  BY DEF TypeOK, StoreOK, StoredActive
<1>2. NewestActive \in Nat
  <2>1. CASE StoredActive = {}
    BY <2>1 DEF NewestActive
  <2>2. CASE StoredActive # {}
    <3>1. \E i \in StoredActive : \A j \in StoredActive : j <= i
      BY <1>1, <2>2, Greatest
    <3>2. NewestActive \in StoredActive
      BY <2>2, <3>1 DEF NewestActive
    <3> QED
      BY <1>1, <3>2
  <2> QED
    BY <2>1, <2>2
<1>3. ASSUME NEW r, GrantsFor(r) # {}
      PROVE  BoundGrant(r) \in GrantsFor(r)
  <2>1. Len(grants) \in Nat /\ GrantsFor(r) \subseteq 1..Len(grants)
    BY DEF TypeOK, StoreOK, GrantsFor
  <2>2. \E g \in GrantsFor(r) : \A h \in GrantsFor(r) : h <= g
    BY <1>3, <2>1, Greatest
  <2> QED
    BY <2>2 DEF BoundGrant
<1> QED
  BY <1>2, <1>3

\* A draft that exists is found, and there is always a selected one.
LEMMA DraftsFound ==
  ASSUME TypeOK
  PROVE  /\ \A id : Exists(id) => Draft(id) \in 1..Len(drafts) /\ drafts[Draft(id)].id = id
         /\ \A i \in DOMAIN drafts : drafts[i] \in DraftRow
         /\ SelectedId \in Nat /\ SelectedDraft \in DraftRow
<1>1. drafts \in Seq(DraftRow) /\ drafts # <<>> /\ Len(drafts) \in Nat
  BY DEF TypeOK, StoreOK
<1>2. DOMAIN drafts = 1..Len(drafts) /\ 1 \in DOMAIN drafts
  BY <1>1
<1>3. \A i \in DOMAIN drafts : drafts[i] \in DraftRow
  BY <1>1
<1>4. ASSUME NEW id, Exists(id)
      PROVE  Draft(id) \in 1..Len(drafts) /\ drafts[Draft(id)].id = id
  BY <1>2, <1>4 DEF Exists, Draft
<1>5. Exists(SelectedId) /\ SelectedId \in Nat
  <2>1. \A i \in DOMAIN drafts : drafts[i].id \in Nat /\ Exists(drafts[i].id)
    BY <1>3 DEF DraftRow, Exists
  <2> QED
    BY <1>2, <2>1 DEF SelectedId, TypeOK, StoreOK
<1> QED
  BY <1>1, <1>2, <1>3, <1>4, <1>5 DEF SelectedDraft

\* What a policy names: its scenario and its rules.
LEMMA PolicyNames ==
  ASSUME NEW policy \in Policy
  PROVE  /\ Scenario(Facts(policy)) /\ Rules(policy) \in TriggerRules
         /\ AdviceRules(policy) \in RecommendationRules
         /\ AdviceRules(policy).target = policy.target
<1>1. /\ policy.facts \in DOMAIN ScenarioOf /\ policy.rules \in DOMAIN TuningOf
      /\ policy.target \in Int
  BY DEF Policy
<1>2. /\ TuningOf[policy.rules].rules \in TriggerRules
      /\ TuningOf[policy.rules].advice \in RecommendationRules
  BY <1>1, DashboardAssumption
<1>3. Scenario(ScenarioOf[policy.facts])
  BY <1>1, DashboardAssumption
<1> QED
  BY <1>1, <1>2, <1>3 DEF Facts, Rules, AdviceRules, RecommendationRules

LEMMA TypesOf ==
  ASSUME TypeOK, NEW p \in Procs
  PROVE  /\ JobOK(job[p]) /\ pc[p] \in Points /\ WorkOK /\ StoreOK
         /\ job[p].policy \in Policy /\ job[p].claim \in Nat /\ job[p].run \in Nat
         /\ job[p].step \in Int /\ job[p].op \in Operations /\ job[p].exec \in Execs
         /\ job[p].target \in Int /\ job[p].draft \in Nat /\ job[p].seen \in Nat
         /\ job[p].fresh \in Nat /\ job[p].decisions \in Nat /\ job[p].cycles \in Nat
         /\ job[p].at \in Int
         /\ job[p].on \in BOOLEAN /\ job[p].kind \in Kinds /\ job[p].mandate \in Nat
         /\ job[p].read \in SettingsRow \cup {Nobody}
BY SMTT(30) DEF TypeOK, WorkOK, JobOK, JobWith

\* Jobs that change one or two fields stay jobs.
LEMMA JobFields ==
  ASSUME NEW j, JobOK(j)
  PROVE  /\ \A x \in Policy : JobOK([j EXCEPT !.policy = x])
         /\ \A x \in Nat : JobOK([j EXCEPT !.mandate = x])
         /\ \A x, y \in Int : JobOK([j EXCEPT !.at = x, !.target = y])
         /\ \A x \in Int : JobOK([j EXCEPT !.target = x])
         /\ \A x \in Execs : JobOK([j EXCEPT !.exec = x])
         /\ \A x \in Execs, y \in Operations, z \in Int :
              JobOK([j EXCEPT !.exec = x, !.op = y, !.step = z])
         /\ \A x \in Int, y \in Execs : JobOK([j EXCEPT !.step = x, !.exec = y])
         /\ \A x \in SettingsRow, n \in Nat : JobOK([j EXCEPT !.read = x, !.cycles = n])
         /\ \A x \in Policy, y \in BOOLEAN, z \in Nat :
              JobOK([j EXCEPT !.policy = x, !.on = y, !.decisions = z])
         /\ \A x \in Kinds, y \in Policy : JobOK([j EXCEPT !.kind = x, !.policy = y])
         /\ \A x \in Kinds, y \in Policy, z \in BOOLEAN :
              JobOK([j EXCEPT !.kind = x, !.policy = y, !.on = z])
         /\ \A x \in Kinds, y \in Nat : JobOK([j EXCEPT !.kind = x, !.claim = y])
         /\ \A x \in Kinds, a, b, c \in Nat, t \in Int :
              JobOK([j EXCEPT !.kind = x, !.draft = a, !.seen = b, !.fresh = c, !.target = t])
         /\ \A x \in Kinds, r \in Nat, y \in Policy, o \in Operations, s, t, a \in Int :
              JobOK([j EXCEPT !.kind = x, !.run = r, !.policy = y, !.op = o, !.step = s,
                              !.target = t, !.at = a])
         /\ \A x \in Kinds : \A r : JobOK([j EXCEPT !.kind = x, !.request = r])
         /\ \A x \in Nat : JobOK([j EXCEPT !.run = x])
<1>1. j \in JobWith(j.request)
  BY DEF JobOK
<1>2. \A x \in Policy : JobOK([j EXCEPT !.policy = x])
  BY <1>1 DEF JobOK, JobWith
<1>3. \A x \in Nat : JobOK([j EXCEPT !.mandate = x])
  BY <1>1 DEF JobOK, JobWith
<1>4. \A x, y \in Int : JobOK([j EXCEPT !.at = x, !.target = y])
  BY <1>1 DEF JobOK, JobWith
<1>5. \A x \in Int : JobOK([j EXCEPT !.target = x])
  BY <1>1 DEF JobOK, JobWith
<1>6. \A x \in Execs : JobOK([j EXCEPT !.exec = x])
  BY <1>1 DEF JobOK, JobWith
<1>7. \A x \in Execs, y \in Operations, z \in Int :
        JobOK([j EXCEPT !.exec = x, !.op = y, !.step = z])
  BY <1>1 DEF JobOK, JobWith
<1>8. \A x \in Int, y \in Execs : JobOK([j EXCEPT !.step = x, !.exec = y])
  BY <1>1 DEF JobOK, JobWith
<1>9. \A x \in SettingsRow, n \in Nat : JobOK([j EXCEPT !.read = x, !.cycles = n])
  BY <1>1 DEF JobOK, JobWith
<1>10. \A x \in Policy, y \in BOOLEAN, z \in Nat :
         JobOK([j EXCEPT !.policy = x, !.on = y, !.decisions = z])
  BY <1>1 DEF JobOK, JobWith
<1>11. \A x \in Kinds, y \in Policy : JobOK([j EXCEPT !.kind = x, !.policy = y])
  BY <1>1 DEF JobOK, JobWith
<1>12. \A x \in Kinds, y \in Policy, z \in BOOLEAN :
         JobOK([j EXCEPT !.kind = x, !.policy = y, !.on = z])
  BY <1>1, ZenonT(60) DEF JobOK, JobWith
<1>13. \A x \in Kinds, y \in Nat : JobOK([j EXCEPT !.kind = x, !.claim = y])
  BY <1>1 DEF JobOK, JobWith
<1>14. ASSUME NEW x \in Kinds, NEW a \in Nat, NEW b \in Nat, NEW c \in Nat, NEW t \in Int
       PROVE  JobOK([j EXCEPT !.kind = x, !.draft = a, !.seen = b, !.fresh = c, !.target = t])
  <2> DEFINE k == [j EXCEPT !.kind = x, !.draft = a, !.seen = b]
  <2>1. JobOK(k)
    BY <1>1 DEF JobOK, JobWith
  <2>2. [j EXCEPT !.kind = x, !.draft = a, !.seen = b, !.fresh = c, !.target = t]
          = [k EXCEPT !.fresh = c, !.target = t]
    OBVIOUS
  <2> HIDE DEF k
  <2>3. JobOK([k EXCEPT !.fresh = c, !.target = t])
    BY <2>1 DEF JobOK, JobWith
  <2> QED
    BY <2>2, <2>3
<1>15. ASSUME NEW x \in Kinds, NEW r \in Nat, NEW y \in Policy, NEW o \in Operations,
              NEW s \in Int, NEW t \in Int, NEW a \in Int
       PROVE  JobOK([j EXCEPT !.kind = x, !.run = r, !.policy = y, !.op = o, !.step = s,
                              !.target = t, !.at = a])
  <2> DEFINE k == [j EXCEPT !.kind = x, !.run = r, !.policy = y]
             l == [k EXCEPT !.op = o, !.step = s]
  <2>1. JobOK(k)
    BY <1>1 DEF JobOK, JobWith
  <2>2. [j EXCEPT !.kind = x, !.run = r, !.policy = y, !.op = o, !.step = s, !.target = t,
                  !.at = a] = [l EXCEPT !.target = t, !.at = a]
    OBVIOUS
  <2> HIDE DEF k
  <2>3. JobOK(l)
    BY <2>1 DEF JobOK, JobWith
  <2> HIDE DEF l
  <2>4. JobOK([l EXCEPT !.target = t, !.at = a])
    BY <2>3 DEF JobOK, JobWith
  <2> QED
    BY <2>2, <2>4
<1>16. \A x \in Kinds : \A r : JobOK([j EXCEPT !.kind = x, !.request = r])
  BY <1>1 DEF JobOK, JobWith
<1>17. \A x \in Nat : JobOK([j EXCEPT !.run = x])
  BY <1>1 DEF JobOK, JobWith
<1> QED
  BY <1>2, <1>3, <1>4, <1>5, <1>6, <1>7, <1>8, <1>9, <1>10, <1>11, <1>12, <1>13, <1>14,
     <1>15, <1>16, <1>17

-----------------------------------------------------------------------------
(* Types are kept, one step per action.                                    *)

LEMMA ClaimDueTypes == ASSUME TypeOK, ClaimDue, UNCHANGED impactVars PROVE TypeOK'
<1>1. Scheduler \in Procs /\ "claimed" \in Points /\ "cycle" \in Kinds
  BY DEF Procs, Points, Kinds
<1>2. StoreOK /\ WorkOK
  BY DEF TypeOK
<1>3. settings.policy \in Policy /\ settings.policy.every \in Int /\ now \in Int
      /\ asked \in AskedRow /\ Len(claims) + 1 \in Nat
  BY <1>2, SMTT(30) DEF StoreOK, SettingsRow, Policy
<1>4. StoreOK'
  <2>1. [at |-> now, every |-> settings.policy.every, asked |-> asked] \in ClaimRow
    BY <1>3 DEF ClaimRow
  <2>2. settings' \in SettingsRow
    <3>1. now + settings.policy.every \in Int /\ settings \in SettingsRow
      BY <1>2, <1>3, SMTT(30) DEF StoreOK
    <3>2. settings' = [settings EXCEPT !.next = now + settings.policy.every]
      BY DEF ClaimDue
    <3> QED
      BY <3>1, <3>2 DEF SettingsRow
  <2>3. claims' \in Seq(ClaimRow)
    BY <1>2, <2>1 DEF ClaimDue, StoreOK
  <2>4. asked' \in AskedRow
    <3>1. asked' = [asked EXCEPT !.restarted = FALSE, !.stale = FALSE]
      BY DEF ClaimDue
    <3> QED
      BY <1>3, <3>1 DEF AskedRow
  <2> QED
    BY <1>2, <2>2, <2>3, <2>4 DEF ClaimDue, StoreOK
<1>5. JobOK([NoJob EXCEPT !.kind = "cycle", !.claim = Len(claims) + 1])
  BY <1>1, <1>3, NoJobOK, JobFields
<1> QED
  BY <1>1, <1>2, <1>4, <1>5, WorkNext DEF ClaimDue, TypeOK

LEMMA CycleTypes ==
  ASSUME TypeOK, ReadCycle \/ PickMandate \/ RecordFailure \/ SchedulerDies,
         UNCHANGED impactVars
  PROVE  TypeOK'
<1>1. Scheduler \in Procs /\ {"mandate", "begin", "dead"} \subseteq Points
  BY DEF Procs, Points
<1>2. StoreOK /\ WorkOK /\ JobOK(job[Scheduler]) /\ job[Scheduler].claim \in Nat
  BY <1>1, TypesOf DEF TypeOK
<1>3. CASE ReadCycle
  <2>1. JobOK([job[Scheduler] EXCEPT !.policy = settings.policy])
    BY <1>2, JobFields DEF StoreOK, SettingsRow
  <2>2. StoreOK'
    BY <1>2, <1>3, StoreStays DEF ReadCycle, storeVars
  <2> QED
    BY <1>1, <1>2, <1>3, <2>1, <2>2, WorkNext, SMTT(30) DEF ReadCycle, TypeOK
<1>4. CASE PickMandate
  <2>1. JobOK([job[Scheduler] EXCEPT !.mandate = NewestActive])
    BY <1>2, JobFields, NewestOf
  <2>2. StoreOK'
    BY <1>2, <1>4, StoreStays DEF PickMandate, storeVars
  <2> QED
    BY <1>1, <1>2, <1>4, <2>1, <2>2, WorkNext, SMTT(30) DEF PickMandate, TypeOK
<1>5. CASE RecordFailure
  <2>1. NextRow(Scheduler, 0, "BLOCKED") \in Seq(HistoryRow)
    BY <1>2 DEF NextRow, StoreOK, HistoryRow, Execs
  <2>2. StoreOK'
    BY <1>2, <1>5, <2>1 DEF RecordFailure, StoreOK
  <2> QED
    BY <1>1, <1>2, <1>5, <2>2, ReturnNext DEF RecordFailure, TypeOK
<1>6. CASE SchedulerDies
  <2>1. StoreOK'
    BY <1>2, <1>6 DEF SchedulerDies, StoreOK
  <2> QED
    BY <1>1, <1>2, <1>6, <2>1, NoJobOK, WorkNext DEF SchedulerDies, TypeOK
<1> QED
  BY <1>3, <1>4, <1>5, <1>6

\* A job that fails is recorded or dropped.
LEMMA FailNext ==
  ASSUME WorkOK, NEW p \in Procs, Fail(p)
  PROVE  /\ WorkOK'
         /\ \/ p = Scheduler /\ pc'[p] = "failed" /\ job'[p] = job[p]
            \/ p # Scheduler /\ pc'[p] = "idle" /\ job'[p] = NoJob
         /\ \A q \in Procs \ {p} : pc'[q] = pc[q] /\ job'[q] = job[q]
<1>1. "failed" \in Points /\ JobOK(job[p])
  BY DEF Points, WorkOK
<1>2. CASE p = Scheduler
  BY <1>1, <1>2, WorkNext DEF Fail
<1>3. CASE p # Scheduler
  BY <1>3, ReturnNext DEF Fail
<1> QED
  BY <1>2, <1>3

LEMMA BeginRunTypes ==
  ASSUME TypeOK, NEW p \in Procs, BeginRun(p), UNCHANGED impactVars PROVE TypeOK'
<1>1. StoreOK /\ WorkOK /\ JobOK(job[p]) /\ "decide" \in Points
  BY TypesOf DEF Points
<1>2. CASE Fail(p) /\ UNCHANGED lock
  BY <1>1, <1>2, FailNext, StoreStays DEF BeginRun, storeVars, TypeOK
<1>3. CASE lock' = p /\ Work(p, "decide", [job[p] EXCEPT !.at = now,
                                                         !.target = SelectedDraft.target])
  <2>1. SelectedDraft.target \in Int /\ now \in Int
    BY DraftsFound DEF DraftRow, TypeOK, StoreOK
  <2>2. JobOK([job[p] EXCEPT !.at = now, !.target = SelectedDraft.target])
    BY <1>1, <2>1, JobFields
  <2>3. StoreOK'
    BY <1>1, <1>3 DEF BeginRun, StoreOK
  <2> QED
    BY <1>1, <1>3, <2>2, <2>3, WorkNext DEF TypeOK
<1> QED
  BY <1>2, <1>3 DEF BeginRun

\* What is advised for a job.
AdviceFor(p) ==
  Advised(Facts(job[p].policy), Rules(job[p].policy), AdviceRules(job[p].policy)).diff
LEMMA AdviceForTypes ==
  ASSUME TypeOK, NEW p \in Procs
  PROVE  AdviceFor(p).operation \in Operations /\ AdviceFor(p).step \in Int
<1>1. job[p].policy \in Policy
  BY TypesOf
<1>2. /\ Rules(job[p].policy) \in TriggerRules
      /\ AdviceRules(job[p].policy) \in RecommendationRules
  BY <1>1, PolicyNames
<1>3. AdviceFor(p).operation \in Operations /\ AdviceFor(p).step \in {0, Gate.step}
  BY <1>2, AdviceOperations DEF AdviceFor
<1> QED
  BY <1>3, GateTypes DEF GateNames

\* The ways in which a decision ends.
LEMMA DecideNext ==
  ASSUME TypeOK, NEW p \in Procs, Decide(p)
  PROVE  \/ \E exec \in Execs \ {"APPLIED"} : Settle(p, exec, AdviceFor(p))
         \/ /\ job[p].kind = "cycle" /\ Triggers(Facts(job[p].policy), Rules(job[p].policy)) # {}
            /\ SafetyTriggers(Facts(job[p].policy), Rules(job[p].policy)) = {}
            /\ quiet' = job[p].at + Quiet
            /\ applied' = Append(applied, Prepared(0, 0, AdviceFor(p).operation,
                                                   AdviceFor(p).step))
            /\ Work(p, "report", [job[p] EXCEPT !.exec = "APPLIED",
                                                !.op = AdviceFor(p).operation,
                                                !.step = AdviceFor(p).step])
<1> DEFINE a == AdviceFor(p)
<1>1. {"NOT_TRIGGERED", "BLOCKED", "NO_CHANGE", "PENDING_APPROVAL"} \subseteq Execs \ {"APPLIED"}
  BY DEF Execs
<1>2. Advised(Facts(job[p].policy), Rules(job[p].policy), AdviceRules(job[p].policy)).diff = a
  BY SMTT(30) DEF AdviceFor
<1> HIDE DEF a
<1> QED
  BY <1>1, <1>2 DEF Decide, ExecuteBounded, a

LEMMA DecideTypes ==
  ASSUME TypeOK, NEW p \in Procs, Decide(p), UNCHANGED impactVars PROVE TypeOK'
<1> DEFINE a == AdviceFor(p)
<1>1. StoreOK /\ WorkOK /\ JobOK(job[p]) /\ "report" \in Points /\ job[p].at \in Int
      /\ "APPLIED" \in Execs
  BY TypesOf DEF Points, Execs
<1>2. a.operation \in Operations /\ a.step \in Int
  BY AdviceForTypes
<1>3. UNCHANGED <<clockVars, settingsVars, authorityVars, draftVars, reportVars, lock, impactVars>>
  BY DEF Decide
<1> HIDE DEF a
<1>4. ASSUME NEW exec \in Execs, Settle(p, exec, a)
      PROVE  TypeOK'
  <2>1. JobOK([job[p] EXCEPT !.exec = exec, !.op = a.operation, !.step = a.step])
    BY <1>1, <1>2, JobFields
  <2>2. StoreOK'
    BY <1>1, <1>3, <1>4, StoreStays DEF Settle, storeVars
  <2> QED
    BY <1>1, <1>4, <2>1, <2>2, WorkNext, SMTT(30) DEF Settle, TypeOK
<1>5. ASSUME quiet' = job[p].at + Quiet,
             applied' = Append(applied, Prepared(0, 0, a.operation, a.step)),
             Work(p, "report", [job[p] EXCEPT !.exec = "APPLIED", !.op = a.operation,
                                              !.step = a.step])
      PROVE  TypeOK'
  <2>1. JobOK([job[p] EXCEPT !.exec = "APPLIED", !.op = a.operation, !.step = a.step])
    BY <1>1, <1>2, JobFields
  <2>2. Prepared(0, 0, a.operation, a.step) \in ChangeRow
    BY <1>2 DEF Prepared, ChangeRow
  <2>3. quiet' \in Int
    BY <1>1, <1>5, DashboardAssumption
  <2>4. applied' \in Seq(ChangeRow)
    BY <1>1, <1>5, <2>2 DEF StoreOK
  <2>5. StoreOK'
    BY <1>1, <1>3, <2>3, <2>4 DEF StoreOK
  <2> QED
    BY <1>1, <1>5, <2>1, <2>5, WorkNext, SMTT(30) DEF TypeOK
<1> QED
  BY <1>4, <1>5, DecideNext DEF a

LEMMA ReportTypes ==
  ASSUME TypeOK, NEW p \in Procs, WriteReport(p) \/ RecordReport(p) \/ ReportFails(p),
         UNCHANGED impactVars
  PROVE  TypeOK'
<1>1. /\ StoreOK /\ WorkOK /\ JobOK(job[p]) /\ Released(p) \in Procs \cup {Nobody}
      /\ "record" \in Points
  BY TypesOf DEF Released, StoreOK, Points
<1>2. CASE WriteReport(p)
  <2>1. GoalStatus(Facts(job[p].policy), AdviceRules(job[p].policy)) \in Goals
    BY DEF GoalStatus, Goals
  <2>2. ReportOf(p) \in RunRow
    BY <2>1, TypesOf DEF ReportOf, RunRow
  <2>3. runs' \in Seq(RunRow) /\ Len(runs) + 1 \in Nat
    BY <1>1, <1>2, <2>2, SMTT(30) DEF WriteReport, StoreOK
  <2>4. JobOK([job[p] EXCEPT !.run = Len(runs) + 1])
    BY <1>1, <2>3, JobFields
  <2>5. StoreOK'
    BY <1>1, <1>2, <2>3 DEF WriteReport, StoreOK
  <2> QED
    BY <1>1, <1>2, <2>4, <2>5, WorkNext DEF WriteReport, TypeOK
<1>3. CASE RecordReport(p)
  <2>1. [claim |-> job[p].claim, run |-> job[p].run, exec |-> job[p].exec] \in HistoryRow
    BY TypesOf DEF HistoryRow
  <2>2. history' \in Seq(HistoryRow)
    BY <1>1, <1>3, <2>1 DEF RecordReport, NextRow, StoreOK
  <2>3. StoreOK'
    BY <1>1, <1>3, <2>2 DEF RecordReport, StoreOK
  <2> QED
    BY <1>1, <1>3, <2>3, ReturnNext DEF RecordReport, TypeOK
<1>4. CASE ReportFails(p)
  <2>1. StoreOK'
    BY <1>1, <1>4 DEF ReportFails, StoreOK
  <2> QED
    BY <1>1, <1>4, <2>1, FailNext DEF ReportFails, TypeOK
<1> QED
  BY <1>2, <1>3, <1>4

\* What a request changes of the store.
LEMMA RequestTypes ==
  ASSUME TypeOK, NEW c \in Clients, NEW kind, Request(c, kind)
  PROVE  /\ c \in Procs /\ c # Scheduler /\ pc[c] = "idle"
         /\ sent' = sent + 1 /\ sent' \in Nat /\ sent + 2 \in Nat
         /\ UNCHANGED <<session, now, claims, lost>>
<1>1. Scheduler \notin Clients /\ sent \in Nat
  BY DashboardAssumption DEF TypeOK, StoreOK
<1> QED
  BY <1>1 DEF Request, At, Procs

\* The requests of a client that start work and leave the store alone.
LEMMA RequestsTypes ==
  ASSUME TypeOK, NEW c \in Clients, UNCHANGED impactVars,
         \/ \E policy \in session.policies, on \in BOOLEAN : Configure(c, policy, on)
         \/ \E policy \in session.policies : RunTest(c, policy)
         \/ \E i \in DOMAIN drafts, target \in Targets,
               kind \in {"edit", "create", "select", "delete"} : OpenDraft(c, kind, i, target)
         \/ \E r \in DOMAIN runs : Approve(c, r)
         \/ \E r \in DOMAIN runs, step \in RevisedSteps : Revise(c, r, step)
  PROVE  TypeOK'
<1>1. /\ StoreOK /\ WorkOK /\ c \in Procs /\ JobOK(NoJob)
      /\ session.policies \subseteq Policy
      /\ {"authority", "begin", "check", "execute", "report"} \subseteq Points
      /\ {"configure", "run", "edit", "create", "select", "delete", "approval", "revision"}
           \subseteq Kinds
      /\ "PENDING_APPROVAL" \in Execs
  BY NoJobOK DEF TypeOK, StoreOK, Procs, Points, Kinds, Execs
<1>2. \A r \in DOMAIN runs : runs[r] \in RunRow /\ r \in Nat
  BY <1>1 DEF StoreOK
<1>3. ASSUME NEW kind, Request(c, kind),
             UNCHANGED <<settingsVars, authorityVars, draftVars, reportVars, executionVars, lock>>
      PROVE  StoreOK'
  BY <1>1, <1>3, RequestTypes DEF StoreOK
<1>4. ASSUME NEW kind, NEW r \in DOMAIN runs, kind \in {"approval", "revision"}
      PROVE  JobOK(Derived(kind, r))
  <2>1. /\ runs[r].policy \in Policy /\ runs[r].op \in Operations /\ runs[r].step \in Int
        /\ runs[r].target \in Int /\ r \in Nat
    BY <1>2 DEF RunRow
  <2>2. kind \in Kinds /\ now \in Int
    BY <1>1, <1>4 DEF StoreOK
  <2> QED
    BY <1>1, <2>1, <2>2, JobFields, ZenonT(60) DEF Derived
<1>5. ASSUME NEW policy \in session.policies, NEW on \in BOOLEAN, Configure(c, policy, on)
      PROVE  TypeOK'
  <2>1. JobOK([NoJob EXCEPT !.kind = "configure", !.policy = policy, !.on = on])
    BY <1>1, JobFields, ZenonT(60)
  <2> QED
    BY <1>1, <1>3, <1>5, <2>1, WorkNext DEF Configure, TypeOK
<1>6. ASSUME NEW policy \in session.policies, RunTest(c, policy)
      PROVE  TypeOK'
  <2>1. JobOK([NoJob EXCEPT !.kind = "run", !.policy = policy])
    BY <1>1, JobFields
  <2> QED
    BY <1>1, <1>3, <1>6, <2>1, WorkNext, ZenonT(60) DEF RunTest, TypeOK
<1>7. ASSUME NEW i \in DOMAIN drafts, NEW target \in Targets,
             NEW kind \in {"edit", "create", "select", "delete"}, OpenDraft(c, kind, i, target)
      PROVE  TypeOK'
  <2> DEFINE j == [NoJob EXCEPT !.kind = kind, !.draft = drafts[i].id,
                                !.seen = drafts[i].revision, !.fresh = sent + 2,
                                !.target = target]
  <2>1. drafts[i].id \in Nat /\ drafts[i].revision \in Nat
    BY DraftsFound, SMTT(30) DEF DraftRow
  <2>2. sent + 2 \in Nat /\ target \in Int
    BY <1>7, RequestTypes, DashboardAssumption, ZenonT(60) DEF OpenDraft
  <2>3. JobOK(j)
    <3>1. kind \in Kinds /\ JobOK(NoJob)
      BY <1>1
    <3> HIDE DEF NoJob
    <3> QED
      BY <2>1, <2>2, <3>1, JobFields, ZenonT(60)
  <2>4. j.kind = kind
    BY DEF NoJob
  <2> HIDE DEF j
  <2>5. Work(c, "check", j)
    BY <1>7, ZenonT(60) DEF OpenDraft, j
  <2>6. StoreOK'
    BY <1>3, <1>7 DEF OpenDraft
  <2> QED
    BY <1>1, <2>3, <2>4, <2>5, <2>6, WorkNext DEF TypeOK
<1>8. ASSUME NEW r \in DOMAIN runs, Approve(c, r)
      PROVE  TypeOK'
  BY <1>1, <1>3, <1>4, <1>8, WorkNext DEF Approve, TypeOK
<1>9. ASSUME NEW r \in DOMAIN runs, NEW step \in RevisedSteps, Revise(c, r, step)
      PROVE  TypeOK'
  <2>1. step \in Int
    BY DashboardAssumption, GateTypes DEF GateNames
  <2>2. JobOK(Derived("revision", r))
    BY <1>4, SMTT(30)
  <2>3. JobOK([Derived("revision", r) EXCEPT !.step = step, !.exec = "PENDING_APPROVAL"])
    BY <1>1, <2>1, <2>2, JobFields
  <2> QED
    BY <1>1, <1>3, <1>9, <2>3, WorkNext DEF Revise, TypeOK
<1> QED
  BY <1>5, <1>6, <1>7, <1>8, <1>9

\* The requests of a client that are one transaction.
LEMMA AuthorityTypes ==
  ASSUME TypeOK, NEW c \in Clients, UNCHANGED impactVars,
         \/ \E r \in DOMAIN runs : Grant(c, r)
         \/ \E g \in DOMAIN grants : Withdraw(c, g)
         \/ RevokeMandate(c) \/ SwitchKill(c)
  PROVE  TypeOK'
<1>1. StoreOK /\ WorkOK
  BY DEF TypeOK
<1>2. ASSUME NEW r \in DOMAIN runs, Grant(c, r)
      PROVE  TypeOK'
  <2>1. now + GrantLife \in Int /\ r \in Nat
    BY <1>1, DashboardAssumption, SMTT(30) DEF StoreOK
  <2>2. NewGrant(r) \in GrantRow
    BY <2>1 DEF NewGrant, GrantRow
  <2>3. grants' \in Seq(GrantRow)
    BY <1>1, <1>2, <2>2 DEF Grant, StoreOK
  <2>4. StoreOK'
    BY <1>1, <1>2, <2>3, RequestTypes DEF Grant, StoreOK
  <2>5. WorkOK'
    BY <1>1, <1>2 DEF Grant, WorkOK
  <2> QED
    BY <2>4, <2>5 DEF TypeOK
<1>3. ASSUME NEW g \in DOMAIN grants, Withdraw(c, g)
      PROVE  TypeOK'
  <2>1. grants' = [grants EXCEPT ![g].status = "REVOKED"] /\ grants \in Seq(GrantRow)
    BY <1>1, <1>3 DEF Withdraw, StoreOK
  <2>2. grants' \in Seq(GrantRow)
    <3>1. grants[g] \in GrantRow
      BY <2>1
    <3>2. [grants[g] EXCEPT !.status = "REVOKED"] \in GrantRow
      BY <3>1 DEF GrantRow
    <3> QED
      BY <2>1, <3>2
  <2>3. StoreOK'
    BY <1>1, <1>3, <2>2, RequestTypes DEF Withdraw, StoreOK
  <2>4. WorkOK'
    BY <1>1, <1>3 DEF Withdraw, WorkOK
  <2> QED
    BY <2>3, <2>4 DEF TypeOK
<1>4. ASSUME RevokeMandate(c)
      PROVE  TypeOK'
  <2>1. /\ mandates' = [mandates EXCEPT ![OldestActive].status = "REVOKED"]
        /\ mandates \in Seq(MandateRow)
    BY <1>1, <1>4 DEF RevokeMandate, StoreOK
  <2>2. mandates' \in Seq(MandateRow)
    <3> DEFINE o == OldestActive
    <3> HIDE DEF o
    <3>1. CASE o \in DOMAIN mandates
      <4>1. mandates[o] \in MandateRow
        BY <2>1, <3>1
      <4>2. [mandates[o] EXCEPT !.status = "REVOKED"] \in MandateRow
        BY <4>1 DEF MandateRow
      <4> QED
        BY <2>1, <3>1, <4>2 DEF o
    <3>2. CASE o \notin DOMAIN mandates
      <4>1. mandates' = mandates
        BY <2>1, <3>2 DEF o
      <4> QED
        BY <2>1, <4>1
    <3> QED
      BY <3>1, <3>2
  <2>3. StoreOK'
    BY <1>1, <1>4, <2>2, RequestTypes DEF RevokeMandate, StoreOK
  <2>4. WorkOK'
    BY <1>1, <1>4 DEF RevokeMandate, WorkOK
  <2> QED
    BY <2>3, <2>4 DEF TypeOK
<1>5. ASSUME SwitchKill(c)
      PROVE  TypeOK'
  <2>1. StoreOK'
    BY <1>1, <1>5, RequestTypes DEF SwitchKill, StoreOK
  <2>2. WorkOK'
    BY <1>1, <1>5 DEF SwitchKill, WorkOK
  <2> QED
    BY <2>1, <2>2 DEF TypeOK
<1> QED
  BY <1>2, <1>3, <1>4, <1>5

\* The autopilot's requests in progress.
LEMMA AutopilotTypes ==
  ASSUME TypeOK, NEW c \in Clients, UNCHANGED impactVars,
         EnsureMandate(c) \/ ReadCurrent(c) \/ WriteSettings(c)
  PROVE  TypeOK'
<1>1. /\ StoreOK /\ WorkOK /\ c \in Procs /\ JobOK(job[c])
      /\ {"validate", "write"} \subseteq Points
  BY TypesOf DEF TypeOK, Procs, Points
<1>2. CASE EnsureMandate(c)
  <2>1. mandates' \in Seq(MandateRow)
    <3>1. now + MandateLife \in Int
      BY <1>1, DashboardAssumption, SMTT(30) DEF StoreOK
    <3>2. [status |-> "ACTIVE", until |-> now + MandateLife] \in MandateRow
      BY <3>1 DEF MandateRow
    <3>3. \/ mandates' = mandates
          \/ mandates' = Append(mandates, [status |-> "ACTIVE", until |-> now + MandateLife])
      BY <1>2 DEF EnsureMandate
    <3>4. mandates \in Seq(MandateRow)
      BY <1>1 DEF StoreOK
    <3> HIDE DEF MandateRow
    <3> QED
      BY <3>2, <3>3, <3>4
  <2>2. StoreOK'
    BY <1>1, <1>2, <2>1 DEF EnsureMandate, StoreOK
  <2>3. "validate" \in Points \ {"write", "check"}
    BY <1>1
  <2>4. WorkOK'
    BY <1>1, <1>2, <2>3, GotoNext DEF EnsureMandate
  <2> QED
    BY <2>2, <2>4 DEF TypeOK
<1>3. CASE ReadCurrent(c)
  <2>1. StoreOK'
    BY <1>1, <1>3, StoreStays DEF ReadCurrent, storeVars
  <2>2. CASE Return(c)
    BY <1>1, <2>1, <2>2, ReturnNext DEF TypeOK
  <2>3. CASE Work(c, "write", [job[c] EXCEPT !.read = settings, !.cycles = Len(claims)])
    <3>1. settings \in SettingsRow /\ Len(claims) \in Nat
      BY <1>1 DEF StoreOK
    <3>2. JobOK([job[c] EXCEPT !.read = settings, !.cycles = Len(claims)])
      BY <1>1, <3>1, JobFields
    <3>3. [job[c] EXCEPT !.read = settings, !.cycles = Len(claims)].read = settings
      BY <1>1 DEF JobOK, JobWith
    <3> QED
      BY <1>1, <2>1, <2>3, <3>1, <3>2, <3>3, WorkNext DEF TypeOK
  <2> QED
    BY <1>3, <2>2, <2>3 DEF ReadCurrent
<1>4. CASE WriteSettings(c)
  <2> DEFINE work == job[c]
             next == NextRun(work.read, work.policy, work.on)
  <2>1. /\ work.read \in SettingsRow /\ work.on \in BOOLEAN /\ work.policy \in Policy
        /\ work.decisions \in Nat /\ asked \in AskedRow /\ now \in Int
    BY <1>1, <1>4, TypesOf DEF WriteSettings, At, WorkOK, StoreOK
  <2>2. next \in Int \cup {Nobody}
    BY <2>1 DEF NextRun, SettingsRow
  <2>3. settings' = [enabled |-> work.on, next |-> next, policy |-> work.policy]
    BY <1>4 DEF WriteSettings
  <2>4. asked' \in AskedRow
    <3> DEFINE mine == work.kind = "configure"
               again == work.on /\ Restarts(work.read, work.policy)
               stale == work.cycles # Len(claims)
    <3>1. asked' =
            [on |-> IF mine THEN work.on ELSE asked.on,
             decisions |-> asked.decisions + (IF mine THEN 1 ELSE 0),
             overlapped |-> ~mine /\ (asked.overlapped \/ work.decisions # asked.decisions),
             restarted |-> asked.restarted \/ again, stale |-> asked.stale \/ stale]
      BY <1>4 DEF WriteSettings
    <3> HIDE DEF mine, again, stale
    <3>2. asked.on \in BOOLEAN /\ asked.decisions \in Nat
      BY <2>1 DEF AskedRow
    <3>3. /\ (IF mine THEN work.on ELSE asked.on) \in BOOLEAN
          /\ asked.decisions + (IF mine THEN 1 ELSE 0) \in Nat
          /\ (asked.restarted \/ again) \in BOOLEAN /\ (asked.stale \/ stale) \in BOOLEAN
          /\ (~mine /\ (asked.overlapped \/ work.decisions # asked.decisions)) \in BOOLEAN
      BY <2>1, <3>2
    <3> HIDE DEF work
    <3> QED
      BY <3>1, <3>3 DEF AskedRow
  <2>5. settings' \in SettingsRow
    <3> HIDE DEF next, work
    <3> QED
      BY <2>1, <2>2, <2>3 DEF SettingsRow
  <2>6. StoreOK'
    BY <1>1, <1>4, <2>4, <2>5 DEF WriteSettings, StoreOK
  <2> QED
    BY <1>1, <1>4, <2>6, ReturnNext DEF WriteSettings, TypeOK
<1> QED
  BY <1>2, <1>3, <1>4

\* Rows that keep a draft with the selected id are saved, and the work goes on.
LEMMA SavedTypes ==
  ASSUME TypeOK, UNCHANGED impactVars, NEW c \in Clients, NEW rows, NEW id \in Nat,
         rows \in Seq(DraftRow), rows # <<>>, \E i \in DOMAIN rows : rows[i].id = id,
         Saved(c, rows, id), DraftUnchanged
  PROVE  TypeOK'
<1>1. StoreOK /\ WorkOK /\ c \in Procs /\ JobOK(job[c]) /\ "sync" \in Points
  BY TypesOf DEF TypeOK, Procs, Points
<1> DEFINE k == CHOOSE i \in DOMAIN rows : rows[i].id = id
<1>2. k \in DOMAIN rows
  OBVIOUS
<1> HIDE DEF k
<1>3. rows[k] \in DraftRow
  BY <1>2
<1>4. rows[k].target \in Int
  BY <1>3, SMTT(30) DEF DraftRow
<1>5. JobOK([job[c] EXCEPT !.target = rows[k].target])
  BY <1>1, <1>4, JobFields
<1>6. StoreOK'
  BY <1>1 DEF StoreOK, Saved, DraftUnchanged
<1>7. Work(c, "sync", [job[c] EXCEPT !.target = rows[k].target])
  BY DEF Saved, k
<1> QED
  BY <1>1, <1>5, <1>6, <1>7, WorkNext DEF TypeOK

\* The rows that remain without a draft.
LEMMA WithoutTypes ==
  ASSUME TypeOK, NEW id, Exists(id)
  PROVE  /\ Without(id) \in Seq(DraftRow) /\ Len(Without(id)) = Len(drafts) - 1
         /\ \A i \in DOMAIN drafts \ {Draft(id)} :
              \E k \in DOMAIN Without(id) : Without(id)[k] = drafts[i]
<1> DEFINE d == Draft(id)
           front == SubSeq(drafts, 1, d - 1)
           back == SubSeq(drafts, d + 1, Len(drafts))
<1>1. drafts \in Seq(DraftRow) /\ d \in 1..Len(drafts) /\ Len(drafts) \in Nat
  <2>1. drafts \in Seq(DraftRow)
    BY DEF TypeOK, StoreOK
  <2> QED
    BY <2>1, DraftsFound
<1> HIDE DEF d
<1>2. /\ front \in Seq(DraftRow) /\ Len(front) = d - 1
      /\ \A i \in 1..(d - 1) : front[i] = drafts[i]
  BY <1>1
<1>3. /\ back \in Seq(DraftRow) /\ Len(back) = Len(drafts) - d
      /\ \A i \in 1..(Len(drafts) - d) : back[i] = drafts[d + i]
  BY <1>1
<1>4. Without(id) = front \o back
  BY DEF Without, d
<1> HIDE DEF front, back
<1>5. Without(id) \in Seq(DraftRow) /\ Len(Without(id)) = Len(drafts) - 1
  BY <1>1, <1>2, <1>3, <1>4, SMTT(30)
<1>6. ASSUME NEW i \in DOMAIN drafts \ {d}
      PROVE  \E k \in DOMAIN Without(id) : Without(id)[k] = drafts[i]
  <2>1. CASE i < d
    <3>1. i \in 1..(d - 1) /\ i \in DOMAIN Without(id)
      BY <1>1, <1>5, <2>1
    <3>2. Without(id)[i] = front[i]
      BY <1>2, <1>3, <1>4, <3>1
    <3> QED
      BY <1>2, <3>1, <3>2
  <2>2. CASE i > d
    <3>1. i \in Int /\ i - d \in 1..(Len(drafts) - d) /\ i - 1 \in DOMAIN Without(id)
      BY <1>1, <1>5, <2>2
    <3>2. Without(id)[i - 1] = back[i - d]
      <4>1. /\ i - 1 > Len(front) /\ (i - 1) - Len(front) = i - d
            /\ i - 1 \in 1..(Len(front) + Len(back))
        BY <1>1, <1>2, <1>3, <2>2, <3>1
      <4> QED
        BY <1>2, <1>3, <1>4, <4>1
    <3>3. back[i - d] = drafts[i]
      BY <1>1, <1>3, <3>1
    <3> QED
      BY <3>1, <3>2, <3>3
  <2> QED
    BY <1>1, <2>1, <2>2
<1> QED
  BY <1>5, <1>6 DEF d

\* Requests about campaign drafts.
LEMMA DraftingTypes ==
  ASSUME TypeOK, NEW c \in Clients, UNCHANGED impactVars,
         \/ CheckDraft(c) \/ SaveDraft(c) \/ CreateDraft(c) \/ SelectDraft(c)
         \/ DeleteDraft(c) \/ SyncTarget(c)
  PROVE  TypeOK'
<1>1. /\ StoreOK /\ WorkOK /\ c \in Procs /\ JobOK(job[c]) /\ drafts \in Seq(DraftRow)
      /\ {"edit", "create", "select", "delete", "sync", "validate"} \subseteq Points
  BY TypesOf DEF TypeOK, StoreOK, Procs, Points
<1>2. /\ job[c].draft \in Nat /\ job[c].seen \in Nat /\ job[c].fresh \in Nat
      /\ job[c].target \in Int
  BY <1>1, TypesOf
<1>3. ASSUME Return(c), UNCHANGED draftVars, DraftUnchanged
      PROVE  TypeOK'
  <2>1. StoreOK'
    BY <1>1, <1>3, StoreStays DEF DraftUnchanged, storeVars
  <2> QED
    BY <1>1, <1>3, <2>1, ReturnNext DEF TypeOK
<1>4. CASE CheckDraft(c)
  <2>1. StoreOK'
    BY <1>1, <1>4, StoreStays DEF CheckDraft, storeVars
  <2>2. CASE Return(c)
    BY <1>1, <2>1, <2>2, ReturnNext DEF TypeOK
  <2>3. ASSUME Exists(job[c].draft),
               Work(c, job[c].kind,
                    IF job[c].kind = "select"
                    THEN [job[c] EXCEPT !.target = drafts[Draft(job[c].draft)].target]
                    ELSE job[c])
        PROVE  TypeOK'
    <3> DEFINE j == IF job[c].kind = "select"
                    THEN [job[c] EXCEPT !.target = drafts[Draft(job[c].draft)].target]
                    ELSE job[c]
    <3>1. drafts[Draft(job[c].draft)].target \in Int
      BY <1>1, <2>3, DraftsFound, SMTT(30) DEF DraftRow
    <3>2. JobOK(j)
      BY <1>1, <3>1, JobFields
    <3>3. job[c].kind \in Points \ {"write", "check"}
      BY <1>1, <1>4 DEF CheckDraft, At, WorkOK, Points
    <3> HIDE DEF j
    <3>4. Work(c, job[c].kind, j)
      BY <2>3 DEF j
    <3>5. WorkOK'
      BY <1>1, <3>2, <3>3, <3>4, WorkNext
    <3> QED
      BY <2>1, <3>5 DEF TypeOK
  <2> QED
    BY <1>4, <2>2, <2>3 DEF CheckDraft
<1>5. CASE SaveDraft(c)
  <2>1. CASE Current(c)
    <3> DEFINE id == job[c].draft
               row == [id |-> id, revision |-> job[c].seen + 1, target |-> job[c].target]
               rows == <<row>> \o Without(id)
    <3>1. Without(id) \in Seq(DraftRow)
      BY <2>1, WithoutTypes DEF Current
    <3>2. row \in DraftRow
      BY <1>2 DEF DraftRow
    <3>3. rows \in Seq(DraftRow) /\ Len(rows) = 1 + Len(Without(id)) /\ rows[1] = row
      <4> HIDE DEF row
      <4> QED
        BY <3>1, <3>2
    <3>4. rows # <<>> /\ 1 \in DOMAIN rows /\ rows[1].id = id
      BY <3>1, <3>3
    <3>5. Saved(c, rows, id) /\ DraftUnchanged
      BY <1>5, <2>1 DEF SaveDraft
    <3> HIDE DEF rows, id
    <3>6. id \in Nat
      BY <1>2 DEF id
    <3> QED
      BY <3>3, <3>4, <3>5, <3>6, SavedTypes
  <2>2. CASE ~Current(c)
    BY <1>3, <1>5, <2>2 DEF SaveDraft
  <2> QED
    BY <2>1, <2>2
<1>6. CASE CreateDraft(c)
  <2> DEFINE id == job[c].fresh
             row == [id |-> id, revision |-> 0, target |-> Gate.target]
             rows == <<row>> \o drafts
  <2>1. row \in DraftRow
    BY <1>2, GateTypes DEF DraftRow, GateNames
  <2>2. rows \in Seq(DraftRow) /\ Len(rows) = 1 + Len(drafts) /\ rows[1] = row
    <3> HIDE DEF row
    <3> QED
      BY <1>1, <2>1
  <2>3. rows # <<>> /\ 1 \in DOMAIN rows /\ rows[1].id = id
    BY <1>1, <2>2
  <2>4. Saved(c, rows, id) /\ DraftUnchanged
    BY <1>6 DEF CreateDraft
  <2> HIDE DEF rows, id
  <2>5. id \in Nat
    BY <1>2 DEF id
  <2> QED
    BY <2>2, <2>3, <2>4, <2>5, SavedTypes
<1>7. CASE SelectDraft(c)
  <2>1. StoreOK'
    BY <1>1, <1>2, <1>7 DEF SelectDraft, DraftUnchanged, StoreOK
  <2>2. "sync" \in Points \ {"write", "check"}
    BY <1>1
  <2>3. WorkOK'
    BY <1>1, <1>7, <2>2, GotoNext DEF SelectDraft
  <2> QED
    BY <2>1, <2>3 DEF TypeOK
<1>8. CASE DeleteDraft(c)
  <2>1. CASE Current(c) /\ Len(drafts) > 1
    <3> DEFINE gone == job[c].draft
               rest == Without(gone)
               id == IF SelectedId = gone THEN rest[1].id ELSE SelectedId
    <3>1. rest \in Seq(DraftRow) /\ Len(rest) = Len(drafts) - 1
      BY <2>1, WithoutTypes DEF Current
    <3>2. rest # <<>> /\ 1 \in DOMAIN rest
      BY <1>1, <2>1, <3>1
    <3>3. \E i \in DOMAIN rest : rest[i].id = id
      <4>1. CASE SelectedId = gone
        BY <3>2, <4>1
      <4>2. CASE SelectedId # gone
        <5>1. PICK i \in DOMAIN drafts : drafts[i].id = SelectedId
          <6>1. drafts # <<>> /\ 1 \in DOMAIN drafts
            BY <1>1, <2>1
          <6> QED
            BY <6>1 DEF SelectedId, Exists
        <5>2. drafts[Draft(gone)].id = gone
          BY <2>1, DraftsFound DEF Current
        <5>3. \E k \in DOMAIN rest : rest[k] = drafts[i]
          BY <2>1, <4>2, <5>1, <5>2, WithoutTypes DEF Current
        <5> QED
          BY <4>2, <5>1, <5>3
      <4> QED
        BY <4>1, <4>2
    <3>4. id \in Nat
      <4>1. rest[1] \in DraftRow
        BY <3>1, <3>2
      <4> QED
        BY <4>1, DraftsFound DEF DraftRow
    <3>5. Saved(c, rest, id) /\ DraftUnchanged
      BY <1>8, <2>1 DEF DeleteDraft
    <3> HIDE DEF rest, id
    <3> QED
      BY <3>1, <3>2, <3>3, <3>4, <3>5, SavedTypes
  <2>2. CASE ~(Current(c) /\ Len(drafts) > 1)
    BY <1>3, <1>8, <2>2 DEF DeleteDraft
  <2> QED
    BY <2>1, <2>2
<1>9. CASE SyncTarget(c)
  <2>1. StoreOK'
    BY <1>1, <1>9, StoreStays DEF SyncTarget, storeVars
  <2> DEFINE policy == [settings.policy EXCEPT !.target = job[c].target]
  <2>2. policy \in Policy /\ settings.enabled \in BOOLEAN /\ asked.decisions \in Nat
    <3>1. settings.policy \in Policy /\ settings.enabled \in BOOLEAN /\ asked.decisions \in Nat
      BY <1>1, SMTT(30) DEF StoreOK, SettingsRow, AskedRow
    <3> QED
      BY <1>2, <3>1 DEF Policy
  <2> HIDE DEF policy
  <2>3. JobOK([job[c] EXCEPT !.policy = policy, !.on = settings.enabled,
                             !.decisions = asked.decisions])
    BY <1>1, <2>2, JobFields
  <2>4. Work(c, "validate", [job[c] EXCEPT !.policy = policy, !.on = settings.enabled,
                                           !.decisions = asked.decisions])
    BY <1>9 DEF SyncTarget, policy
  <2> QED
    BY <1>1, <2>1, <2>3, <2>4, WorkNext DEF TypeOK
<1> QED
  BY <1>4, <1>5, <1>6, <1>7, <1>8, <1>9

\* The execution of an approved proposal: what it may answer.
LEMMA ExecuteTypes ==
  ASSUME TypeOK, NEW c \in Clients, UNCHANGED impactVars, ExecuteApproved(c)
  PROVE  TypeOK'
<1>1. /\ StoreOK /\ WorkOK /\ c \in Procs /\ JobOK(job[c]) /\ "report" \in Points
      /\ {"APPLIED", "BLOCKED", "ALREADY_PROCESSED"} \subseteq Execs
      /\ job[c].run \in Nat /\ job[c].op \in Operations /\ job[c].step \in Int
      /\ job[c].at \in Int
  BY TypesOf DEF TypeOK, Procs, Points, Execs
<1> DEFINE r == job[c].run
           g == BoundGrant(r)
<1>2. CASE Return(c) /\ UNCHANGED <<executionVars, grants>>
  <2>1. StoreOK'
    BY <1>1, <1>2, StoreStays DEF ExecuteApproved, storeVars
  <2> QED
    BY <1>1, <1>2, <2>1, ReturnNext DEF TypeOK
<1>3. ASSUME NEW exec \in {"BLOCKED", "ALREADY_PROCESSED"},
             Work(c, "report", [job[c] EXCEPT !.exec = exec]),
             UNCHANGED <<executionVars, grants>>
      PROVE  TypeOK'
  <2>1. StoreOK'
    BY <1>1, <1>3, StoreStays, SMTT(30) DEF ExecuteApproved, storeVars
  <2>2. JobOK([job[c] EXCEPT !.exec = exec])
    BY <1>1, JobFields
  <2> QED
    BY <1>1, <1>3, <2>1, <2>2, WorkNext DEF TypeOK
<1>4. ASSUME GrantsFor(r) # {},
             grants' = [grants EXCEPT ![g].status = "USED"],
             quiet' = job[c].at + Quiet,
             applied' = Append(applied, Prepared(r, g, job[c].op, job[c].step)),
             Work(c, "report", [job[c] EXCEPT !.exec = "APPLIED"])
      PROVE  TypeOK'
  <2>1. g \in DOMAIN grants /\ g \in Nat /\ grants[g] \in GrantRow
    <3>1. grants \in Seq(GrantRow) /\ g \in GrantsFor(r)
      BY <1>1, <1>4, NewestOf DEF StoreOK
    <3> QED
      BY <3>1 DEF GrantsFor
  <2> HIDE DEF g, r
  <2>2. [grants[g] EXCEPT !.status = "USED"] \in GrantRow
    BY <2>1 DEF GrantRow
  <2>3. grants' \in Seq(GrantRow)
    BY <1>1, <1>4, <2>1, <2>2, SMTT(30) DEF StoreOK
  <2>4. Prepared(r, g, job[c].op, job[c].step) \in ChangeRow
    BY <1>1, <2>1 DEF Prepared, ChangeRow, r
  <2>5. quiet' \in Int
    BY <1>1, <1>4, DashboardAssumption
  <2>6. applied' \in Seq(ChangeRow)
    BY <1>1, <1>4, <2>4 DEF StoreOK
  <2>7. StoreOK'
    BY <1>1, <2>3, <2>5, <2>6 DEF ExecuteApproved, StoreOK
  <2>8. JobOK([job[c] EXCEPT !.exec = "APPLIED"])
    BY <1>1, JobFields
  <2> QED
    BY <1>1, <1>4, <2>7, <2>8, WorkNext DEF TypeOK
<1> HIDE DEF r, g
<1> QED
  BY <1>2, <1>3, <1>4 DEF ExecuteApproved, r, g

\* Requests about the evaluation of a change, and the counter.
LEMMA EvaluatingTypes == ASSUME TypeOK, NEW c \in Clients, Evaluating(c) PROVE TypeOK'
<1>1. /\ StoreOK /\ WorkOK /\ c \in Procs /\ JobOK(job[c]) /\ JobOK(NoJob)
      /\ {"evaluate", "impact report", "write report", "impact workflow", "write workflow"}
           \subseteq Points
      /\ "evaluate" \in Kinds
  BY TypesOf, NoJobOK DEF TypeOK, Procs, Points, Kinds
<1>2. ASSUME NEW r, NEW at, Evaluate(c, r, at)
      PROVE  TypeOK'
  <2>1. StoreOK'
    BY <1>1, <1>2, RequestTypes, ZenonT(60) DEF Evaluate, StoreOK
  <2> DEFINE request == Requested(r, at)
  <2> HIDE DEF request
  <2>2. JobOK([NoJob EXCEPT !.kind = "evaluate", !.request = request])
    BY <1>1, JobFields
  <2>3. Work(c, "evaluate", [NoJob EXCEPT !.kind = "evaluate", !.request = request])
    BY <1>2 DEF Evaluate, request
  <2> QED
    BY <1>1, <2>1, <2>2, <2>3, WorkNext DEF TypeOK
<1>3. CASE Judge(c)
  <2>1. StoreOK'
    BY <1>1, <1>3, StoreStays DEF Judge, EvaluationUnchanged, storeVars
  <2>2. "impact report" \in Points \ {"write", "check"}
    BY <1>1
  <2>3. WorkOK'
    BY <1>1, <1>3, <2>2, GotoNext, ReturnNext DEF Judge
  <2> QED
    BY <2>1, <2>3 DEF TypeOK
<1>4. ASSUME NEW kind \in Documents, Stored(c, kind)
      PROVE  WorkOK'
  <2>1. "impact workflow" \in Points \ {"write", "check"}
    BY <1>1
  <2> QED
    BY <1>1, <1>4, <2>1, GotoNext, ReturnNext DEF Stored
<1>5. ASSUME NEW kind \in Documents, CreateDocument(c, kind)
      PROVE  TypeOK'
  <2>1. documents' = [file \in DOMAIN documents' |-> documents'[file]]
    <3>1. documents = [file \in DOMAIN documents |-> documents[file]]
      BY <1>1 DEF StoreOK
    <3> QED
      BY <1>5, <3>1 DEF CreateDocument
  <2>2. StoreOK'
    BY <1>1, <1>5, <2>1 DEF CreateDocument, EvaluationUnchanged, StoreOK
  <2>3. Writing[kind] \in Points \ {"write", "check"}
    <3>1. kind = "report" \/ kind = "workflow"
      BY DEF Documents
    <3>2. Writing["report"] = "write report" /\ Writing["workflow"] = "write workflow"
      BY DEF Writing
    <3> QED
      BY <1>1, <3>1, <3>2
  <2>4. WorkOK'
    BY <1>1, <1>4, <1>5, <2>3, GotoNext, ReturnNext DEF CreateDocument
  <2> QED
    BY <2>2, <2>4 DEF TypeOK
<1>6. ASSUME NEW kind \in Documents, WriteDocument(c, kind)
      PROVE  TypeOK'
  <2>1. documents' = [file \in DOMAIN documents' |-> documents'[file]]
    <3>1. documents = [file \in DOMAIN documents |-> documents[file]]
      BY <1>1 DEF StoreOK
    <3> QED
      BY <1>6, <3>1 DEF WriteDocument
  <2>2. StoreOK'
    BY <1>1, <1>6, <2>1 DEF WriteDocument, EvaluationUnchanged, StoreOK
  <2>3. WorkOK'
    BY <1>1, <1>4, <1>6, ReturnNext DEF WriteDocument
  <2> QED
    BY <2>2, <2>3 DEF TypeOK
<1> QED
  BY <1>2, <1>3, <1>5, <1>6 DEF Evaluating

LEMMA WorldTypes ==
  ASSUME TypeOK,
         \/ (Crash \/ Tick) /\ UNCHANGED impactVars
         \/ \E day \in DOMAIN late : ConversionArrives(day)
  PROVE  TypeOK'
<1>1. StoreOK /\ WorkOK /\ Scheduler \in Procs /\ "idle" \in Points
  BY DEF TypeOK, Procs, Points
<1>2. CASE Crash /\ UNCHANGED impactVars
  <2>1. lost' \subseteq Nat
    BY <1>1, <1>2, TypesOf DEF Crash, StoreOK
  <2>2. StoreOK'
    BY <1>1, <1>2, <2>1 DEF Crash, StoreOK
  <2>3. WorkOK'
    <3>1. pc' = [p \in Procs |-> "idle"] /\ job' = [p \in Procs |-> NoJob]
      BY <1>2 DEF Crash
    <3> QED
      BY <1>1, <3>1, NoJobOK DEF WorkOK
  <2> QED
    BY <2>2, <2>3 DEF TypeOK
<1>3. CASE Tick /\ UNCHANGED impactVars
  <2>1. StoreOK'
    <3>1. now' \in Int
      BY <1>1, <1>3 DEF Tick, StoreOK
    <3>2. UNCHANGED <<session, settings, asked, claims, mandates, grants, killed, drafts,
                      selected, runs, applied, history, quiet, sent, lost, lock, late,
                      measured, documents>>
      BY <1>3 DEF Tick
    <3> QED
      BY <1>1, <3>1, <3>2 DEF StoreOK
  <2>2. WorkOK'
    BY <1>1, <1>3 DEF Tick, WorkOK
  <2> QED
    BY <2>1, <2>2 DEF TypeOK
<1>4. ASSUME NEW day \in DOMAIN late, ConversionArrives(day)
      PROVE  TypeOK'
  <2>1. late' = [late EXCEPT ![day] = @ - 1] /\ late[day] > 0
        /\ measured' = [measured EXCEPT ![day] = @ + 1] /\ session' = session
    BY <1>4 DEF ConversionArrives
  <2>2. /\ late = [d \in DOMAIN session.traffic |-> late[d]]
        /\ \A d \in DOMAIN session.traffic : late[d] \in Nat
        /\ measured = [d \in DOMAIN session.traffic |-> measured[d]]
    BY <1>1 DEF StoreOK
  <2>3. /\ late' = [d \in DOMAIN session.traffic |-> late'[d]]
        /\ \A d \in DOMAIN session.traffic : late'[d] \in Nat
        /\ measured' = [d \in DOMAIN session.traffic |-> measured'[d]]
    BY <2>1, <2>2
  <2>4. StoreOK'
    <3>1. UNCHANGED <<session, settings, asked, claims, mandates, grants, killed, drafts,
                      selected, runs, applied, history, quiet, now, sent, lost, lock, documents>>
      BY <1>4 DEF ConversionArrives
    <3> QED
      BY <1>1, <2>3, <3>1 DEF StoreOK
  <2>5. WorkOK'
    BY <1>1, <1>4 DEF ConversionArrives, WorkOK
  <2> QED
    BY <2>4, <2>5 DEF TypeOK
<1> QED
  BY <1>2, <1>3, <1>4

LEMMA InitTypes == Init => TypeOK
<1> SUFFICES ASSUME Init PROVE TypeOK
  OBVIOUS
<1>1. WorkOK
  <2>1. "idle" \in Points
    BY DEF Points
  <2> QED
    BY <2>1, NoJobOK DEF Init, WorkOK
<1>2. FirstPolicy \in Policy /\ Gate.target \in Int
  BY NoJobOK, GateTypes DEF GateNames
<1>3. settings \in SettingsRow
  BY <1>2 DEF Init, SettingsRow
<1>4. FirstDraft \in DraftRow /\ FirstDraft.id \in Nat
  BY <1>2 DEF FirstDraft, DraftRow
<1>5. drafts \in Seq(DraftRow) /\ drafts # <<>> /\ selected \in Nat
  BY <1>4 DEF Init
<1>6. asked \in AskedRow
  BY DEF Init, AskedRow
<1>7. /\ late = [day \in DOMAIN session.traffic |-> late[day]]
      /\ \A day \in DOMAIN session.traffic : late[day] \in Nat
      /\ measured = [day \in DOMAIN session.traffic |-> measured[day]]
  <2>1. late \in [DOMAIN session.traffic -> Nat]
    BY DashboardAssumption DEF Init
  <2> QED
    BY <2>1 DEF Init
<1>8. documents = [file \in DOMAIN documents |-> documents[file]]
  BY DEF Init
<1>9. /\ mandates \in Seq(MandateRow) /\ grants \in Seq(GrantRow) /\ runs \in Seq(RunRow)
      /\ applied \in Seq(ChangeRow) /\ history \in Seq(HistoryRow) /\ claims \in Seq(ClaimRow)
  BY DEF Init
<1>10. /\ session \in Sessions /\ killed \in BOOLEAN /\ quiet \in Int /\ now \in Int
       /\ sent \in Nat /\ lost \subseteq Nat /\ lock \in Procs \cup {Nobody}
  <2>1. /\ session \in Sessions /\ killed = FALSE /\ quiet = 0 /\ now = 0 /\ sent = 0
        /\ lost = {} /\ lock = Nobody
    BY DEF Init
  <2>2. killed \in BOOLEAN
    BY <2>1, Zenon
  <2>3. /\ quiet \in Int /\ now \in Int /\ sent \in Nat /\ lost \subseteq Nat
        /\ lock \in Procs \cup {Nobody}
    BY <2>1
  <2> QED
    BY <2>1, <2>2, <2>3
<1>11. StoreOK
  BY <1>3, <1>5, <1>6, <1>7, <1>8, <1>9, <1>10 DEF StoreOK
<1> QED
  BY <1>1, <1>11 DEF TypeOK

\* Every step is one of these.
LEMMA Steps ==
  ASSUME Next
  PROVE  \/ UNCHANGED impactVars /\ (Cycle \/ Crash \/ Tick)
         \/ UNCHANGED impactVars /\ \E p \in Procs : Running(p)
         \/ UNCHANGED impactVars /\ \E c \in Clients : Autopilot(c) \/ Drafting(c) \/ Approving(c)
                                                       \/ RevokeMandate(c) \/ SwitchKill(c)
         \/ \E c \in Clients : Evaluating(c)
         \/ \E day \in DOMAIN late : ConversionArrives(day)
BY DEF Next

LEMMA NextTypes == TypeOK /\ [Next]_vars => TypeOK'
<1> SUFFICES ASSUME TypeOK, [Next]_vars PROVE TypeOK'
  OBVIOUS
<1>1. CASE UNCHANGED vars
  BY <1>1 DEF TypeOK, WorkOK, StoreOK, vars
<1>2. CASE Cycle /\ UNCHANGED impactVars
  BY <1>2, ClaimDueTypes, CycleTypes DEF Cycle
<1>3. CASE (\E p \in Procs : Running(p)) /\ UNCHANGED impactVars
  BY <1>3, BeginRunTypes, DecideTypes, ReportTypes DEF Running
<1>4. ASSUME NEW c \in Clients, UNCHANGED impactVars,
             \/ Autopilot(c) \/ Drafting(c) \/ Approving(c)
             \/ RevokeMandate(c) \/ SwitchKill(c)
      PROVE  TypeOK'
  <2>1. CASE Autopilot(c)
    BY <1>4, <2>1, RequestsTypes, AutopilotTypes DEF Autopilot
  <2>2. CASE Drafting(c)
    BY <1>4, <2>2, RequestsTypes, DraftingTypes DEF Drafting
  <2>3. CASE Approving(c)
    BY <1>4, <2>3, RequestsTypes, AuthorityTypes, ExecuteTypes DEF Approving
  <2>4. CASE RevokeMandate(c) \/ SwitchKill(c)
    BY <1>4, <2>4, AuthorityTypes
  <2> QED
    BY <1>4, <2>1, <2>2, <2>3, <2>4
<1>5. CASE (Crash \/ Tick) /\ UNCHANGED impactVars
  BY <1>5, WorldTypes
<1>6. ASSUME NEW c \in Clients, Evaluating(c)
      PROVE  TypeOK'
  BY <1>6, EvaluatingTypes
<1>7. ASSUME NEW day \in DOMAIN late, ConversionArrives(day)
      PROVE  TypeOK'
  BY <1>7, WorldTypes
<1> QED
  BY <1>1, <1>2, <1>3, <1>4, <1>5, <1>6, <1>7, Steps

\* The dashboard's tables and jobs always hold what they are said to hold: jobs
\* that stop at a fault, writes that lose a race and requests that are refused
\* leave nothing behind that another request could not read.
THEOREM TypeCorrect == Spec => []TypeOK
<1>1. Init => TypeOK
  BY InitTypes
<1>2. TypeOK /\ [Next]_vars => TypeOK'
  BY NextTypes
<1> QED
  BY <1>1, <1>2, PTL DEF Spec

-----------------------------------------------------------------------------
(* What a step does to the work of a process, and who writes what.         *)

LEMMA Moves ==
  ASSUME WorkOK, NEW p \in Procs
  PROVE  /\ \A where, j : Work(p, where, j) =>
              /\ pc'[p] = where /\ job'[p] = j
              /\ \A q \in Procs \ {p} : pc'[q] = pc[q] /\ job'[q] = job[q]
         /\ Return(p) => /\ pc'[p] = "idle" /\ job'[p] = NoJob
                         /\ \A q \in Procs \ {p} : pc'[q] = pc[q] /\ job'[q] = job[q]
         /\ \A where : Goto(p, where) /\ UNCHANGED job =>
              /\ pc'[p] = where /\ job'[p] = job[p]
              /\ \A q \in Procs \ {p} : pc'[q] = pc[q] /\ job'[q] = job[q]
BY DEF WorkOK, Work, Goto, Return

Stays(p) == pc'[p] = pc[p] /\ job'[p] = job[p]
Rests(p) == pc'[p] \in {"idle", "dead"} /\ job'[p] = NoJob

\* How a process comes to the points of a cycle or a run,
Scheduled(p) ==
  /\ p = Scheduler
  /\ \/ /\ ClaimDue /\ pc[p] = "idle" /\ pc'[p] = "claimed"
        /\ job'[p] = [NoJob EXCEPT !.kind = "cycle", !.claim = Len(claims) + 1]
     \/ /\ pc[p] = "claimed" /\ pc'[p] = "mandate"
        /\ job'[p] = [job[p] EXCEPT !.policy = settings.policy]
     \/ /\ pc[p] = "mandate" /\ pc'[p] = "begin"
        /\ job'[p] = [job[p] EXCEPT !.mandate = NewestActive]
     \/ pc[p] \in {"begin", "report", "record"} /\ pc'[p] = "failed" /\ job'[p] = job[p]
Begun(p) ==
  \/ /\ p \in Clients /\ pc[p] = "idle" /\ pc'[p] = "begin"
     /\ \E policy \in session.policies :
          job'[p] = [NoJob EXCEPT !.kind = "run", !.policy = policy]
  \/ /\ pc[p] = "begin" /\ pc'[p] = "decide" /\ ~Refused(p)
     /\ job'[p] = [job[p] EXCEPT !.at = now, !.target = SelectedDraft.target]
Decided(p) ==
  /\ pc[p] = "decide" /\ pc'[p] = "report" /\ Decide(p)
  /\ \E exec \in Execs :
       /\ job'[p] = [job[p] EXCEPT !.exec = exec, !.op = AdviceFor(p).operation,
                                   !.step = AdviceFor(p).step]
       /\ exec = "APPLIED" =>
            /\ job[p].kind = "cycle" /\ Triggers(Facts(job[p].policy), Rules(job[p].policy)) # {}
            /\ SafetyTriggers(Facts(job[p].policy), Rules(job[p].policy)) = {}
Written(p) ==
  /\ pc[p] = "report" /\ pc'[p] = "record"
  /\ job'[p] = [job[p] EXCEPT !.run = Len(runs) + 1]
\* of a proposal,
Proposed(p) ==
  /\ p \in Clients
  /\ \/ /\ pc[p] = "idle" /\ pc'[p] = "execute"
        /\ \E r \in DOMAIN runs : job'[p] = Derived("approval", r)
     \/ /\ pc[p] = "idle" /\ pc'[p] = "report"
        /\ \E r \in DOMAIN runs, step \in RevisedSteps :
             job'[p] = [Derived("revision", r) EXCEPT !.step = step, !.exec = "PENDING_APPROVAL"]
     \/ /\ pc[p] = "execute" /\ pc'[p] = "report" /\ ExecuteApproved(p)
        /\ \E exec \in {"APPLIED", "BLOCKED", "ALREADY_PROCESSED"} :
             job'[p] = [job[p] EXCEPT !.exec = exec]
\* of the settings,
Configured(p) ==
  /\ p \in Clients
  /\ \/ /\ pc[p] = "idle" /\ pc'[p] = "authority"
        /\ \E policy \in session.policies, on \in BOOLEAN :
             job'[p] = [NoJob EXCEPT !.kind = "configure", !.policy = policy, !.on = on]
     \/ pc[p] = "authority" /\ pc'[p] = "validate" /\ job'[p] = job[p]
     \/ /\ pc[p] = "sync" /\ pc'[p] = "validate" /\ UNCHANGED settingsVars
        /\ job'[p] =
             [job[p] EXCEPT !.policy = [settings.policy EXCEPT !.target = job[p].target],
                            !.on = settings.enabled, !.decisions = asked.decisions]
     \/ /\ pc[p] = "validate" /\ pc'[p] = "write" /\ UNCHANGED settingsVars
        /\ ValidPolicy(job[p].policy)
        /\ job'[p] = [job[p] EXCEPT !.read = settings, !.cycles = Len(claims)]
\* of a draft,
Edits == {"edit", "create", "select", "delete"}
DraftJob(kind, draft, seen, fresh, target) ==
  [NoJob EXCEPT !.kind = kind, !.draft = draft, !.seen = seen, !.fresh = fresh,
                !.target = target]
Drafted(p) ==
  /\ p \in Clients
  /\ \/ /\ pc[p] = "idle" /\ pc'[p] = "check"
        /\ \E kind \in Edits : \E draft, seen, fresh, target :
             job'[p] = DraftJob(kind, draft, seen, fresh, target)
     \/ /\ pc[p] \in Edits \cup {"check"} /\ pc'[p] \in Edits \cup {"sync"}
        /\ \E target : job'[p] = [job[p] EXCEPT !.target = target]
\* and of an evaluation.
Evaluated(p) ==
  /\ p \in Clients
  /\ \/ /\ pc[p] = "idle" /\ pc'[p] = "evaluate" /\ UNCHANGED <<now, session, impactVars>>
        /\ \E r \in session.impacts, at \in {now, session.until} :
             job'[p] = [NoJob EXCEPT !.kind = "evaluate", !.request = Requested(r, at)]
     \/ /\ pc[p] = "evaluate" /\ pc'[p] = "impact report" /\ job'[p] = job[p]
        /\ Evaluates(job[p].request)
     \/ /\ pc[p] = "impact report" /\ pc'[p] = "write report" /\ job'[p] = job[p]
        /\ CreateDocument(p, "report")
     \/ /\ pc[p] = "impact report" /\ pc'[p] = "impact workflow" /\ job'[p] = job[p]
        /\ CreateDocument(p, "report")
     \/ /\ pc[p] = "write report" /\ pc'[p] = "impact workflow" /\ job'[p] = job[p]
        /\ WriteDocument(p, "report")
     \/ /\ pc[p] = "impact workflow" /\ pc'[p] = "write workflow" /\ job'[p] = job[p]
        /\ CreateDocument(p, "workflow")

Moved(p) == Scheduled(p) \/ Begun(p) \/ Decided(p) \/ Written(p) \/ Proposed(p)
            \/ Configured(p) \/ Drafted(p) \/ Evaluated(p)
Others(p) == \A q \in Procs \ {p} : Stays(q)

LEMMA CycleMoves ==
  ASSUME TypeOK, Cycle
  PROVE  (Stays(Scheduler) \/ Rests(Scheduler) \/ Moved(Scheduler)) /\ Others(Scheduler)
<1>1. Scheduler \in Procs /\ WorkOK
  BY DEF Procs, TypeOK
<1>2. CASE ClaimDue
  <2>1. Work(Scheduler, "claimed", [NoJob EXCEPT !.kind = "cycle", !.claim = Len(claims) + 1])
        /\ pc[Scheduler] = "idle"
    BY <1>2 DEF ClaimDue, At
  <2> QED
    BY <1>1, <1>2, <2>1, Moves DEF Scheduled, Moved, Others, Stays
<1>3. CASE ReadCycle
  BY <1>1, <1>3, Moves DEF ReadCycle, At, Scheduled, Moved, Others, Stays
<1>4. CASE PickMandate
  BY <1>1, <1>4, Moves DEF PickMandate, At, Scheduled, Moved, Others, Stays
<1>5. CASE RecordFailure
  BY <1>1, <1>5, Moves DEF RecordFailure, Rests, Others, Stays
<1>6. CASE SchedulerDies
  BY <1>1, <1>6, Moves DEF SchedulerDies, Rests, Others, Stays
<1> QED
  BY <1>2, <1>3, <1>4, <1>5, <1>6 DEF Cycle

LEMMA RunningMoves ==
  ASSUME TypeOK, NEW p \in Procs, Running(p)
  PROVE  (Stays(p) \/ Rests(p) \/ Moved(p)) /\ Others(p)
<1>1. WorkOK
  BY DEF TypeOK
<1>2. CASE BeginRun(p)
  BY <1>1, <1>2, Moves DEF BeginRun, Fail, At, Begun, Scheduled, Moved, Rests, Others, Stays
<1>3. CASE Decide(p)
  <2>1. pc[p] = "decide" /\ "APPLIED" \in Execs
    BY <1>3 DEF Decide, At, Execs
  <2>2. CASE \E exec \in Execs \ {"APPLIED"} : Settle(p, exec, AdviceFor(p))
    BY <1>1, <1>3, <2>1, <2>2, Moves DEF Settle, Decided, Moved, Others, Stays
  <2>3. CASE /\ job[p].kind = "cycle"
             /\ Triggers(Facts(job[p].policy), Rules(job[p].policy)) # {}
             /\ SafetyTriggers(Facts(job[p].policy), Rules(job[p].policy)) = {}
             /\ Work(p, "report", [job[p] EXCEPT !.exec = "APPLIED",
                                                 !.op = AdviceFor(p).operation,
                                                 !.step = AdviceFor(p).step])
    <3>1. /\ pc'[p] = "report"
          /\ job'[p] = [job[p] EXCEPT !.exec = "APPLIED", !.op = AdviceFor(p).operation,
                                      !.step = AdviceFor(p).step]
          /\ Others(p)
      BY <1>1, <2>3, Moves DEF Others, Stays
    <3>2. Decided(p)
      BY <1>3, <2>1, <2>3, <3>1 DEF Decided
    <3> QED
      BY <3>1, <3>2 DEF Moved
  <2> QED
    BY <1>3, <2>2, <2>3, DecideNext
<1>4. CASE WriteReport(p)
  BY <1>1, <1>4, Moves DEF WriteReport, At, Written, Moved, Others, Stays
<1>5. CASE RecordReport(p)
  BY <1>1, <1>5, Moves DEF RecordReport, Rests, Others, Stays
<1>6. CASE ReportFails(p)
  BY <1>1, <1>6, Moves DEF ReportFails, Fail, At, Scheduled, Moved, Rests, Others, Stays
<1> QED
  BY <1>2, <1>3, <1>4, <1>5, <1>6 DEF Running

\* A request changes no other request, and either its process moves or nothing does.
LEMMA RequestMoves ==
  ASSUME TypeOK, NEW c \in Clients,
         \/ Autopilot(c) \/ Drafting(c) \/ Approving(c) \/ RevokeMandate(c) \/ SwitchKill(c)
         \/ Evaluating(c)
  PROVE  (Stays(c) \/ Rests(c) \/ Moved(c)) /\ Others(c)
<1>1. WorkOK /\ c \in Procs /\ job = [p \in Procs |-> job[p]]
  BY DEF TypeOK, WorkOK, Procs
<1>2. ASSUME NEW kind, Request(c, kind)
      PROVE  pc[c] = "idle"
  BY <1>2 DEF Request, At
<1>3. CASE UNCHANGED <<pc, job>>
  BY <1>3 DEF Stays, Others
<1>4. CASE Return(c)
  BY <1>1, <1>4, Moves DEF Rests, Others, Stays
<1>5. CASE Autopilot(c)
  <2>1. ASSUME NEW policy \in session.policies, NEW on \in BOOLEAN, Configure(c, policy, on)
        PROVE  Configured(c) /\ Others(c)
    <3> DEFINE j == [NoJob EXCEPT !.kind = "configure", !.policy = policy, !.on = on]
    <3>1. Work(c, "authority", j) /\ pc[c] = "idle"
      BY <1>2, <2>1 DEF Configure
    <3> HIDE DEF j
    <3>2. pc'[c] = "authority" /\ job'[c] = j /\ Others(c)
      BY <1>1, <3>1, Moves DEF Others, Stays
    <3> QED
      BY <1>1, <3>1, <3>2, Zenon DEF Configured, j
  <2>2. CASE EnsureMandate(c)
    BY <1>1, <2>2, Moves DEF EnsureMandate, At, Configured, Moved, Others, Stays
  <2>3. CASE ReadCurrent(c)
    BY <1>1, <1>4, <2>3, Moves DEF ReadCurrent, At, Configured, Moved, Others, Stays
  <2>4. CASE WriteSettings(c)
    BY <1>4, <2>4 DEF WriteSettings
  <2> QED
    BY <1>5, <2>1, <2>2, <2>3, <2>4 DEF Autopilot, Moved
<1>6. CASE Drafting(c)
  <2>1. ASSUME NEW i \in DOMAIN drafts, NEW target \in Targets, NEW kind \in Edits,
               OpenDraft(c, kind, i, target)
        PROVE  Drafted(c) /\ Others(c)
    <3> DEFINE j == [NoJob EXCEPT !.kind = kind, !.draft = drafts[i].id,
                                  !.seen = drafts[i].revision, !.fresh = sent + 2,
                                  !.target = target]
    <3>1. Work(c, "check", j) /\ pc[c] = "idle"
      BY <1>2, <2>1 DEF OpenDraft
    <3> HIDE DEF j
    <3>2. pc'[c] = "check" /\ job'[c] = j /\ Others(c)
      BY <1>1, <3>1, Moves DEF Others, Stays
    <3>3. job'[c] = DraftJob(kind, drafts[i].id, drafts[i].revision, sent + 2, target)
      BY <3>2 DEF j, DraftJob
    <3> HIDE DEF Edits
    <3>4. \E k \in Edits : \E d, n, f, t : job'[c] = DraftJob(k, d, n, f, t)
      BY <2>1, <3>3, Zenon
    <3> QED
      BY <1>1, <3>1, <3>2, <3>4, Zenon DEF Drafted
  <2>2. JobOK(job[c]) /\ job[c].target \in Int /\ job[c] = [job[c] EXCEPT !.target = job[c].target]
    <3>1. JobOK(job[c]) /\ job[c].target \in Int
      BY <1>1, TypesOf
    <3> QED
      BY <3>1 DEF JobOK, JobWith
  <2>3. ASSUME NEW where \in Edits \cup {"sync"}, NEW target, pc[c] \in Edits \cup {"check"},
               Work(c, where, [job[c] EXCEPT !.target = target])
        PROVE  Moved(c) /\ Others(c)
    BY <1>1, <2>3, Moves, ZenonT(60) DEF Drafted, Moved, Others, Stays
  <2>4. CASE CheckDraft(c)
    <3>1. job[c].kind \in Edits /\ pc[c] = "check"
      BY <1>1, <2>4 DEF CheckDraft, At, WorkOK, Edits
    <3>2. ASSUME Work(c, job[c].kind,
                      IF job[c].kind = "select"
                      THEN [job[c] EXCEPT !.target = drafts[Draft(job[c].draft)].target]
                      ELSE job[c])
          PROVE  Moved(c) /\ Others(c)
      <4> DEFINE t == drafts[Draft(job[c].draft)].target
      <4> HIDE DEF t
      <4>1. CASE job[c].kind = "select"
        <5>1. Work(c, job[c].kind, [job[c] EXCEPT !.target = t])
          BY <3>2, <4>1 DEF t
        <5> QED
          BY <2>3, <3>1, <5>1
      <4>2. CASE job[c].kind # "select"
        <5>1. Work(c, job[c].kind, [job[c] EXCEPT !.target = job[c].target])
          BY <2>2, <3>2, <4>2
        <5> QED
          BY <2>3, <3>1, <5>1
      <4> QED
        BY <4>1, <4>2
    <3> QED
      BY <1>4, <2>4, <3>2 DEF CheckDraft
  <2>5. ASSUME pc[c] \in Edits, NEW rows, NEW id, Saved(c, rows, id)
        PROVE  Moved(c) /\ Others(c)
    <3> DEFINE t == rows[CHOOSE i \in DOMAIN rows : rows[i].id = id].target
    <3> HIDE DEF t
    <3>1. Work(c, "sync", [job[c] EXCEPT !.target = t])
      BY <2>5 DEF Saved, t
    <3> QED
      BY <2>3, <2>5, <3>1
  <2>6. CASE SaveDraft(c)
    <3>1. pc[c] \in Edits
      BY <2>6 DEF SaveDraft, At, Edits
    <3> QED
      BY <1>4, <2>5, <2>6, <3>1 DEF SaveDraft
  <2>7. CASE CreateDraft(c)
    <3>1. pc[c] \in Edits
      BY <2>7 DEF CreateDraft, At, Edits
    <3> QED
      BY <2>5, <2>7, <3>1 DEF CreateDraft
  <2>8. CASE DeleteDraft(c)
    <3>1. pc[c] \in Edits
      BY <2>8 DEF DeleteDraft, At, Edits
    <3> QED
      BY <1>4, <2>5, <2>8, <3>1 DEF DeleteDraft
  <2>9. CASE SelectDraft(c)
    <3>1. pc'[c] = "sync" /\ job'[c] = job[c] /\ pc[c] = "select" /\ Others(c)
      BY <1>1, <2>9, Moves DEF SelectDraft, At, Others, Stays
    <3> QED
      BY <2>2, <3>1 DEF Drafted, Moved, Edits
  <2>10. CASE SyncTarget(c)
    BY <1>1, <2>10, Moves DEF SyncTarget, At, Configured, Moved, Others, Stays
  <2> QED
    BY <1>6, <2>1, <2>4, <2>6, <2>7, <2>8, <2>9, <2>10 DEF Drafting, Edits, Moved
<1>7. CASE Approving(c)
  <2>1. ASSUME NEW policy \in session.policies, RunTest(c, policy)
        PROVE  Begun(c) /\ Others(c)
    <3> DEFINE j == [NoJob EXCEPT !.kind = "run", !.policy = policy]
    <3>1. Work(c, "begin", j) /\ pc[c] = "idle"
      BY <1>2, <2>1 DEF RunTest
    <3> HIDE DEF j
    <3>2. pc'[c] = "begin" /\ job'[c] = j /\ Others(c)
      BY <1>1, <3>1, Moves DEF Others, Stays
    <3> QED
      BY <1>1, <3>1, <3>2, Zenon DEF Begun, j
  <2>2. ASSUME NEW r \in DOMAIN runs, Grant(c, r)
        PROVE  UNCHANGED <<pc, job>>
    BY <2>2 DEF Grant
  <2>3. ASSUME NEW r \in DOMAIN runs, Approve(c, r)
        PROVE  Proposed(c) /\ Others(c)
    <3> DEFINE j == Derived("approval", r)
    <3>1. Work(c, "execute", j) /\ pc[c] = "idle"
      BY <1>2, <2>3 DEF Approve
    <3> HIDE DEF j
    <3>2. pc'[c] = "execute" /\ job'[c] = j /\ Others(c)
      BY <1>1, <3>1, Moves DEF Others, Stays
    <3> QED
      BY <1>1, <3>1, <3>2, Zenon DEF Proposed, j
  <2>4. ASSUME NEW r \in DOMAIN runs, NEW step \in RevisedSteps, Revise(c, r, step)
        PROVE  Proposed(c) /\ Others(c)
    <3> DEFINE j == [Derived("revision", r) EXCEPT !.step = step, !.exec = "PENDING_APPROVAL"]
    <3>1. Work(c, "report", j) /\ pc[c] = "idle"
      BY <1>2, <2>4 DEF Revise
    <3> HIDE DEF j
    <3>2. pc'[c] = "report" /\ job'[c] = j /\ Others(c)
      BY <1>1, <3>1, Moves DEF Others, Stays
    <3> QED
      BY <1>1, <3>1, <3>2, Zenon DEF Proposed, j
  <2>5. ASSUME NEW g \in DOMAIN grants, Withdraw(c, g)
        PROVE  UNCHANGED <<pc, job>>
    BY <2>5 DEF Withdraw
  <2>6. CASE ExecuteApproved(c)
    <3>1. pc[c] = "execute"
      BY <2>6 DEF ExecuteApproved, At
    <3>2. \/ Return(c)
          \/ \E exec \in {"APPLIED", "BLOCKED", "ALREADY_PROCESSED"} :
               Work(c, "report", [job[c] EXCEPT !.exec = exec])
      BY <2>6 DEF ExecuteApproved
    <3> QED
      BY <1>1, <1>4, <2>6, <3>1, <3>2, Moves DEF Proposed, Moved, Others, Stays
  <2> QED
    BY <1>3, <1>7, <2>1, <2>2, <2>3, <2>4, <2>5, <2>6 DEF Approving, Moved
<1>8. CASE RevokeMandate(c) \/ SwitchKill(c)
  BY <1>3, <1>8 DEF RevokeMandate, SwitchKill
<1>9. CASE Evaluating(c)
  <2>1. ASSUME NEW r \in session.impacts, NEW at \in {now, session.until}, Evaluate(c, r, at)
        PROVE  Evaluated(c) /\ Others(c)
    <3> DEFINE request == Requested(r, at)
    <3> HIDE DEF request
    <3>1. /\ Work(c, "evaluate", [NoJob EXCEPT !.kind = "evaluate", !.request = request])
          /\ pc[c] = "idle" /\ UNCHANGED <<now, session, impactVars>>
      BY <1>2, <2>1 DEF Evaluate, Request, request
    <3>2. /\ pc'[c] = "evaluate" /\ Others(c)
          /\ job'[c] = [NoJob EXCEPT !.kind = "evaluate", !.request = request]
      BY <1>1, <3>1, Moves DEF Others, Stays
    <3> QED
      BY <3>1, <3>2 DEF Evaluated, request
  <2>2. CASE Judge(c)
    BY <1>1, <1>4, <2>2, Moves DEF Judge, At, Evaluated, Moved, Others, Stays
  <2>3. ASSUME NEW kind \in Documents, CreateDocument(c, kind)
        PROVE  (Rests(c) \/ Evaluated(c)) /\ Others(c)
    <3>1. CASE kind = "report"
      BY <1>1, <2>3, <3>1, Moves, ZenonT(60)
         DEF CreateDocument, Creating, Writing, At, Stored, Evaluated, Rests, Others, Stays
    <3>2. CASE kind = "workflow"
      BY <1>1, <2>3, <3>2, Moves
         DEF CreateDocument, Creating, Writing, At, Stored, Evaluated, Rests, Others, Stays
    <3> QED
      BY <3>1, <3>2 DEF Documents
  <2>4. ASSUME NEW kind \in Documents, WriteDocument(c, kind)
        PROVE  (Rests(c) \/ Evaluated(c)) /\ Others(c)
    <3>1. CASE kind = "report"
      BY <1>1, <2>4, <3>1, Moves
         DEF WriteDocument, Writing, At, Stored, Evaluated, Rests, Others, Stays
    <3>2. CASE kind = "workflow"
      BY <1>1, <2>4, <3>2, Moves
         DEF WriteDocument, Writing, At, Stored, Evaluated, Rests, Others, Stays
    <3> QED
      BY <3>1, <3>2 DEF Documents
  <2> QED
    BY <1>9, <2>1, <2>2, <2>3, <2>4 DEF Evaluating, Moved
<1> QED
  BY <1>5, <1>6, <1>7, <1>8, <1>9

\* How any step leaves any process.
LEMMA StepMoves ==
  ASSUME TypeOK, [Next]_vars, NEW p \in Procs
  PROVE  Stays(p) \/ Rests(p) \/ Moved(p)
<1>1. CASE UNCHANGED vars
  BY <1>1 DEF vars, Stays
<1>2. Scheduler \in Procs /\ Clients \subseteq Procs
  BY DEF Procs
<1>3. CASE Cycle
  BY <1>2, <1>3, CycleMoves DEF Others
<1>4. CASE Crash
  BY <1>4 DEF Crash, Rests
<1>5. CASE Tick
  BY <1>5 DEF Tick, Stays
<1>6. ASSUME NEW q \in Procs, Running(q)
      PROVE  Stays(p) \/ Rests(p) \/ Moved(p)
  BY <1>6, RunningMoves DEF Others
<1>7. ASSUME NEW c \in Clients,
             \/ Autopilot(c) \/ Drafting(c) \/ Approving(c) \/ RevokeMandate(c) \/ SwitchKill(c)
             \/ Evaluating(c)
      PROVE  Stays(p) \/ Rests(p) \/ Moved(p)
  BY <1>2, <1>7, RequestMoves DEF Others
<1>8. ASSUME NEW day \in DOMAIN late, ConversionArrives(day)
      PROVE  Stays(p) \/ Rests(p) \/ Moved(p)
  BY <1>8 DEF ConversionArrives, Stays
<1> QED
  BY <1>1, <1>3, <1>4, <1>5, <1>6, <1>7, <1>8, Steps

\* The cycle ends by these actions only.
LEMMA SchedulerMoves ==
  ASSUME TypeOK, [Next]_vars
  PROVE  \/ Stays(Scheduler) \/ Moved(Scheduler)
         \/ RecordReport(Scheduler) \/ RecordFailure \/ SchedulerDies \/ Crash
<1>1. CASE UNCHANGED vars
  BY <1>1 DEF vars, Stays
<1>2. Scheduler \in Procs /\ Scheduler \notin Clients /\ Clients \subseteq Procs /\ WorkOK
  BY DashboardAssumption DEF Procs, TypeOK
<1>3. CASE ClaimDue
  <2>1. Work(Scheduler, "claimed", [NoJob EXCEPT !.kind = "cycle", !.claim = Len(claims) + 1])
        /\ pc[Scheduler] = "idle"
    BY <1>3 DEF ClaimDue, At
  <2> QED
    BY <1>2, <1>3, <2>1, Moves DEF Scheduled, Moved
<1>4. CASE ReadCycle
  BY <1>2, <1>4, Moves DEF ReadCycle, At, Scheduled, Moved
<1>5. CASE PickMandate
  BY <1>2, <1>5, Moves DEF PickMandate, At, Scheduled, Moved
<1>6. CASE BeginRun(Scheduler)
  BY <1>2, <1>6, Moves DEF BeginRun, Fail, At, Begun, Scheduled, Moved
<1>7. CASE Decide(Scheduler)
  <2>1. pc'[Scheduler] = "report"
    BY <1>2, <1>7, DecideNext, Moves DEF Settle
  <2> QED
    BY <1>2, <1>7, <2>1, RunningMoves, SMTT(30) DEF Running, Rests
<1>8. CASE ReportFails(Scheduler)
  BY <1>2, <1>8, Moves DEF ReportFails, Fail, At, Scheduled, Moved
<1>9. CASE Tick
  BY <1>9 DEF Tick, Stays
<1>10. ASSUME NEW q \in Procs \ {Scheduler}, Running(q)
       PROVE  Stays(Scheduler)
  BY <1>2, <1>10, RunningMoves DEF Others
<1>11. ASSUME NEW c \in Clients,
              \/ Autopilot(c) \/ Drafting(c) \/ Approving(c) \/ RevokeMandate(c) \/ SwitchKill(c)
              \/ Evaluating(c)
       PROVE  Stays(Scheduler)
  BY <1>2, <1>11, RequestMoves DEF Others
<1>12. ASSUME NEW day \in DOMAIN late, ConversionArrives(day)
       PROVE  Stays(Scheduler)
  BY <1>12 DEF ConversionArrives, Stays
<1>13. CASE Cycle
  BY <1>3, <1>4, <1>5, <1>13 DEF Cycle
<1>14. CASE WriteReport(Scheduler)
  BY <1>2, <1>14, Moves DEF WriteReport, At, Written, Moved
<1>15. CASE Running(Scheduler)
  BY <1>6, <1>7, <1>8, <1>14, <1>15 DEF Running
<1> QED
  BY <1>1, <1>9, <1>10, <1>11, <1>12, <1>13, <1>15, Steps

\* Which actions write what.
LEMMA Writers ==
  ASSUME [Next]_vars
  PROVE  /\ session' = session
         /\ UNCHANGED settingsVars \/ ClaimDue \/ \E c \in Clients : WriteSettings(c)
         /\ UNCHANGED claims \/ ClaimDue
         /\ UNCHANGED lost \/ SchedulerDies \/ Crash
         /\ UNCHANGED runs \/ \E p \in Procs : WriteReport(p)
         /\ UNCHANGED history \/ RecordFailure \/ \E p \in Procs : RecordReport(p)
         /\ \/ UNCHANGED grants
            \/ \E c \in Clients : (\E r \in DOMAIN runs : Grant(c, r)) \/ ExecuteApproved(c)
                                  \/ \E g \in DOMAIN grants : Withdraw(c, g)
         /\ \/ UNCHANGED applied
            \/ \E p \in Procs : Decide(p)
            \/ \E c \in Clients : ExecuteApproved(c)
         /\ UNCHANGED now \/ Tick
         /\ UNCHANGED <<measured, late>> \/ \E day \in DOMAIN late : ConversionArrives(day)
         /\ UNCHANGED documents
            \/ \E c \in Clients, kind \in Documents :
                 CreateDocument(c, kind) \/ WriteDocument(c, kind)
<1>1. CASE UNCHANGED vars
  BY <1>1 DEF vars
<1>2. CASE Cycle /\ UNCHANGED impactVars
  BY <1>2 DEF Cycle, ClaimDue, ReadCycle, PickMandate, RecordFailure, SchedulerDies
<1>3. CASE (Crash \/ Tick) /\ UNCHANGED impactVars
  BY <1>3 DEF Crash, Tick
<1>4. ASSUME NEW p \in Procs, Running(p), UNCHANGED impactVars
      PROVE  /\ UNCHANGED <<settings, asked, session, claims, lost, grants, now, impactVars>>
             /\ UNCHANGED runs \/ WriteReport(p)
             /\ UNCHANGED history \/ RecordReport(p)
             /\ UNCHANGED applied \/ Decide(p)
  BY <1>4, SMTT(30)
     DEF Running, BeginRun, Decide, WriteReport, RecordReport, ReportFails
<1>5. ASSUME NEW c \in Clients, Autopilot(c), UNCHANGED impactVars
      PROVE  /\ UNCHANGED <<session, claims, lost, runs, history, grants, applied, now, impactVars>>
             /\ UNCHANGED settingsVars \/ WriteSettings(c)
  BY <1>5, ZenonT(60) DEF Autopilot, Configure, Request, EnsureMandate, ReadCurrent, WriteSettings
<1>6. ASSUME NEW c \in Clients, Drafting(c), UNCHANGED impactVars
      PROVE  UNCHANGED <<session, settings, asked, claims, lost, runs, history, grants, applied,
                         now, impactVars>>
  BY <1>6, ZenonT(60) DEF Drafting, OpenDraft, Request, CheckDraft, SaveDraft, CreateDraft,
     SelectDraft,
     DeleteDraft, SyncTarget, DraftUnchanged
<1>7. ASSUME NEW c \in Clients, Approving(c), UNCHANGED impactVars
      PROVE  /\ UNCHANGED <<session, settings, asked, claims, lost, runs, history, now, impactVars>>
             /\ UNCHANGED applied \/ ExecuteApproved(c)
             /\ \/ UNCHANGED grants \/ ExecuteApproved(c) \/ \E r \in DOMAIN runs : Grant(c, r)
                \/ \E g \in DOMAIN grants : Withdraw(c, g)
  BY <1>7, ZenonT(60) DEF Approving, RunTest, Request, Grant, Approve, Revise, Withdraw,
     ExecuteApproved
<1>8. ASSUME NEW c \in Clients, RevokeMandate(c) \/ SwitchKill(c), UNCHANGED impactVars
      PROVE  UNCHANGED <<session, settings, asked, claims, lost, runs, history, grants, applied,
                         now, impactVars>>
  BY <1>8 DEF RevokeMandate, SwitchKill, Request
<1>9. ASSUME NEW c \in Clients, Evaluating(c)
      PROVE  /\ UNCHANGED <<session, settings, asked, claims, lost, runs, history, grants, applied,
                            now, measured, late>>
             /\ UNCHANGED documents
                \/ \E kind \in Documents : CreateDocument(c, kind) \/ WriteDocument(c, kind)
  BY <1>9 DEF Evaluating, Evaluate, Request, Judge, CreateDocument, WriteDocument,
     EvaluationUnchanged
<1>10. ASSUME NEW day \in DOMAIN late, ConversionArrives(day)
       PROVE  UNCHANGED <<session, settings, asked, claims, lost, runs, history, grants, applied,
                          now, documents>>
  BY <1>10 DEF ConversionArrives
<1>11. ASSUME Next PROVE
         \/ UNCHANGED impactVars /\ (Cycle \/ Crash \/ Tick)
         \/ UNCHANGED impactVars /\ \E p \in Procs : Running(p)
         \/ UNCHANGED impactVars /\ \E c \in Clients : Autopilot(c) \/ Drafting(c) \/ Approving(c)
                                                       \/ RevokeMandate(c) \/ SwitchKill(c)
         \/ \E c \in Clients : Evaluating(c)
         \/ \E day \in DOMAIN late : ConversionArrives(day)
  BY <1>11, Steps
<1> QED
  BY <1>1, <1>2, <1>3, <1>4, <1>5, <1>6, <1>7, <1>8, <1>9, <1>10, <1>11

-----------------------------------------------------------------------------
(* What a process works on at each point.                                  *)

Evaluations == {"evaluate", "impact report", "write report", "impact workflow", "write workflow"}
Shape(p) ==
  /\ pc[p] \in {"idle", "dead"} => job[p] = NoJob
  /\ pc[p] \in {"claimed", "mandate", "failed"} => job[p].kind = "cycle"
  /\ pc[p] \in {"begin", "decide"} => job[p].kind \in {"cycle", "run"}
  /\ pc[p] \in {"report", "record"} =>
       job[p].kind \in {"cycle", "run", "revision", "approval"}
  /\ pc[p] = "execute" => job[p].kind = "approval"
  /\ pc[p] = "authority" => job[p].kind = "configure"
  /\ pc[p] \in {"validate", "write"} => job[p].kind \in Edits \cup {"configure"}
  /\ pc[p] \in Edits \cup {"check", "sync"} => job[p].kind \in Edits
  /\ pc[p] \in Evaluations => job[p].kind = "evaluate"
  /\ p = Scheduler => job[p].kind \in {"none", "cycle"}
  /\ p # Scheduler => job[p].kind # "cycle"
  /\ job[p].claim # 0 <=> job[p].kind = "cycle"
Shaped == \A p \in Procs : Shape(p)

LEMMA InitShaped == Init => Shaped
BY NoJobOK DEF Init, Shaped, Shape, Edits, Evaluations

\* Derived jobs are of the run they are made from.
LEMMA DerivedFields ==
  ASSUME NEW kind \in {"approval", "revision"}, NEW r, NEW step
  PROVE  LET j == Derived(kind, r)
             k == [j EXCEPT !.step = step, !.exec = "PENDING_APPROVAL"]
         IN /\ j.kind = kind /\ j.run = r /\ j.op = runs[r].op /\ j.step = runs[r].step
            /\ j.claim = 0 /\ j.exec = "none"
            /\ k.kind = kind /\ k.claim = 0 /\ k.exec = "PENDING_APPROVAL"
BY DEF Derived, NoJob

LEMMA NextShaped ==
  ASSUME TypeOK, Shaped, [Next]_vars
  PROVE  Shaped'
<1> SUFFICES ASSUME NEW p \in Procs PROVE Shape(p)'
  BY DEF Shaped
<1>1. Shape(p) /\ JobOK(job[p]) /\ Scheduler \notin Clients
  BY TypesOf, DashboardAssumption DEF Shaped
<1>2. NoJob.kind = "none" /\ NoJob.claim = 0
  BY NoJobOK
<1>3. CASE Stays(p)
  BY <1>1, <1>3 DEF Stays, Shape
<1>4. CASE Rests(p)
  BY <1>2, <1>4 DEF Rests, Shape, Edits, Evaluations
<1>5. CASE Scheduled(p)
  <2>1. Len(claims) + 1 # 0
    BY DEF TypeOK, StoreOK
  <2>2. CASE /\ pc'[p] = "claimed"
             /\ job'[p] = [NoJob EXCEPT !.kind = "cycle", !.claim = Len(claims) + 1]
    <3>1. job'[p].kind = "cycle" /\ job'[p].claim = Len(claims) + 1
      BY <2>2 DEF NoJob
    <3> QED
      BY <1>5, <2>1, <2>2, <3>1 DEF Scheduled, Shape, Edits, Evaluations
  <2>3. CASE /\ pc[p] = "claimed" /\ pc'[p] = "mandate"
             /\ job'[p] = [job[p] EXCEPT !.policy = settings.policy]
    <3>1. job'[p].kind = job[p].kind /\ job'[p].claim = job[p].claim
      BY <1>1, <2>3 DEF JobOK, JobWith
    <3> QED
      BY <1>1, <1>5, <2>3, <3>1 DEF Scheduled, Shape, Edits, Evaluations
  <2>4. CASE /\ pc[p] = "mandate" /\ pc'[p] = "begin"
             /\ job'[p] = [job[p] EXCEPT !.mandate = NewestActive]
    <3>1. job'[p].kind = job[p].kind /\ job'[p].claim = job[p].claim
      BY <1>1, <2>4 DEF JobOK, JobWith
    <3> QED
      BY <1>1, <1>5, <2>4, <3>1 DEF Scheduled, Shape, Edits, Evaluations
  <2>5. CASE pc[p] \in {"begin", "report", "record"} /\ pc'[p] = "failed" /\ job'[p] = job[p]
    <3>1. job[p].kind = "cycle" /\ job[p].claim # 0
      BY <1>1, <1>5, <2>5 DEF Scheduled, Shape
    <3> QED
      BY <1>5, <2>5, <3>1 DEF Scheduled, Shape, Edits, Evaluations
  <2> QED
    BY <1>5, <2>2, <2>3, <2>4, <2>5 DEF Scheduled
<1>6. CASE Begun(p)
  <2>1. ASSUME p \in Clients, pc'[p] = "begin", NEW policy,
               job'[p] = [NoJob EXCEPT !.kind = "run", !.policy = policy]
        PROVE  Shape(p)'
    <3>1. job'[p].kind = "run" /\ job'[p].claim = 0
      BY <2>1 DEF NoJob
    <3> QED
      BY <1>1, <2>1, <3>1 DEF Shape, Edits, Evaluations
  <2>2. CASE /\ pc[p] = "begin" /\ pc'[p] = "decide"
             /\ job'[p] = [job[p] EXCEPT !.at = now, !.target = SelectedDraft.target]
    <3>1. job'[p].kind = job[p].kind /\ job'[p].claim = job[p].claim
      BY <1>1, <2>2 DEF JobOK, JobWith
    <3> QED
      BY <1>1, <2>2, <3>1 DEF Shape, Edits, Evaluations
  <2> QED
    BY <1>6, <2>1, <2>2 DEF Begun
<1>7. CASE Decided(p)
  <2>1. PICK exec \in Execs :
          job'[p] = [job[p] EXCEPT !.exec = exec, !.op = AdviceFor(p).operation,
                                   !.step = AdviceFor(p).step]
    BY <1>7 DEF Decided
  <2>2. job'[p].kind = job[p].kind /\ job'[p].claim = job[p].claim
    BY <1>1, <2>1 DEF JobOK, JobWith
  <2>3. pc[p] = "decide" /\ pc'[p] = "report"
    BY <1>7 DEF Decided
  <2> QED
    BY <1>1, <2>2, <2>3 DEF Shape, Edits, Evaluations
<1>8. CASE Proposed(p)
  <2>1. ASSUME NEW r, pc'[p] = "execute", job'[p] = Derived("approval", r)
        PROVE  Shape(p)'
    <3>1. job'[p].kind = "approval" /\ job'[p].claim = 0
      BY <2>1, DerivedFields
    <3> QED
      BY <1>1, <1>8, <2>1, <3>1 DEF Proposed, Shape, Edits, Evaluations
  <2>2. ASSUME NEW r, NEW step, pc'[p] = "report",
               job'[p] = [Derived("revision", r) EXCEPT !.step = step, !.exec = "PENDING_APPROVAL"]
        PROVE  Shape(p)'
    <3>1. job'[p].kind = "revision" /\ job'[p].claim = 0
      BY <2>2, DerivedFields
    <3> QED
      BY <1>1, <1>8, <2>2, <3>1 DEF Proposed, Shape, Edits, Evaluations
  <2>3. ASSUME NEW exec, pc[p] = "execute", pc'[p] = "report",
               job'[p] = [job[p] EXCEPT !.exec = exec]
        PROVE  Shape(p)'
    <3>1. job'[p].kind = job[p].kind /\ job'[p].claim = job[p].claim
      BY <1>1, <2>3 DEF JobOK, JobWith
    <3> QED
      BY <1>1, <2>3, <3>1 DEF Shape, Edits, Evaluations
  <2> QED
    BY <1>8, <2>1, <2>2, <2>3 DEF Proposed
<1>9. CASE Configured(p)
  <2>1. ASSUME NEW policy, NEW on, pc'[p] = "authority",
               job'[p] = [NoJob EXCEPT !.kind = "configure", !.policy = policy, !.on = on]
        PROVE  Shape(p)'
    <3>1. job'[p].kind = "configure" /\ job'[p].claim = 0
      BY <2>1 DEF NoJob
    <3> QED
      BY <1>1, <1>9, <2>1, <3>1 DEF Configured, Shape, Edits, Evaluations
  <2>2. ASSUME pc[p] \in {"authority", "sync", "validate"}, pc'[p] \in {"validate", "write"},
               job'[p].kind = job[p].kind, job'[p].claim = job[p].claim
        PROVE  Shape(p)'
    BY <1>1, <2>2 DEF Shape, Edits, Evaluations
  <2>3. ASSUME pc[p] = "sync", pc'[p] = "validate",
               job'[p] = [job[p] EXCEPT !.policy = [settings.policy EXCEPT !.target = job[p].target],
                                        !.on = settings.enabled, !.decisions = asked.decisions]
        PROVE  Shape(p)'
    <3>1. job'[p].kind = job[p].kind /\ job'[p].claim = job[p].claim
      BY <1>1, <2>3 DEF JobOK, JobWith
    <3> QED
      BY <2>2, <2>3, <3>1
  <2>4. ASSUME pc[p] = "validate", pc'[p] = "write",
               job'[p] = [job[p] EXCEPT !.read = settings, !.cycles = Len(claims)]
        PROVE  Shape(p)'
    <3>1. job'[p].kind = job[p].kind /\ job'[p].claim = job[p].claim
      BY <1>1, <2>4 DEF JobOK, JobWith
    <3> QED
      BY <2>2, <2>4, <3>1
  <2>5. ASSUME pc[p] = "authority", pc'[p] = "validate", job'[p] = job[p]
        PROVE  Shape(p)'
    BY <2>2, <2>5
  <2> QED
    BY <1>9, <2>1, <2>3, <2>4, <2>5 DEF Configured
<1>10. CASE Drafted(p)
  <2>1. ASSUME NEW kind \in Edits, NEW a, NEW b, NEW d, NEW e, pc'[p] = "check",
               job'[p] = DraftJob(kind, a, b, d, e)
        PROVE  Shape(p)'
    <3>1. job'[p].kind \in Edits /\ job'[p].claim = 0
      BY <2>1 DEF NoJob, DraftJob
    <3> QED
      BY <1>1, <1>10, <2>1, <3>1 DEF Drafted, Shape, Edits, Evaluations
  <2>2. ASSUME NEW target, pc[p] \in Edits \cup {"check"}, pc'[p] \in Edits \cup {"sync"},
               job'[p] = [job[p] EXCEPT !.target = target]
        PROVE  Shape(p)'
    <3>1. job'[p].kind = job[p].kind /\ job'[p].claim = job[p].claim
      BY <1>1, <2>2 DEF JobOK, JobWith
    <3> QED
      BY <1>1, <2>2, <3>1, ZenonT(60) DEF Shape, Edits, Evaluations
  <2> QED
    BY <1>10, <2>1, <2>2 DEF Drafted
<1>11. CASE Evaluated(p)
  <2>1. \A x : /\ [NoJob EXCEPT !.kind = "evaluate", !.request = x].kind = "evaluate"
               /\ [NoJob EXCEPT !.kind = "evaluate", !.request = x].claim = 0
    BY DEF NoJob
  <2>2. pc'[p] \in Evaluations /\ job'[p].kind = "evaluate" /\ job'[p].claim = 0
    BY <1>1, <1>11, <2>1, ZenonT(60) DEF Evaluated, Shape, Evaluations
  <2> QED
    BY <1>1, <1>11, <2>2, ZenonT(60) DEF Evaluated, Shape, Edits, Evaluations
<1>12. CASE Written(p)
  <2>1. job'[p].kind = job[p].kind /\ job'[p].claim = job[p].claim
    BY <1>1, <1>12 DEF Written, JobOK, JobWith
  <2> QED
    BY <1>1, <1>12, <2>1 DEF Written, Shape, Edits, Evaluations
<1> QED
  BY <1>3, <1>4, <1>5, <1>6, <1>7, <1>8, <1>9, <1>10, <1>11, <1>12, StepMoves DEF Moved

-----------------------------------------------------------------------------
(* Every cycle is accounted for.                                           *)

Busy == job[Scheduler].claim
RowsOf(claim) == {i \in DOMAIN history : history[i].claim = claim}
Accounted(claim) ==
  IF claim \in lost \/ Busy = claim THEN RowsOf(claim) = {} ELSE \E i : RowsOf(claim) = {i}
ClaimInv ==
  /\ Busy \in 0..Len(claims) /\ Busy \notin lost
  /\ lost \subseteq 1..Len(claims)
  /\ \A i \in DOMAIN history : history[i].claim \in 0..Len(claims)
  /\ \A claim \in DOMAIN claims : Accounted(claim)

\* A row appended for one cycle is a row of no other.
LEMMA RowAppended ==
  ASSUME TypeOK, NEW row, history' = Append(history, row)
  PROVE  /\ \A claim : RowsOf(claim)' = IF row.claim = claim
                                        THEN RowsOf(claim) \cup {Len(history) + 1}
                                        ELSE RowsOf(claim)
         /\ \A i \in DOMAIN history' :
              \/ history'[i].claim = row.claim
              \/ i \in DOMAIN history /\ history'[i] = history[i]
<1>1. history \in Seq(HistoryRow)
  BY DEF TypeOK, StoreOK
<1>2. /\ DOMAIN history = 1..Len(history) /\ DOMAIN history' = 1..(Len(history) + 1)
      /\ Len(history) \in Nat
      /\ \A i \in 1..Len(history) : history'[i] = history[i]
      /\ history'[Len(history) + 1] = row
  BY <1>1
<1>3. ASSUME NEW claim
      PROVE  RowsOf(claim)' = IF row.claim = claim THEN RowsOf(claim) \cup {Len(history) + 1}
                              ELSE RowsOf(claim)
  BY <1>2 DEF RowsOf
<1>4. ASSUME NEW i \in DOMAIN history'
      PROVE  \/ history'[i].claim = row.claim
             \/ i \in DOMAIN history /\ history'[i] = history[i]
  BY <1>2
<1> QED
  BY <1>3, <1>4

LEMMA InitClaims == Init => ClaimInv
<1> SUFFICES ASSUME Init PROVE ClaimInv
  OBVIOUS
<1>1. job[Scheduler] = NoJob /\ NoJob.claim = 0 /\ claims = <<>> /\ history = <<>> /\ lost = {}
  BY NoJobOK DEF Init, Procs
<1> QED
  BY <1>1 DEF ClaimInv, Busy

LEMMA NextClaims ==
  ASSUME TypeOK, Shaped, ClaimInv, [Next]_vars
  PROVE  ClaimInv'
<1>1. /\ Scheduler \in Procs /\ Scheduler \notin Clients /\ NoJob.claim = 0
      /\ claims \in Seq(ClaimRow) /\ Len(claims) \in Nat /\ DOMAIN claims = 1..Len(claims)
      /\ Shape(Scheduler) /\ JobOK(job[Scheduler]) /\ Busy \in Nat
  <2>1. Scheduler \in Procs /\ Scheduler \notin Clients
    BY DashboardAssumption DEF Procs
  <2>2. claims \in Seq(ClaimRow)
    BY DEF TypeOK, StoreOK
  <2>3. JobOK(job[Scheduler]) /\ Busy \in Nat
    BY <2>1, TypesOf DEF Busy
  <2> QED
    BY <2>1, <2>2, <2>3, NoJobOK DEF Shaped
<1>2. CASE ClaimDue
  <2> DEFINE n == Len(claims) + 1
  <2>1. Busy = 0
    BY <1>1, <1>2 DEF ClaimDue, At, Shape, Busy
  <2>2. /\ claims' \in Seq(ClaimRow) /\ Len(claims') = n /\ DOMAIN claims' = 1..n /\ n \in Nat
    <3>1. TypeOK'
      BY NextTypes
    <3>2. claims' \in Seq(ClaimRow)
      BY <3>1 DEF TypeOK, StoreOK
    <3> QED
      BY <1>1, <1>2, <3>2 DEF ClaimDue
  <2>3. Busy' = n
    <3>1. job'[Scheduler] = [NoJob EXCEPT !.kind = "cycle", !.claim = n]
      BY <1>1, <1>2, Moves DEF ClaimDue, TypeOK
    <3> QED
      BY <3>1 DEF Busy, NoJob
  <2>4. history' = history /\ lost' = lost
    BY <1>2 DEF ClaimDue
  <2>5. \A claim : RowsOf(claim)' = RowsOf(claim)
    BY <2>4 DEF RowsOf
  <2>6. RowsOf(n) = {} /\ n \notin lost /\ lost \subseteq 1..n
    BY <1>1 DEF ClaimInv, RowsOf
  <2>7. \A i \in DOMAIN history : history[i].claim \in 0..n
    BY <1>1 DEF ClaimInv
  <2>8. ASSUME NEW claim \in 1..n
        PROVE  Accounted(claim)'
    <3>1. CASE claim = n
      BY <2>3, <2>5, <2>6, <3>1 DEF Accounted
    <3>2. CASE claim # n
      <4>1. claim \in DOMAIN claims
        BY <1>1, <3>2
      <4>2. Busy # claim
        BY <1>1, <2>1, <4>1
      <4>3. Accounted(claim)
        BY <4>1 DEF ClaimInv
      <4> QED
        BY <2>3, <2>4, <2>5, <3>2, <4>2, <4>3 DEF Accounted
    <3> QED
      BY <3>1, <3>2
  <2> HIDE DEF n
  <2> QED
    BY <2>2, <2>3, <2>4, <2>5, <2>6, <2>7, <2>8 DEF ClaimInv
<1>3. CASE SchedulerDies \/ Crash
  <2>1. /\ UNCHANGED <<claims, history>>
        /\ lost' = lost \cup ({Busy} \ {0})
        /\ Busy' = 0
    <3>1. CASE SchedulerDies
      <4>1. Busy # 0
        BY <1>1, <3>1 DEF SchedulerDies, At, Shape, Busy
      <4>2. job'[Scheduler] = NoJob
        BY <1>1, <3>1, Moves DEF SchedulerDies, TypeOK
      <4> QED
        BY <1>1, <3>1, <4>1, <4>2 DEF SchedulerDies, Busy
    <3>2. CASE Crash
      BY <1>1, <3>2 DEF Crash, Busy
    <3> QED
      BY <1>3, <3>1, <3>2
  <2>2. \A claim : RowsOf(claim)' = RowsOf(claim)
    BY <2>1 DEF RowsOf
  <2>3. \A claim \in DOMAIN claims : claim # 0 /\ (claim \in lost' <=> claim \in lost \/ Busy = claim)
    BY <1>1, <2>1
  <2>4. lost' \subseteq 1..Len(claims)
    BY <1>1, <2>1 DEF ClaimInv
  <2>5. 0 \notin lost'
    BY <1>1, <2>4
  <2>6. ASSUME NEW claim \in DOMAIN claims
        PROVE  Accounted(claim)'
    <3>1. Accounted(claim)
      BY DEF ClaimInv
    <3> QED
      BY <2>1, <2>2, <2>3, <3>1 DEF Accounted
  <2> QED
    BY <1>1, <2>1, <2>4, <2>5, <2>6 DEF ClaimInv
<1>4. ASSUME UNCHANGED <<claims, lost>>, NEW row, history' = Append(history, row),
             row.claim = Busy, Busy' = 0
      PROVE  ClaimInv'
  <2>1. \A claim : RowsOf(claim)' = IF Busy = claim THEN RowsOf(claim) \cup {Len(history) + 1}
                                    ELSE RowsOf(claim)
    BY <1>4, RowAppended
  <2>2. \A i \in DOMAIN history' : history'[i].claim \in 0..Len(claims)
    BY <1>1, <1>4, RowAppended DEF ClaimInv
  <2>3. ASSUME NEW claim \in DOMAIN claims
        PROVE  Accounted(claim)'
    <3>1. Accounted(claim) /\ claim # 0 /\ Busy \notin lost
      BY <1>1 DEF ClaimInv
    <3> QED
      BY <1>4, <2>1, <3>1 DEF Accounted
  <2>4. 0 \notin DOMAIN claims /\ 0 \notin lost
    BY <1>1 DEF ClaimInv
  <2> QED
    BY <1>1, <1>4, <2>2, <2>3, <2>4 DEF ClaimInv
<1>5. ASSUME UNCHANGED <<claims, lost>>, NEW row, history' = Append(history, row),
             row.claim = 0, Busy' = Busy
      PROVE  ClaimInv'
  <2>1. \A claim \in DOMAIN claims : RowsOf(claim)' = RowsOf(claim)
    BY <1>1, <1>5, RowAppended
  <2>2. \A i \in DOMAIN history' : history'[i].claim \in 0..Len(claims)
    BY <1>1, <1>5, RowAppended DEF ClaimInv
  <2> QED
    BY <1>5, <2>1, <2>2 DEF ClaimInv, Accounted
<1>6. ASSUME NEW p \in Procs, RecordReport(p)
      PROVE  ClaimInv'
  <2> DEFINE row == [claim |-> job[p].claim, run |-> job[p].run, exec |-> job[p].exec]
  <2>1. /\ history' = Append(history, row) /\ UNCHANGED <<claims, lost>>
        /\ row.claim = job[p].claim
    BY <1>6 DEF RecordReport, NextRow
  <2> HIDE DEF row
  <2>2. /\ job'[p] = NoJob /\ \A q \in Procs \ {p} : job'[q] = job[q]
    BY <1>6, Moves DEF RecordReport, TypeOK
  <2>3. CASE p = Scheduler
    BY <1>1, <1>4, <2>1, <2>2, <2>3 DEF Busy
  <2>4. CASE p # Scheduler
    <3>1. job[p].claim = 0
      BY <2>4 DEF Shaped, Shape
    <3> QED
      BY <1>1, <1>5, <2>1, <2>2, <2>4, <3>1 DEF Busy
  <2> QED
    BY <2>3, <2>4
<1>7. CASE RecordFailure
  <2> DEFINE row == [claim |-> Busy, run |-> 0, exec |-> "BLOCKED"]
  <2>1. /\ history' = Append(history, row) /\ UNCHANGED <<claims, lost>> /\ row.claim = Busy
    BY <1>7 DEF RecordFailure, NextRow, Busy
  <2> HIDE DEF row
  <2>2. Busy' = 0
    BY <1>1, <1>7, Moves DEF RecordFailure, TypeOK, Busy
  <2> QED
    BY <1>4, <2>1, <2>2
<1>8. ASSUME UNCHANGED <<claims, lost, history>>, Busy' = Busy
      PROVE  ClaimInv'
  BY <1>8 DEF ClaimInv, Accounted, RowsOf
<1>9. CASE ~(\/ ClaimDue \/ SchedulerDies \/ Crash \/ RecordFailure
             \/ \E p \in Procs : RecordReport(p))
  <2>1. UNCHANGED <<claims, lost, history>>
    BY <1>9, Writers
  <2>2. Busy' = Busy
    <3>1. Stays(Scheduler) \/ Moved(Scheduler)
      BY <1>1, <1>9, SchedulerMoves
    <3>2. CASE Scheduled(Scheduler)
      BY <1>1, <1>9, <3>2 DEF Scheduled, Busy, JobOK, JobWith
    <3>3. CASE Begun(Scheduler)
      BY <1>1, <3>3 DEF Begun, Busy, JobOK, JobWith
    <3>4. CASE Decided(Scheduler)
      <4>1. PICK exec \in Execs :
              job'[Scheduler] = [job[Scheduler] EXCEPT !.exec = exec,
                !.op = AdviceFor(Scheduler).operation, !.step = AdviceFor(Scheduler).step]
        BY <3>4 DEF Decided
      <4> QED
        BY <1>1, <4>1 DEF Busy, JobOK, JobWith
    <3>5. CASE Written(Scheduler)
      BY <1>1, <3>5 DEF Written, Busy, JobOK, JobWith
    <3> QED
      BY <1>1, <3>1, <3>2, <3>3, <3>4, <3>5
         DEF Moved, Stays, Busy, Proposed, Configured, Drafted, Evaluated
  <2> QED
    BY <1>8, <2>1, <2>2
<1> QED
  BY <1>2, <1>3, <1>6, <1>7, <1>9

LEMMA AccountedOnce == TypeOK /\ ClaimInv => ClaimsAccounted
<1> SUFFICES ASSUME TypeOK, ClaimInv, NEW claim \in DOMAIN claims
             PROVE  Cardinality(RowsOf(claim))
                      = IF claim \in lost \/ job[Scheduler].claim = claim THEN 0 ELSE 1
  BY DEF ClaimsAccounted, RowsOf
<1>1. Accounted(claim)
  BY DEF ClaimInv
<1>2. CASE claim \in lost \/ job[Scheduler].claim = claim
  BY <1>1, <1>2, FS_EmptySet DEF Accounted, Busy
<1>3. CASE ~(claim \in lost \/ job[Scheduler].claim = claim)
  <2>1. PICK i : RowsOf(claim) = {i}
    BY <1>1, <1>3 DEF Accounted, Busy
  <2> QED
    BY <1>3, <2>1, FS_Singleton
<1> QED
  BY <1>2, <1>3

\* A cycle that was claimed is worked on, lost with its process, or in the ledger once:
\* for any faults of the disk and the database, any crashes and any requests beside it.
THEOREM EveryCycleAccounted == Spec => []ClaimsAccounted
<1>1. Init => TypeOK /\ Shaped /\ ClaimInv
  BY InitTypes, InitShaped, InitClaims
<1>2. TypeOK /\ Shaped /\ ClaimInv /\ [Next]_vars => (TypeOK /\ Shaped /\ ClaimInv)'
  BY NextTypes, NextShaped, NextClaims
<1>3. TypeOK /\ ClaimInv => ClaimsAccounted
  BY AccountedOnce
<1> QED
  BY <1>1, <1>2, <1>3, PTL DEF Spec

-----------------------------------------------------------------------------
(* Cycles run only when they are wanted.                                   *)

Wanted == asked.on \/ asked.overlapped
\* A synchronisation under way carries the switch as it was when it read it.
Carries(c) ==
  pc[c] \in {"validate", "write"} /\ job[c].kind # "configure" =>
    /\ job[c].decisions <= asked.decisions
    /\ (job[c].on /\ job[c].decisions = asked.decisions) => Wanted
WantedInv ==
  /\ settings.enabled => Wanted
  /\ \A c \in Clients : Carries(c)
  /\ ClaimsAreWanted

\* What a write leaves of the operators' decisions.
LEMMA Asked ==
  ASSUME TypeOK, [Next]_vars, NEW c \in Clients, WriteSettings(c)
  PROVE  /\ asked \in AskedRow /\ asked' \in AskedRow
         /\ job[c].kind = "configure" =>
              /\ asked'.on = job[c].on /\ asked'.decisions = asked.decisions + 1
              /\ ~asked'.overlapped
         /\ job[c].kind # "configure" =>
              /\ asked'.on = asked.on /\ asked'.decisions = asked.decisions
              /\ asked'.overlapped
                   = (asked.overlapped \/ job[c].decisions # asked.decisions)
         /\ asked'.restarted = (asked.restarted
                                   \/ (job[c].on /\ Restarts(job[c].read, job[c].policy)))
         /\ asked'.stale = (asked.stale \/ job[c].cycles # Len(claims))
         /\ settings' = [enabled |-> job[c].on,
                         next |-> NextRun(job[c].read, job[c].policy, job[c].on),
                         policy |-> job[c].policy]
<1>1. asked \in AskedRow /\ asked' \in AskedRow
  BY NextTypes DEF TypeOK, StoreOK
<1>2. asked.decisions \in Nat
  BY <1>1 DEF AskedRow
<1> DEFINE mine == job[c].kind = "configure"
           again == job[c].on /\ Restarts(job[c].read, job[c].policy)
           stale == job[c].cycles # Len(claims)
<1>3. asked' =
        [on |-> IF mine THEN job[c].on ELSE asked.on,
         decisions |-> asked.decisions + (IF mine THEN 1 ELSE 0),
         overlapped |-> ~mine /\ (asked.overlapped \/ job[c].decisions # asked.decisions),
         restarted |-> asked.restarted \/ again, stale |-> asked.stale \/ stale]
  BY DEF WriteSettings
<1>4. settings' = [enabled |-> job[c].on,
                   next |-> NextRun(job[c].read, job[c].policy, job[c].on),
                   policy |-> job[c].policy]
  BY DEF WriteSettings
<1> HIDE DEF again, stale
<1>5. /\ asked'.on = IF mine THEN job[c].on ELSE asked.on
      /\ asked'.decisions = asked.decisions + (IF mine THEN 1 ELSE 0)
      /\ asked'.overlapped = (~mine /\ (asked.overlapped \/ job[c].decisions # asked.decisions))
      /\ asked'.restarted = (asked.restarted \/ again)
      /\ asked'.stale = (asked.stale \/ stale)
  BY <1>3
<1>6. asked.overlapped \in BOOLEAN /\ asked'.overlapped \in BOOLEAN
  BY <1>1 DEF AskedRow
<1>7. CASE mine
  BY <1>1, <1>2, <1>4, <1>5, <1>7 DEF again, stale
<1>8. CASE ~mine
  BY <1>1, <1>2, <1>4, <1>5, <1>8 DEF again, stale
<1> QED
  BY <1>7, <1>8

LEMMA InitWanted == Init => WantedInv
BY DEF Init, WantedInv, Wanted, Carries, ClaimsAreWanted, Procs

LEMMA NextWanted ==
  ASSUME TypeOK, Shaped, WantedInv, [Next]_vars
  PROVE  WantedInv'
<1>1. claims \in Seq(ClaimRow) /\ settings \in SettingsRow /\ asked \in AskedRow
      /\ asked.decisions \in Nat /\ NoJob.kind = "none"
  BY NoJobOK DEF TypeOK, StoreOK, AskedRow
\* a synchronisation that stands still, or begins
<1>2. ASSUME NEW c \in Clients, UNCHANGED settingsVars
      PROVE  Carries(c)'
  <2>1. c \in Procs /\ c # Scheduler /\ Shape(c) /\ Carries(c) /\ JobOK(job[c])
    BY TypesOf, DashboardAssumption DEF Procs, Shaped, WantedInv
  <2>2. Wanted' = Wanted /\ asked' = asked
    BY <1>2 DEF Wanted
  <2>3. CASE pc'[c] \notin {"validate", "write"}
    BY <2>3 DEF Carries
  <2>4. CASE Stays(c)
    BY <2>1, <2>2, <2>4 DEF Stays, Carries
  <2>5. CASE pc[c] = "authority" /\ job'[c] = job[c]
    BY <2>1, <2>5 DEF Shape, Carries
  <2>6. CASE job'[c] = [job[c] EXCEPT !.policy = [settings.policy EXCEPT !.target = job[c].target],
                                      !.on = settings.enabled, !.decisions = asked.decisions]
    <3>1. job'[c].on = settings.enabled /\ job'[c].decisions = asked.decisions
      BY <2>1, <2>6 DEF JobOK, JobWith
    <3> QED
      BY <1>1, <2>2, <3>1 DEF Carries, WantedInv
  <2>7. CASE /\ pc[c] = "validate"
             /\ job'[c] = [job[c] EXCEPT !.read = settings, !.cycles = Len(claims)]
    <3>1. job'[c].on = job[c].on /\ job'[c].decisions = job[c].decisions
          /\ job'[c].kind = job[c].kind
      BY <2>1, <2>7 DEF JobOK, JobWith
    <3> QED
      BY <2>1, <2>2, <2>7, <3>1 DEF Carries
  <2>8. Rests(c) \/ Moved(c) \/ Stays(c)
    BY <2>1, StepMoves
  <2>9. CASE Configured(c)
    BY <2>3, <2>5, <2>6, <2>7, <2>9 DEF Configured
  <2>10. CASE Rests(c) \/ Scheduled(c) \/ Begun(c) \/ Decided(c) \/ Written(c) \/ Proposed(c)
              \/ Drafted(c) \/ Evaluated(c)
    <3>1. pc'[c] \notin {"validate", "write"}
      BY <2>10 DEF Rests, Scheduled, Begun, Decided, Written, Proposed, Drafted, Evaluated, Edits
    <3> QED
      BY <2>3, <3>1, SMTT(30)
  <2> QED
    BY <2>4, <2>8, <2>9, <2>10 DEF Moved
<1>3. CASE UNCHANGED settingsVars /\ UNCHANGED claims
  BY <1>2, <1>3 DEF WantedInv, Wanted, ClaimsAreWanted
<1>4. CASE ClaimDue
  <2>1. /\ Wanted /\ settings'.enabled = settings.enabled
        /\ asked'.on = asked.on /\ asked'.decisions = asked.decisions
        /\ asked'.overlapped = asked.overlapped
    BY <1>1, <1>4 DEF ClaimDue, WantedInv, SettingsRow, AskedRow
  <2>2. ClaimsAreWanted'
    <3> DEFINE row == [at |-> now, every |-> settings.policy.every, asked |-> asked]
    <3>1. claims' = Append(claims, row) /\ (row.asked.on \/ row.asked.overlapped)
      BY <1>4, <2>1 DEF ClaimDue, Wanted
    <3> HIDE DEF row
    <3>2. \A i \in DOMAIN claims' : claims'[i] = row \/ (i \in DOMAIN claims /\ claims'[i] = claims[i])
      BY <1>1, <3>1
    <3> QED
      BY <3>1, <3>2 DEF ClaimsAreWanted, WantedInv
  <2>3. ASSUME NEW c \in Clients
        PROVE  Carries(c)'
    <3>1. c \in Procs /\ c # Scheduler /\ pc'[c] = pc[c] /\ job'[c] = job[c]
      BY <1>4, CycleMoves, DashboardAssumption DEF Cycle, Others, Stays, Procs
    <3> QED
      BY <2>1, <3>1 DEF Carries, Wanted, WantedInv
  <2> QED
    BY <2>1, <2>2, <2>3 DEF WantedInv, Wanted
<1>5. ASSUME NEW w \in Clients, WriteSettings(w)
      PROVE  WantedInv'
  <2>1. w \in Procs /\ pc[w] = "write" /\ claims' = claims /\ Carries(w)
    BY <1>5 DEF WriteSettings, At, Procs, WantedInv
  <2>2. /\ asked \in AskedRow /\ asked' \in AskedRow
        /\ job[w].kind = "configure" =>
             /\ asked'.on = job[w].on /\ asked'.decisions = asked.decisions + 1
             /\ ~asked'.overlapped
        /\ job[w].kind # "configure" =>
             /\ asked'.on = asked.on /\ asked'.decisions = asked.decisions
             /\ asked'.overlapped
                  = (asked.overlapped \/ job[w].decisions # asked.decisions)
        /\ settings'.enabled = job[w].on
    BY <1>5, Asked
  <2>3. settings'.enabled => Wanted'
    BY <2>1, <2>2 DEF Wanted, Carries
  <2>4. ASSUME NEW c \in Clients
        PROVE  Carries(c)'
    <3>1. CASE c = w
      <4>1. pc'[c] = "idle"
        BY <1>5, <2>1, <3>1, Moves DEF WriteSettings, TypeOK
      <4> QED
        BY <4>1 DEF Carries
    <3>2. CASE c # w
      <4>1. pc'[c] = pc[c] /\ job'[c] = job[c] /\ Carries(c) /\ job[c].decisions \in Nat
        BY <1>5, <2>1, <3>2, Moves, TypesOf DEF WriteSettings, TypeOK, Procs, WantedInv
      <4>2. CASE job[w].kind = "configure"
        <5>1. asked'.decisions = asked.decisions + 1
          BY <2>2, <4>2
        <5> QED
          BY <1>1, <4>1, <5>1 DEF Carries
      <4>3. CASE job[w].kind # "configure"
        <5>1. asked'.decisions = asked.decisions /\ (Wanted => Wanted')
          BY <2>2, <4>3 DEF Wanted
        <5> QED
          BY <4>1, <5>1 DEF Carries
      <4> QED
        BY <4>2, <4>3
    <3> QED
      BY <3>1, <3>2
  <2> QED
    BY <2>1, <2>3, <2>4 DEF WantedInv, ClaimsAreWanted
<1> QED
  BY <1>3, <1>4, <1>5, Writers

\* The autopilot claims a cycle only while the operators' last decision was to run it, or
\* after a synchronisation that had read the switch before that decision: for any number
\* of operators, any policies and any interleaving of their writes with the cycles.
THEOREM CyclesAreWanted == Spec => []ClaimsAreWanted
<1>1. Init => TypeOK /\ Shaped /\ WantedInv
  BY InitTypes, InitShaped, InitWanted
<1>2. TypeOK /\ Shaped /\ WantedInv /\ [Next]_vars => (TypeOK /\ Shaped /\ WantedInv)'
  BY NextTypes, NextShaped, NextWanted
<1>3. WantedInv => ClaimsAreWanted
  BY DEF WantedInv
<1> QED
  BY <1>1, <1>2, <1>3, PTL DEF Spec

-----------------------------------------------------------------------------
(* Cycles keep their distance.                                             *)

Last == claims[Len(claims)]
\* A due time keeps the distance from the last cycle, or a save since then did not: one
\* that started the schedule over, or one that had read it before that cycle.
Apart(next) ==
  \/ asked.restarted \/ asked.stale
  \/ next # Nobody /\ next >= Last.at + Last.every
\* What the settings say, and what a save that read them since the last cycle carries.
Holds(c) ==
  pc[c] = "write" =>
    /\ job[c].cycles <= Len(claims)
    /\ (claims # <<>> /\ job[c].cycles = Len(claims) /\ job[c].read.enabled)
         => Apart(job[c].read.next)
SpacedInv ==
  /\ (claims # <<>> /\ settings.enabled) => Apart(settings.next)
  /\ \A c \in Clients : Holds(c)
  /\ ClaimsSpaced

LEMMA InitSpaced == Init => SpacedInv
BY DEF Init, SpacedInv, Holds, ClaimsSpaced, Procs

\* A save comes to its write with what it read last, and other steps leave it there.
LEMMA HoldsStays ==
  ASSUME TypeOK, SpacedInv, [Next]_vars, UNCHANGED settingsVars, UNCHANGED claims,
         NEW c \in Clients
  PROVE  Holds(c)'
<1>1. c \in Procs /\ Holds(c) /\ JobOK(job[c]) /\ Len(claims) \in Nat
  <2>1. c \in Procs /\ Holds(c)
    BY DEF Procs, SpacedInv
  <2>2. Len(claims) \in Nat
    BY DEF TypeOK, StoreOK
  <2> QED
    BY <2>1, <2>2, TypesOf
<1>2. \A x : Apart(x)' <=> Apart(x)
  BY DEF Apart, Last
<1>3. CASE Stays(c)
  BY <1>1, <1>2, <1>3 DEF Stays, Holds
<1>4. CASE pc'[c] # "write"
  BY <1>4 DEF Holds
<1>5. CASE job'[c] = [job[c] EXCEPT !.read = settings, !.cycles = Len(claims)]
  <2>1. job'[c].read = settings /\ job'[c].cycles = Len(claims)
    BY <1>1, <1>5 DEF JobOK, JobWith
  <2>2. (claims # <<>> /\ settings.enabled) => Apart(settings.next)
    BY DEF SpacedInv
  <2> QED
    BY <1>1, <1>2, <2>1, <2>2 DEF Holds
<1>6. CASE Configured(c)
  BY <1>4, <1>5, <1>6 DEF Configured
<1>7. CASE Rests(c) \/ Scheduled(c) \/ Begun(c) \/ Decided(c) \/ Written(c) \/ Proposed(c)
           \/ Drafted(c) \/ Evaluated(c)
  <2>1. pc'[c] # "write"
    BY <1>7 DEF Rests, Scheduled, Begun, Decided, Written, Proposed, Drafted, Evaluated, Edits
  <2> QED
    BY <1>4, <2>1, SMTT(30)
<1> QED
  BY <1>1, <1>3, <1>6, <1>7, StepMoves DEF Moved

LEMMA NextSpaced ==
  ASSUME TypeOK, SpacedInv, [Next]_vars
  PROVE  SpacedInv'
<1>1. /\ claims \in Seq(ClaimRow) /\ Len(claims) \in Nat /\ DOMAIN claims = 1..Len(claims)
      /\ settings \in SettingsRow /\ settings.next \in Int \cup {Nobody} /\ now \in Int
      /\ settings.policy.every \in Int /\ asked \in AskedRow /\ Nobody \notin Int
  <2>1. claims \in Seq(ClaimRow) /\ settings \in SettingsRow /\ now \in Int /\ asked \in AskedRow
    BY DEF TypeOK, StoreOK
  <2>2. settings.next \in Int \cup {Nobody} /\ settings.policy \in Policy
    BY <2>1 DEF SettingsRow
  <2>3. settings.policy.every \in Int
    BY <2>2 DEF Policy
  <2>4. Nobody \notin Int
    BY DashboardAssumption
  <2> QED
    BY <2>1, <2>2, <2>3, <2>4
<1>2. CASE UNCHANGED settingsVars /\ UNCHANGED claims
  BY <1>2, HoldsStays DEF SpacedInv, ClaimsSpaced, Apart, Last
<1>3. CASE ClaimDue
  <2> DEFINE row == [at |-> now, every |-> settings.policy.every, asked |-> asked]
             n == Len(claims) + 1
  <2>1. /\ settings.enabled /\ (settings.next = Nobody \/ settings.next <= now)
        /\ settings'.next = now + settings.policy.every
        /\ claims' = Append(claims, row)
        /\ row.at = now /\ row.every = settings.policy.every /\ row.asked = asked
    BY <1>1, <1>3 DEF ClaimDue, SettingsRow
  <2> HIDE DEF row
  <2>2. /\ Len(claims') = n /\ DOMAIN claims' = 1..n /\ claims'[n] = row /\ n \in Nat
        /\ \A i \in 1..Len(claims) : claims'[i] = claims[i]
    BY <1>1, <2>1
  <2> HIDE DEF n
  <2>3. Apart(settings.next)'
    BY <1>1, <2>1, <2>2 DEF Apart, Last
  <2>4. ASSUME NEW c \in Clients
        PROVE  Holds(c)'
    <3>1. c \in Procs /\ c # Scheduler /\ pc'[c] = pc[c] /\ job'[c] = job[c] /\ Holds(c)
      BY <1>3, CycleMoves, DashboardAssumption DEF Cycle, Others, Stays, Procs, SpacedInv
    <3>2. job[c].cycles \in Nat
      BY <3>1, TypesOf
    <3> QED
      BY <1>1, <2>2, <3>1, <3>2 DEF Holds, n
  <2>5. ASSUME NEW i \in 1..(Len(claims') - 1)
        PROVE  \/ claims'[i + 1].at >= claims'[i].at + claims'[i].every
               \/ claims'[i + 1].asked.restarted \/ claims'[i + 1].asked.stale
    <3>1. CASE i < Len(claims)
      <4>1. i \in 1..(Len(claims) - 1) /\ i \in 1..Len(claims) /\ i + 1 \in 1..Len(claims)
        BY <1>1, <2>2, <3>1
      <4>2. claims'[i] = claims[i] /\ claims'[i + 1] = claims[i + 1]
        BY <2>2, <4>1
      <4> QED
        BY <4>1, <4>2 DEF SpacedInv, ClaimsSpaced
    <3>2. CASE ~(i < Len(claims))
      <4> DEFINE m == Len(claims)
      <4>1. m \in Nat /\ n = m + 1 /\ i \in 1..(n - 1) /\ ~(i < m)
        BY <1>1, <2>2, <3>2 DEF n
      <4> HIDE DEF m
      <4>2. i = m /\ i + 1 = n /\ i \in 1..m
        BY <4>1
      <4>3. claims'[i] = Last /\ claims'[i + 1] = row /\ claims # <<>> /\ Last \in ClaimRow
        BY <1>1, <2>2, <4>2 DEF Last, m
      <4>4. Last.at \in Int /\ Last.every \in Int
        BY <4>3 DEF ClaimRow
      <4>5. Apart(settings.next)
        BY <2>1, <4>3 DEF SpacedInv
      <4> QED
        BY <1>1, <2>1, <4>3, <4>4, <4>5, SMTT(30) DEF Apart
    <3> QED
      BY <3>1, <3>2
  <2> QED
    BY <2>3, <2>4, <2>5 DEF SpacedInv, ClaimsSpaced
<1>4. ASSUME NEW w \in Clients, WriteSettings(w)
      PROVE  SpacedInv'
  <2> DEFINE read == job[w].read
  <2>1. w \in Procs /\ pc[w] = "write" /\ claims' = claims /\ Holds(w)
    BY <1>4 DEF WriteSettings, At, Procs, SpacedInv
  <2>2. /\ asked'.restarted = (asked.restarted \/ (job[w].on /\ Restarts(read, job[w].policy)))
        /\ asked'.stale = (asked.stale \/ job[w].cycles # Len(claims))
        /\ settings'.enabled = job[w].on
        /\ settings'.next = NextRun(read, job[w].policy, job[w].on)
    BY <1>4, Asked
  <2>3. \A x : Apart(x) => Apart(x)'
    BY <2>1, <2>2 DEF Apart, Last
  <2>4. ASSUME claims # <<>>, settings'.enabled
        PROVE  Apart(settings.next)'
    <3>1. CASE Restarts(read, job[w].policy) \/ job[w].cycles # Len(claims)
      BY <2>2, <2>4, <3>1 DEF Apart
    <3>2. CASE ~Restarts(read, job[w].policy) /\ job[w].cycles = Len(claims)
      <4>1. Apart(read.next)
        BY <2>1, <2>4, <3>2 DEF Restarts, Holds
      <4>2. read.next # Nobody => settings'.next = read.next
        BY <2>2, <2>4, <3>2 DEF NextRun
      <4> QED
        BY <2>1, <2>2, <4>1, <4>2 DEF Apart, Last
    <3> QED
      BY <3>1, <3>2
  <2>5. ASSUME NEW c \in Clients
        PROVE  Holds(c)'
    <3>1. CASE c = w
      <4>1. pc'[c] = "idle"
        BY <1>4, <2>1, <3>1, Moves DEF WriteSettings, TypeOK
      <4> QED
        BY <4>1 DEF Holds
    <3>2. CASE c # w
      <4>1. pc'[c] = pc[c] /\ job'[c] = job[c] /\ Holds(c)
        BY <1>4, <2>1, <3>2, Moves DEF WriteSettings, TypeOK, Procs, SpacedInv
      <4> QED
        BY <2>1, <2>3, <4>1 DEF Holds
    <3> QED
      BY <3>1, <3>2
  <2> QED
    BY <2>1, <2>4, <2>5 DEF SpacedInv, ClaimsSpaced
<1> QED
  BY <1>2, <1>3, <1>4, Writers

\* Two cycles are an interval apart unless a save between them turned the autopilot on,
\* changed its policy, or wrote back a due time it had read before the first of them: for
\* any number of operators and any interleaving of their saves with the cycles.
THEOREM CyclesAreSpaced == Spec => []ClaimsSpaced
<1>1. Init => TypeOK /\ SpacedInv
  BY InitTypes, InitSpaced
<1>2. TypeOK /\ SpacedInv /\ [Next]_vars => (TypeOK /\ SpacedInv)'
  BY NextTypes, NextSpaced
<1>3. SpacedInv => ClaimsSpaced
  BY DEF SpacedInv
<1> QED
  BY <1>1, <1>2, <1>3, PTL DEF Spec

-----------------------------------------------------------------------------
(* What was approved is what is applied.                                   *)

\* The approval a client executes is of a proposal that stays as it was reported.
Approves(p) ==
  pc[p] = "execute" =>
    /\ job[p].run \in DOMAIN runs
    /\ job[p].op = runs[job[p].run].op /\ job[p].step = runs[job[p].run].step
\* A change an operator asked for, and the row of the grant it used up.
Backed(i) ==
  applied[i].run # 0 =>
    /\ applied[i].run \in DOMAIN runs /\ applied[i].grant \in DOMAIN grants
    /\ grants[applied[i].grant].run = applied[i].run
    /\ grants[applied[i].grant].status = "USED"
    /\ runs[applied[i].run].op = applied[i].op /\ runs[applied[i].run].step = applied[i].step
    /\ \A j \in DOMAIN applied \ {i} : applied[j].run # applied[i].run
ApprovedInv ==
  /\ \A p \in Procs : Approves(p)
  /\ \A i \in DOMAIN applied : Backed(i)

LEMMA InitApproved == Init => ApprovedInv
BY DEF Init, ApprovedInv, Approves, Backed

\* Reports are only added.
LEMMA RunsKeep ==
  ASSUME TypeOK, [Next]_vars, NEW r \in DOMAIN runs
  PROVE  r \in DOMAIN runs' /\ runs'[r] = runs[r]
<1>1. runs \in Seq(RunRow)
  BY DEF TypeOK, StoreOK
<1>2. CASE UNCHANGED runs
  BY <1>2
<1>3. ASSUME NEW p \in Procs, WriteReport(p)
      PROVE  r \in DOMAIN runs' /\ runs'[r] = runs[r]
  BY <1>1, <1>3 DEF WriteReport
<1> QED
  BY <1>2, <1>3, Writers

\* A grant keeps its proposal, and what is used stays used.
LEMMA GrantsKeep ==
  ASSUME TypeOK, [Next]_vars, NEW g \in DOMAIN grants
  PROVE  /\ g \in DOMAIN grants' /\ grants'[g].run = grants[g].run
         /\ grants[g].status = "USED" => grants'[g].status = "USED"
<1>1. grants \in Seq(GrantRow) /\ grants[g] \in GrantRow
  BY DEF TypeOK, StoreOK
<1>2. CASE UNCHANGED grants
  BY <1>2
<1>3. ASSUME NEW c \in Clients, NEW r, Grant(c, r)
      PROVE  g \in DOMAIN grants' /\ grants'[g] = grants[g]
  BY <1>1, <1>3 DEF Grant
<1>4. ASSUME NEW c \in Clients, NEW h \in DOMAIN grants, Withdraw(c, h)
      PROVE  /\ g \in DOMAIN grants' /\ grants'[g].run = grants[g].run
             /\ grants[g].status = "USED" => grants'[g].status = "USED"
  <2>1. grants[h].status = "GRANTED" /\ grants' = [grants EXCEPT ![h].status = "REVOKED"]
    BY <1>4 DEF Withdraw
  <2>2. CASE g = h
    BY <1>1, <2>1, <2>2 DEF GrantRow
  <2>3. CASE g # h
    BY <1>1, <2>1, <2>3
  <2> QED
    BY <2>2, <2>3
<1>5. ASSUME NEW c \in Clients, ExecuteApproved(c)
      PROVE  /\ g \in DOMAIN grants' /\ grants'[g].run = grants[g].run
             /\ grants[g].status = "USED" => grants'[g].status = "USED"
  <2> DEFINE h == BoundGrant(job[c].run)
  <2>1. UNCHANGED grants \/ grants' = [grants EXCEPT ![h].status = "USED"]
    BY <1>5 DEF ExecuteApproved
  <2> HIDE DEF h
  <2>2. CASE grants' = [grants EXCEPT ![h].status = "USED"]
    <3>1. CASE g = h
      BY <1>1, <2>2, <3>1 DEF GrantRow
    <3>2. CASE g # h
      BY <1>1, <2>2, <3>2
    <3> QED
      BY <3>1, <3>2
  <2> QED
    BY <2>1, <2>2
<1> QED
  BY <1>2, <1>3, <1>4, <1>5, Writers

\* What ExecuteApproved applies.
LEMMA AppliedNext ==
  ASSUME TypeOK, NEW c \in Clients, ExecuteApproved(c), applied' # applied
  PROVE  LET r == job[c].run
             g == BoundGrant(r)
         IN /\ pc[c] = "execute" /\ g \in DOMAIN grants /\ grants[g].run = r
            /\ ~Processed(r) /\ grants'[g].status = "USED"
            /\ applied' = Append(applied, Prepared(r, g, job[c].op, job[c].step))
<1> DEFINE r == job[c].run
           g == BoundGrant(r)
<1>1. /\ pc[c] = "execute" /\ GrantsFor(r) # {} /\ ~Processed(r)
      /\ grants' = [grants EXCEPT ![g].status = "USED"]
      /\ applied' = Append(applied, Prepared(r, g, job[c].op, job[c].step))
  BY DEF ExecuteApproved, At
<1>2. g \in DOMAIN grants /\ grants[g].run = r
  BY <1>1, NewestOf DEF GrantsFor
<1> HIDE DEF g
<1>3. grants \in Seq(GrantRow) /\ grants[g] \in GrantRow
  BY <1>2 DEF TypeOK, StoreOK
<1>4. grants'[g].status = "USED"
  BY <1>1, <1>2, <1>3 DEF GrantRow
<1> QED
  BY <1>1, <1>2, <1>4 DEF g

\* A row that is added keeps the others backed, and alone in being theirs.
LEMMA RowAdded ==
  ASSUME TypeOK, ApprovedInv, [Next]_vars, NEW row \in ChangeRow,
         applied' = Append(applied, row),
         row.run # 0 =>
           /\ row.run \in DOMAIN runs /\ row.grant \in DOMAIN grants
           /\ grants[row.grant].run = row.run /\ grants'[row.grant].status = "USED"
           /\ runs[row.run].op = row.op /\ runs[row.run].step = row.step
           /\ ~Processed(row.run)
  PROVE  \A i \in DOMAIN applied' : Backed(i)'
<1> SUFFICES ASSUME NEW i \in DOMAIN applied' PROVE Backed(i)'
  OBVIOUS
<1>1. applied \in Seq(ChangeRow) /\ Len(applied) \in Nat
  BY DEF TypeOK, StoreOK
<1>2. PICK n : /\ DOMAIN applied' = DOMAIN applied \cup {n} /\ applied'[n] = row
               /\ n \notin DOMAIN applied
               /\ \A j \in DOMAIN applied : applied'[j] = applied[j]
  <2> DEFINE m == Len(applied) + 1
  <2>1. /\ DOMAIN applied' = DOMAIN applied \cup {m} /\ applied'[m] = row
        /\ m \notin DOMAIN applied /\ \A j \in DOMAIN applied : applied'[j] = applied[j]
    BY <1>1
  <2> QED
    BY <2>1
<1>3. \A r \in DOMAIN runs : r \in DOMAIN runs' /\ runs'[r] = runs[r]
  BY RunsKeep
<1>4. \A g \in DOMAIN grants : /\ g \in DOMAIN grants' /\ grants'[g].run = grants[g].run
                               /\ grants[g].status = "USED" => grants'[g].status = "USED"
  BY GrantsKeep
<1>5. CASE i \in DOMAIN applied
  <2>1. Backed(i) /\ applied'[i] = applied[i]
    BY <1>2, <1>5 DEF ApprovedInv
  <2>2. (applied[i].run = row.run /\ row.run # 0) => Processed(row.run)
    BY <1>5 DEF Processed
  <2>3. applied[i].run # 0 => row.run # applied[i].run
    BY <2>2
  <2>4. applied[i].run # 0 => \A j \in DOMAIN applied' \ {i} : applied'[j].run # applied[i].run
    BY <1>2, <1>5, <2>1, <2>3 DEF Backed
  <2> QED
    BY <1>3, <1>4, <2>1, <2>4 DEF Backed
<1>6. CASE i = n
  <2>1. CASE row.run = 0
    BY <1>2, <1>6, <2>1 DEF Backed
  <2>2. CASE row.run # 0
    <3>1. \A j \in DOMAIN applied : applied[j].run # row.run
      BY <2>2 DEF Processed
    <3>2. \A j \in DOMAIN applied' \ {n} : applied'[j].run # row.run
      BY <1>2, <3>1
    <3>3. /\ row.run \in DOMAIN runs' /\ row.grant \in DOMAIN grants'
          /\ grants'[row.grant].run = row.run /\ grants'[row.grant].status = "USED"
          /\ runs'[row.run].op = row.op /\ runs'[row.run].step = row.step
      BY <1>3, <1>4, <2>2
    <3> QED
      BY <1>2, <1>6, <3>2, <3>3 DEF Backed
  <2> QED
    BY <2>1, <2>2
<1> QED
  BY <1>2, <1>5, <1>6

LEMMA NextApproves ==
  ASSUME TypeOK, Shaped, ApprovedInv, [Next]_vars, NEW p \in Procs
  PROVE  Approves(p)'
<1>1. Approves(p) /\ \A r \in DOMAIN runs : r \in DOMAIN runs' /\ runs'[r] = runs[r]
  BY RunsKeep DEF ApprovedInv
<1>2. CASE Stays(p)
  BY <1>1, <1>2 DEF Stays, Approves
<1>3. ASSUME NEW r \in DOMAIN runs, job'[p] = Derived("approval", r)
      PROVE  Approves(p)'
  <2>1. job'[p].run = r /\ job'[p].op = runs[r].op /\ job'[p].step = runs[r].step
    BY <1>3, DerivedFields
  <2> QED
    BY <1>1, <2>1 DEF Approves
<1>4. CASE Proposed(p)
  BY <1>3, <1>4 DEF Proposed, Approves
<1>5. CASE Rests(p) \/ Scheduled(p) \/ Begun(p) \/ Decided(p) \/ Written(p) \/ Configured(p)
           \/ Drafted(p) \/ Evaluated(p)
  <2>1. pc'[p] # "execute"
    BY <1>5 DEF Rests, Scheduled, Begun, Decided, Written, Configured, Drafted, Evaluated, Edits
  <2> QED
    BY <2>1, SMTT(30) DEF Approves
<1> QED
  BY <1>2, <1>4, <1>5, StepMoves DEF Moved

LEMMA NextApproved ==
  ASSUME TypeOK, Shaped, ApprovedInv, [Next]_vars
  PROVE  ApprovedInv'
<1>1. \A r \in DOMAIN runs : r \in DOMAIN runs' /\ runs'[r] = runs[r]
  BY RunsKeep
<1>2. \A g \in DOMAIN grants : /\ g \in DOMAIN grants' /\ grants'[g].run = grants[g].run
                               /\ grants[g].status = "USED" => grants'[g].status = "USED"
  BY GrantsKeep
<1>3. CASE UNCHANGED applied
  BY <1>1, <1>2, <1>3, NextApproves DEF ApprovedInv, Backed
<1>4. ASSUME NEW p \in Procs, Decide(p), applied' # applied
      PROVE  \A i \in DOMAIN applied' : Backed(i)'
  <2> DEFINE row == Prepared(0, 0, AdviceFor(p).operation, AdviceFor(p).step)
  <2>1. applied' = Append(applied, row)
    BY <1>4, DecideNext DEF ExecuteBounded, Settle
  <2>2. row.run = 0 /\ row \in ChangeRow
    BY AdviceForTypes DEF Prepared, ChangeRow
  <2> HIDE DEF row
  <2> QED
    BY <2>1, <2>2, RowAdded, SMTT(30)
<1>5. ASSUME NEW c \in Clients, ExecuteApproved(c), applied' # applied
      PROVE  \A i \in DOMAIN applied' : Backed(i)'
  <2> DEFINE r == job[c].run
             g == BoundGrant(r)
             row == Prepared(r, g, job[c].op, job[c].step)
  <2>1. /\ pc[c] = "execute" /\ g \in DOMAIN grants /\ grants[g].run = r
        /\ ~Processed(r) /\ grants'[g].status = "USED"
        /\ applied' = Append(applied, row)
    BY <1>5, AppliedNext
  <2>2. c \in Procs
    BY DEF Procs
  <2>3. g \in Nat
    BY <2>1, SMTT(30) DEF TypeOK, StoreOK
  <2>4. /\ row \in ChangeRow /\ row.run = r /\ row.grant = g /\ row.op = job[c].op
        /\ row.step = job[c].step
    BY <2>2, <2>3, TypesOf DEF Prepared, ChangeRow
  <2>5. r \in DOMAIN runs /\ job[c].op = runs[r].op /\ job[c].step = runs[r].step
    BY <2>1, <2>2 DEF ApprovedInv, Approves
  <2> HIDE DEF row, g, r
  <2> QED
    BY <2>1, <2>4, <2>5, RowAdded
<1> QED
  BY <1>3, <1>4, <1>5, NextApproves, Writers DEF ApprovedInv

\* An operator's change is applied at most once, under a grant of its own and as it was
\* proposed: for any number of operators, proposals, revisions and repeated clicks, and
\* whatever crashes between the change and its report.
THEOREM AppliedAsApproved == Spec => []ApprovedExactly
<1>1. Init => TypeOK /\ Shaped /\ ApprovedInv
  BY InitTypes, InitShaped, InitApproved
<1>2. TypeOK /\ Shaped /\ ApprovedInv /\ [Next]_vars => (TypeOK /\ Shaped /\ ApprovedInv)'
  BY NextTypes, NextShaped, NextApproved
<1>3. ApprovedInv => ApprovedExactly
  BY DEF ApprovedInv, ApprovedExactly, Backed
<1> QED
  BY <1>1, <1>2, <1>3, PTL DEF Spec

-----------------------------------------------------------------------------
(* What the autopilot applies is supported.                                *)

Checked(policy, target) ==
  /\ ValidRules(Rules(policy)) /\ ValidScenario(Facts(policy))
  /\ ValidAdviceRules(AdviceRules(policy), target)
Supported(policy, op, target) ==
  /\ PerformanceTriggers(Facts(policy), DefaultRules) # {}
  /\ Rules(policy).freshness.enabled =>
       SafetyTriggers(Facts(policy), DefaultRules) \subseteq
         {"SOURCE_MISMATCH", "UNKNOWN_EXTERNAL_CHANGE"}
  /\ op \in Raises => Facts(policy).spend <= target * Facts(policy).conversions
\* A run decides on rules that were checked against the target it remembers, and reports
\* a change of the autopilot only when those rules supported it.
Grounds(p) ==
  /\ pc[p] = "decide" => Checked(job[p].policy, job[p].target)
  /\ (pc[p] = "report" /\ job[p].kind = "cycle" /\ job[p].exec = "APPLIED") =>
       Supported(job[p].policy, job[p].op, job[p].target)
SupportInv == (\A p \in Procs : Grounds(p)) /\ ScheduledIsSupported

LEMMA UsableSupports ==
  ASSUME NEW policy \in Policy, NEW target \in Int, Checked(policy, target),
         Triggers(Facts(policy), Rules(policy)) # {},
         SafetyTriggers(Facts(policy), Rules(policy)) = {}
  PROVE  Supported(policy, Advised(Facts(policy), Rules(policy), AdviceRules(policy)).diff.operation,
                   target)
<1> DEFINE s == Facts(policy)
           rules == Rules(policy)
           advice == AdviceRules(policy)
           op == Advised(s, rules, advice).diff.operation
<1>1. /\ Scenario(s) /\ rules \in TriggerRules /\ advice \in RecommendationRules
      /\ ValidRules(rules) /\ ValidScenario(s) /\ ValidAdviceRules(advice, target)
  BY PolicyNames DEF Checked
<1>2. Triggers(s, rules) # {} /\ SafetyTriggers(s, rules) = {}
  OBVIOUS
<1>3. advice.minConversions >= Gate.minConversions /\ advice.target <= target
      /\ advice.target \in Int
  BY <1>1 DEF ValidAdviceRules, DefaultAdviceRules
<1>4. s.conversions \in Int /\ s.conversions >= 0 /\ s.spend \in Int
  BY <1>1 DEF Scenario, ValidScenario, Counts
<1> HIDE DEF s, rules, advice
<1>5. PerformanceTriggers(s, DefaultRules) # {}
  <2>1. PerformanceTriggers(s, rules) # {}
    BY <1>2 DEF Triggers
  <2> QED
    BY <1>1, <2>1, TriggersAreSupported
<1>6. rules.freshness.enabled =>
        SafetyTriggers(s, DefaultRules) \subseteq {"SOURCE_MISMATCH", "UNKNOWN_EXTERNAL_CHANGE"}
  BY <1>1, <1>2, FreshEnough
<1>7. op \in Raises => s.spend <= target * s.conversions
  <2>1. SUFFICES ASSUME op \in Raises PROVE s.spend <= target * s.conversions
    OBVIOUS
  <2>2. s.spend <= advice.target * s.conversions
    BY <1>1, <1>3, <2>1, RaisesAreAffordable
  <2>3. advice.target * s.conversions <= target * s.conversions
    BY <1>3, <1>4, ProductsKeepOrder
  <2>4. advice.target * s.conversions \in Int /\ target * s.conversions \in Int
    BY <1>3, <1>4
  <2> QED
    BY <1>4, <2>2, <2>3, <2>4
<1> QED
  BY <1>5, <1>6, <1>7 DEF Supported, s, rules, advice

LEMMA InitSupport == Init => SupportInv
BY DEF Init, SupportInv, Grounds, ScheduledIsSupported

LEMMA NextGrounds ==
  ASSUME TypeOK, Shaped, SupportInv, [Next]_vars, NEW p \in Procs
  PROVE  Grounds(p)'
<1>1. /\ Grounds(p) /\ JobOK(job[p]) /\ job[p].policy \in Policy /\ job[p].target \in Int
      /\ Scheduler \notin Clients
  BY TypesOf, DashboardAssumption DEF SupportInv
<1>2. p # Scheduler => job'[p].kind # "cycle"
  BY NextShaped DEF Shaped, Shape
<1>3. CASE Stays(p)
  BY <1>1, <1>3 DEF Stays, Grounds
<1>4. CASE Begun(p)
  <2>1. CASE pc'[p] = "begin"
    BY <2>1 DEF Grounds
  <2>2. CASE /\ pc'[p] = "decide" /\ ~Refused(p)
             /\ job'[p] = [job[p] EXCEPT !.at = now, !.target = SelectedDraft.target]
    <3>1. job'[p].policy = job[p].policy /\ job'[p].target = SelectedDraft.target
      BY <1>1, <2>2 DEF JobOK, JobWith
    <3>2. Checked(job[p].policy, SelectedDraft.target)
      BY <2>2 DEF Refused, Checked
    <3> QED
      BY <2>2, <3>1, <3>2 DEF Grounds
  <2> QED
    BY <1>4, <2>1, <2>2 DEF Begun
<1>5. CASE Decided(p)
  <2>1. PICK exec \in Execs :
          /\ job'[p] = [job[p] EXCEPT !.exec = exec, !.op = AdviceFor(p).operation,
                                      !.step = AdviceFor(p).step]
          /\ exec = "APPLIED" =>
               /\ job[p].kind = "cycle" /\ Triggers(Facts(job[p].policy), Rules(job[p].policy)) # {}
               /\ SafetyTriggers(Facts(job[p].policy), Rules(job[p].policy)) = {}
    BY <1>5 DEF Decided
  <2>2. /\ job'[p].policy = job[p].policy /\ job'[p].target = job[p].target
        /\ job'[p].exec = exec /\ job'[p].op = AdviceFor(p).operation
    BY <1>1, <2>1 DEF JobOK, JobWith
  <2>3. pc[p] = "decide" /\ pc'[p] = "report"
    BY <1>5 DEF Decided
  <2>4. exec = "APPLIED" => Supported(job[p].policy, AdviceFor(p).operation, job[p].target)
    BY <1>1, <2>1, <2>3, UsableSupports DEF AdviceFor, Grounds
  <2> QED
    BY <2>2, <2>3, <2>4 DEF Grounds
<1>6. CASE Proposed(p)
  BY <1>1, <1>2, <1>6 DEF Proposed, Grounds
<1>7. CASE Rests(p) \/ Scheduled(p) \/ Written(p) \/ Configured(p) \/ Drafted(p) \/ Evaluated(p)
  <2>1. pc'[p] \notin {"decide", "report"}
    BY <1>7 DEF Rests, Scheduled, Written, Configured, Drafted, Evaluated, Edits
  <2> QED
    BY <2>1, SMTT(30) DEF Grounds
<1> QED
  BY <1>3, <1>4, <1>5, <1>6, <1>7, StepMoves DEF Moved

LEMMA NextSupport ==
  ASSUME TypeOK, Shaped, SupportInv, [Next]_vars
  PROVE  SupportInv'
<1> USE DEF Supported
<1>1. CASE UNCHANGED runs
  BY <1>1, NextGrounds DEF SupportInv, ScheduledIsSupported
<1>2. ASSUME NEW p \in Procs, WriteReport(p)
      PROVE  ScheduledIsSupported'
  <2> DEFINE row == ReportOf(p)
  <2>1. pc[p] = "report" /\ runs' = Append(runs, row) /\ runs \in Seq(RunRow)
    BY <1>2 DEF WriteReport, At, TypeOK, StoreOK
  <2>2. /\ row.kind = job[p].kind /\ row.exec = job[p].exec /\ row.policy = job[p].policy
        /\ row.op = job[p].op /\ row.target = job[p].target
    BY DEF ReportOf
  <2>3. (row.kind = "cycle" /\ row.exec = "APPLIED") => Supported(row.policy, row.op, row.target)
    BY <2>1, <2>2 DEF SupportInv, Grounds
  <2> HIDE DEF row
  <2> SUFFICES ASSUME NEW r \in DOMAIN runs', runs'[r].kind = "cycle", runs'[r].exec = "APPLIED"
               PROVE  Supported(runs'[r].policy, runs'[r].op, runs'[r].target)
    BY DEF ScheduledIsSupported
  <2>4. runs'[r] = row \/ (r \in DOMAIN runs /\ runs'[r] = runs[r])
    BY <2>1
  <2>5. CASE r \in DOMAIN runs /\ runs'[r] = runs[r]
    BY <2>5 DEF SupportInv, ScheduledIsSupported
  <2> QED
    BY <2>3, <2>4, <2>5
<1> QED
  BY <1>1, <1>2, NextGrounds, Writers DEF SupportInv

\* What the autopilot applies was triggered under the thresholds of the policy too, on data
\* the policy calls fresh unless freshness was switched off, and spending is raised only for
\* a campaign within the target it had when the run began: for every tuning of the rules,
\* every scenario of the sources and whatever drafts are saved meanwhile.
THEOREM AppliedIsSupported == Spec => []ScheduledIsSupported
<1>1. Init => TypeOK /\ Shaped /\ SupportInv
  BY InitTypes, InitShaped, InitSupport
<1>2. TypeOK /\ Shaped /\ SupportInv /\ [Next]_vars => (TypeOK /\ Shaped /\ SupportInv)'
  BY NextTypes, NextShaped, NextSupport
<1>3. SupportInv => ScheduledIsSupported
  BY DEF SupportInv
<1> QED
  BY <1>1, <1>2, <1>3, PTL DEF Spec

-----------------------------------------------------------------------------
(* Impacts: what an evaluation has read is final.                          *)

\* A request as it was sent.
Whole(o) ==
  o = [from |-> o.from, to |-> o.to, read |-> o.read, usable |-> o.usable, clicks |-> o.clicks,
       cost |-> o.cost, visits |-> o.visits, conversions |-> o.conversions]
Sent(r) ==
  /\ r = [run |-> r.run, baseline |-> r.baseline, post |-> r.post, changed |-> r.changed,
          evaluated |-> r.evaluated, sameCampaign |-> r.sameCampaign, evidence |-> r.evidence,
          confounded |-> r.confounded, fixture |-> r.fixture]
  /\ Whole(r.baseline) /\ Whole(r.post)
\* All conversions of the days an observation covers are shown, and were when it was read.
Final(o) ==
  /\ o.from..o.to \subseteq DOMAIN late
  /\ \A day \in o.from..o.to : late[day] = 0
  /\ o.conversions = Total(measured, o.from..o.to)
Judged == Evaluations \ {"evaluate"}
Ripe(c) ==
  LET r == job[c].request
  IN pc[c] \in Evaluations =>
       /\ Sent(r)
       /\ (r.evaluated = r.post.read /\ Evaluates(r)) => Final(r.baseline) /\ Final(r.post)
       /\ pc[c] \in Judged => Evaluates(r)
ImpactInv ==
  /\ InTime(now)
  /\ \A day \in DOMAIN late : measured[day] \in Nat
  /\ \A c \in Clients : Ripe(c)

LEMMA Days ==
  \A a, b \in Int :
    /\ a * Gate.day \in Int
    /\ a <= b => a * Gate.day <= b * Gate.day
    /\ a * Gate.day <= b * Gate.day => a <= b
<1> SUFFICES ASSUME NEW a \in Int, NEW b \in Int
             PROVE  /\ a * Gate.day \in Int
                    /\ a <= b => a * Gate.day <= b * Gate.day
                    /\ a * Gate.day <= b * Gate.day => a <= b
  OBVIOUS
<1> DEFINE d == Gate.day
<1>1. d \in Int /\ d > 0
  BY GateAssumption, GateTypes DEF GateNames
<1> HIDE DEF d
<1>2. a * d \in Int /\ b * d \in Int
  BY <1>1
<1>3. a <= b => a * d <= b * d
  BY <1>1, ProductsKeepOrder
<1>4. ASSUME b < a PROVE b * d < a * d
  <2>1. (b + 1) * d <= a * d
    BY <1>1, <1>4, ProductsKeepOrder
  <2>2. (b + 1) * d = b * d + d
    BY <1>1
  <2> QED
    BY <1>1, <1>2, <2>1, <2>2
<1> QED
  BY <1>2, <1>3, <1>4 DEF d

\* The observations of a request that may be evaluated now have seen every conversion.
LEMMA RipeWhenRead ==
  ASSUME TypeOK, ImpactInv, NEW impact \in session.impacts, NEW at
  PROVE  LET r == Requested(impact, at)
         IN /\ Sent(r)
            /\ (r.evaluated = r.post.read /\ Evaluates(r)) => Final(r.baseline) /\ Final(r.post)
<1> DEFINE r == Requested(impact, at)
           b == Observed(impact.baseline, measured)
           p == Observed(impact.post, measured)
<1>1. /\ impact \in Impact /\ session \in Sessions /\ now \in Int
      /\ DOMAIN late = DOMAIN session.traffic /\ DOMAIN session.traffic \subseteq Nat
      /\ impact.baseline.from..impact.baseline.to \subseteq DOMAIN late
      /\ impact.post.from..impact.post.to \subseteq DOMAIN late
      /\ \A day \in DOMAIN late : late[day] \in Nat
  BY DashboardAssumption DEF TypeOK, StoreOK
<1>2. /\ impact.baseline.from \in Int /\ impact.baseline.to \in Int
      /\ impact.post.from \in Int /\ impact.post.to \in Int /\ impact.changed \in Int
  <2>1. impact.baseline \in Period /\ impact.post \in Period /\ impact.changed \in Int
    BY <1>1 DEF Impact
  <2> QED
    BY <2>1 DEF Period
<1>3. /\ r.baseline = b /\ r.post = p /\ r.changed = impact.changed /\ r.evaluated = at
  BY DEF Requested
<1>4. /\ b.from = impact.baseline.from /\ b.to = impact.baseline.to
      /\ p.from = impact.post.from /\ p.to = impact.post.to /\ p.read = now
      /\ b.conversions = Total(measured, b.from..b.to)
      /\ p.conversions = Total(measured, p.from..p.to)
  BY DEF Observed
<1>5. Sent(r)
  <2>1. Whole(b) /\ Whole(p)
    BY DEF Observed, Whole
  <2> HIDE DEF b, p
  <2>2. r = [run |-> impact.run, baseline |-> b, post |-> p, changed |-> impact.changed,
             evaluated |-> at, sameCampaign |-> impact.sameCampaign,
             evidence |-> impact.evidence, confounded |-> impact.confounded,
             fixture |-> impact.fixture]
    BY DEF Requested, b, p
  <2> HIDE DEF r
  <2> QED
    BY <2>1, <2>2 DEF Sent
<1> HIDE DEF b, p, r
<1>6. ASSUME r.evaluated = r.post.read, Evaluates(r)
      PROVE  Final(r.baseline) /\ Final(r.post)
  <2>1. /\ p.from <= p.to /\ Closes(b) <= impact.changed /\ Opens(p) >= impact.changed
        /\ now >= Closes(p) + Gate.late
    BY <1>3, <1>4, <1>6 DEF Evaluates, ValidObservation, Linked, Mature
  <2>2. ASSUME NEW day \in DOMAIN late, day <= p.to
        PROVE  late[day] = 0
    <3>1. day \in Int /\ late[day] \in Nat /\ day + 1 \in Int /\ p.to + 1 \in Int
      BY <1>1, <1>2, <1>4
    <3>2. (day + 1) * Gate.day <= (p.to + 1) * Gate.day /\ (day + 1) * Gate.day \in Int
          /\ (p.to + 1) * Gate.day \in Int /\ Gate.late \in Nat
      <4>1. Gate.late \in Nat
        BY GateTypes DEF GateNames
      <4>2. p.to \in Int
        BY <1>2, <1>4
      <4>3. day + 1 <= p.to + 1
        BY <2>2, <3>1, <4>2
      <4> QED
        BY <3>1, <4>1, <4>3, Days
    <3>3. now >= (p.to + 1) * Gate.day + Gate.late
      BY <2>1 DEF Closes
    <3>4. ~(now < (day + 1) * Gate.day + Gate.late)
      BY <1>1, <3>2, <3>3
    <3> QED
      BY <2>2, <3>1, <3>4 DEF ImpactInv, InTime
  <2>3. b.to <= p.to
    <3>1. b.to \in Int /\ p.from \in Int /\ p.to \in Int /\ b.to + 1 \in Int
      BY <1>2, <1>4
    <3>2. (b.to + 1) * Gate.day \in Int /\ p.from * Gate.day \in Int
      BY <3>1, Days
    <3>3. (b.to + 1) * Gate.day <= p.from * Gate.day
      BY <1>2, <2>1, <3>2 DEF Closes, Opens
    <3>4. b.to + 1 <= p.from
      BY <3>1, <3>3, Days
    <3> QED
      BY <2>1, <3>1, <3>4
  <2>4. \A day \in b.from..b.to : day \in DOMAIN late /\ day <= p.to
    BY <1>1, <1>2, <1>4, <2>3
  <2>5. \A day \in p.from..p.to : day \in DOMAIN late /\ day <= p.to
    BY <1>1, <1>2, <1>4
  <2> QED
    BY <1>3, <1>4, <2>2, <2>4, <2>5 DEF Final
<1> QED
  BY <1>5, <1>6 DEF r

LEMMA InitImpacts == Init => ImpactInv
<1> SUFFICES ASSUME Init PROVE ImpactInv
  OBVIOUS
<1>1. /\ now = 0 /\ \A c \in Clients : pc[c] = "idle"
      /\ DOMAIN late = DOMAIN session.traffic /\ DOMAIN session.traffic \subseteq Nat
      /\ measured = [day \in DOMAIN late |-> 0]
  BY DashboardAssumption DEF Init, Procs
<1>2. ASSUME NEW day \in DOMAIN late
      PROVE  0 < (day + 1) * Gate.day + Gate.late
  <2>1. Gate.late \in Nat /\ Gate.day \in Nat /\ Gate.day > 0
    BY GateAssumption, GateTypes DEF GateNames
  <2>2. day + 1 \in Int /\ 1 <= day + 1 /\ 1 * Gate.day = Gate.day
    BY <1>1, <2>1
  <2>3. 1 * Gate.day <= (day + 1) * Gate.day /\ (day + 1) * Gate.day \in Int
    BY <2>2, Days
  <2> QED
    BY <2>1, <2>2, <2>3
<1> QED
  BY <1>1, <1>2 DEF ImpactInv, InTime, Ripe, Evaluations

\* Days that are complete stay complete, and their sums stay what they are.
LEMMA FinalStays ==
  ASSUME TypeOK, [Next]_vars, NEW o, Final(o)
  PROVE  Final(o)'
<1>1. CASE UNCHANGED <<measured, late>>
  BY <1>1 DEF Final
<1>2. ASSUME NEW day \in DOMAIN late, ConversionArrives(day)
      PROVE  Final(o)'
  <2>1. late[day] > 0 /\ day \notin o.from..o.to
    BY <1>2 DEF ConversionArrives, Final
  <2>2. /\ DOMAIN late' = DOMAIN late
        /\ \A other \in o.from..o.to :
             late'[other] = late[other] /\ measured'[other] = measured[other]
    <3>1. late' = [late EXCEPT ![day] = @ - 1] /\ measured' = [measured EXCEPT ![day] = @ + 1]
      BY <1>2 DEF ConversionArrives
    <3>2. DOMAIN measured = DOMAIN late /\ o.from..o.to \subseteq DOMAIN late
      BY DEF Final, TypeOK, StoreOK
    <3> QED
      BY <2>1, <3>1, <3>2
  <2>3. [other \in o.from..o.to |-> measured'[other]] = [other \in o.from..o.to |-> measured[other]]
    BY <2>2
  <2>4. Total(measured', o.from..o.to) = Total(measured, o.from..o.to)
    BY <2>3 DEF Total
  <2> QED
    BY <2>2, <2>4 DEF Final
<1> QED
  BY <1>1, <1>2, Writers

LEMMA NextRipe ==
  ASSUME TypeOK, ImpactInv, [Next]_vars, NEW c \in Clients
  PROVE  Ripe(c)'
<1>1. Ripe(c) /\ c \in Procs /\ Scheduler \notin Clients
  BY DashboardAssumption DEF ImpactInv, Procs
<1>2. \A o : Final(o) => Final(o)'
  BY FinalStays
<1>3. ASSUME pc[c] \in Evaluations, job'[c] = job[c],
             pc'[c] \in Judged => (pc[c] \in Judged \/ Evaluates(job[c].request))
      PROVE  Ripe(c)'
  BY <1>1, <1>2, <1>3 DEF Ripe, Final
<1>4. CASE Stays(c) /\ pc[c] \notin Evaluations
  BY <1>4 DEF Stays, Ripe
<1>5. CASE Stays(c) /\ pc[c] \in Evaluations
  BY <1>3, <1>5 DEF Stays
<1>6. ASSUME NEW impact \in session.impacts, NEW at, UNCHANGED <<now, session, impactVars>>,
             pc'[c] = "evaluate",
             job'[c] = [NoJob EXCEPT !.kind = "evaluate", !.request = Requested(impact, at)]
      PROVE  Ripe(c)'
  <2> DEFINE q == Requested(impact, at)
  <2>1. Sent(q) /\ ((q.evaluated = q.post.read /\ Evaluates(q)) => Final(q.baseline) /\ Final(q.post))
    BY RipeWhenRead
  <2> HIDE DEF q
  <2>2. job'[c].request = q
    BY <1>6 DEF NoJob, q
  <2>3. /\ Final(q.baseline) => Final(job'[c].request.baseline)
        /\ Final(q.post) => Final(job'[c].request.post)
    BY <2>2, SMTT(30)
  <2> QED
    BY <1>2, <1>6, <2>1, <2>2 DEF Ripe, Final, Judged
<1>7. CASE Evaluated(c)
  <2>1. CASE /\ pc[c] = "idle" /\ pc'[c] = "evaluate" /\ UNCHANGED <<now, session, impactVars>>
             /\ \E impact \in session.impacts, at \in {now, session.until} :
                  job'[c] = [NoJob EXCEPT !.kind = "evaluate", !.request = Requested(impact, at)]
    BY <1>6, <2>1
  <2>2. CASE pc[c] = "evaluate" /\ job'[c] = job[c] /\ Evaluates(job[c].request)
    BY <1>3, <2>2 DEF Evaluations
  <2>3. CASE pc[c] \in {"impact report", "write report", "impact workflow"} /\ job'[c] = job[c]
    BY <1>3, <2>3 DEF Evaluations, Judged
  <2> QED
    BY <1>7, <2>1, <2>2, <2>3 DEF Evaluated
<1>8. CASE Rests(c) \/ Scheduled(c) \/ Begun(c) \/ Decided(c) \/ Written(c) \/ Proposed(c)
           \/ Configured(c) \/ Drafted(c)
  <2>1. pc'[c] \notin Evaluations
    BY <1>8
       DEF Rests, Scheduled, Begun, Decided, Written, Proposed, Configured, Drafted, Edits,
           Evaluations
  <2> QED
    BY <2>1, SMTT(30) DEF Ripe
<1> QED
  BY <1>1, <1>4, <1>5, <1>7, <1>8, StepMoves DEF Moved

LEMMA NextImpacts ==
  ASSUME TypeOK, ImpactInv, [Next]_vars
  PROVE  ImpactInv'
<1>1. ASSUME NEW day \in DOMAIN late, ConversionArrives(day)
      PROVE  InTime(now)' /\ \A d \in DOMAIN late' : measured'[d] \in Nat
  <2>1. /\ late' = [late EXCEPT ![day] = @ - 1] /\ measured' = [measured EXCEPT ![day] = @ + 1]
        /\ late[day] > 0 /\ now' = now
    BY <1>1 DEF ConversionArrives
  <2>2. DOMAIN measured = DOMAIN late /\ \A d \in DOMAIN late : late[d] \in Nat
    BY DEF TypeOK, StoreOK
  <2>3. /\ DOMAIN late' = DOMAIN late
        /\ \A d \in DOMAIN late : (late'[d] > 0 => late[d] > 0) /\ measured'[d] \in Nat
    BY <2>1, <2>2 DEF ImpactInv
  <2> QED
    BY <2>1, <2>3 DEF ImpactInv, InTime
<1>2. ASSUME Tick, UNCHANGED late PROVE InTime(now)'
  BY <1>2 DEF Tick, InTime
<1>3. CASE UNCHANGED <<measured, late>>
  <2>1. InTime(now)'
    BY <1>2, <1>3, Writers DEF ImpactInv, InTime
  <2> QED
    BY <1>3, <2>1, NextRipe DEF ImpactInv
<1>4. CASE \E day \in DOMAIN late : ConversionArrives(day)
  BY <1>1, <1>4, NextRipe DEF ImpactInv
<1> QED
  BY <1>3, <1>4, Writers

\* What was recommended on final observations is what they recommend when complete.
LEMMA RipeIsFinal ==
  ASSUME TypeOK, ImpactInv, NEW c \in Clients, pc[c] \in Judged,
         job[c].request.evaluated = job[c].request.post.read
  PROVE  LET r == job[c].request
             Complete(o) == [o EXCEPT !.conversions =
               Total([day \in DOMAIN late |-> measured[day] + late[day]], o.from..o.to)]
         IN NextDecision(r) =
              NextDecision([r EXCEPT !.baseline = Complete(@), !.post = Complete(@)])
<1> DEFINE r == job[c].request
           shown == [day \in DOMAIN late |-> measured[day] + late[day]]
           Complete(o) == [o EXCEPT !.conversions = Total(shown, o.from..o.to)]
<1>1. Sent(r) /\ Final(r.baseline) /\ Final(r.post)
  BY DEF ImpactInv, Ripe, Judged
<1>2. ASSUME NEW o, Final(o), Whole(o)
      PROVE  Complete(o) = o
  <2>1. \A day \in o.from..o.to : shown[day] = measured[day]
    BY <1>2 DEF Final, ImpactInv
  <2> HIDE DEF shown
  <2>2. [day \in o.from..o.to |-> shown[day]] = [day \in o.from..o.to |-> measured[day]]
    BY <2>1
  <2>3. Total(shown, o.from..o.to) = o.conversions
    BY <1>2, <2>2 DEF Total, Final
  <2> DEFINE n == Total(shown, o.from..o.to)
  <2> HIDE DEF n
  <2>4. [o EXCEPT !.conversions = n] = o
    BY <1>2, <2>3 DEF Whole, n
  <2> QED
    BY <2>4 DEF n
<1>3. Complete(r.baseline) = r.baseline /\ Complete(r.post) = r.post
  BY <1>1, <1>2 DEF Sent
<1>4. [r EXCEPT !.baseline = Complete(r.baseline), !.post = Complete(r.post)] = r
  <2> DEFINE b == Complete(r.baseline)
             p == Complete(r.post)
  <2>1. b = r.baseline /\ p = r.post
    BY <1>3
  <2> HIDE DEF b, p, r
  <2>2. [r EXCEPT !.baseline = b, !.post = p] = r
    BY <1>1, <2>1 DEF Sent
  <2> QED
    BY <2>2 DEF b, p
<1>5. [r EXCEPT !.baseline = Complete(@), !.post = Complete(@)]
        = [r EXCEPT !.baseline = Complete(r.baseline), !.post = Complete(r.post)]
  BY <1>1 DEF Sent
<1> QED
  BY <1>4, <1>5

-----------------------------------------------------------------------------
(* Documents: no workflow without the report it speaks of.                 *)

Key(c, kind) == <<job[c].request.run, kind>>
\* Who is past the report has stored or found its own;
Reported(c) ==
  pc[c] \in {"impact workflow", "write workflow"} =>
    /\ Key(c, "report") \in DOMAIN documents
    /\ documents[Key(c, "report")] = <<ImpactReport(job[c].request)>>
\* who writes a document is alone with its empty file;
Creates(c, kind) ==
  pc[c] = Writing[kind] =>
    /\ Key(c, kind) \in DOMAIN documents /\ documents[Key(c, kind)] = Torn
    /\ \A d \in Clients \ {c} : pc[d] = Writing[kind] => Key(d, kind) # Key(c, kind)
\* and a workflow document speaks of the whole report beside it.
Speaks(key) ==
  key[2] = "workflow" =>
    /\ <<key[1], "report">> \in DOMAIN documents
    /\ documents[<<key[1], "report">>] # Torn
    /\ documents[key] \in {Torn, documents[<<key[1], "report">>]}
DocumentInv ==
  /\ \A c \in Clients : Reported(c) /\ \A kind \in Documents : Creates(c, kind)
  /\ \A key \in DOMAIN documents : Speaks(key)

LEMMA DocumentPoints ==
  /\ Documents = {"report", "workflow"}
  /\ Writing["report"] = "write report" /\ Writing["workflow"] = "write workflow"
  /\ Creating["report"] = "impact report" /\ Creating["workflow"] = "impact workflow"
  /\ \A x : Torn # <<x>>
  /\ \A a, b, k, l : <<a, k>> = <<b, l>> <=> (a = b /\ k = l)
  /\ \A a, k : <<a, k>>[1] = a /\ <<a, k>>[2] = k
BY DEF Documents, Writing, Creating, Torn

LEMMA ReportsAreNotTorn == \A r : <<ImpactReport(r)>> # Torn
<1> SUFFICES ASSUME NEW r PROVE <<ImpactReport(r)>> # Torn
  OBVIOUS
<1> DEFINE x == ImpactReport(r)
<1> HIDE DEF x
<1>1. Torn # <<x>>
  BY DocumentPoints
<1> QED
  BY <1>1 DEF x

LEMMA InitDocuments == Init => DocumentInv
<1> SUFFICES ASSUME Init PROVE DocumentInv
  OBVIOUS
<1>1. documents = <<>> /\ \A c \in Clients : pc[c] = "idle"
  BY DEF Init, Procs
<1>2. \A kind \in Documents : Writing[kind] # "idle"
  BY DocumentPoints
<1>3. DOMAIN documents = {}
  BY <1>1
<1> QED
  BY <1>1, <1>2, <1>3 DEF DocumentInv, Reported, Creates

\* How a document is created, or found.
LEMMA CreateNext ==
  ASSUME TypeOK, NEW c \in Clients, NEW kind \in Documents, CreateDocument(c, kind)
  PROVE  LET key == Key(c, kind) IN
         /\ pc[c] = Creating[kind]
         /\ \A d \in Clients \ {c} : pc'[d] = pc[d] /\ job'[d] = job[d]
         /\ \/ /\ key \notin DOMAIN documents /\ DOMAIN documents' = DOMAIN documents \cup {key}
               /\ documents'[key] = Torn
               /\ \A other \in DOMAIN documents : documents'[other] = documents[other]
               /\ pc'[c] = Writing[kind] /\ job'[c] = job[c]
            \/ UNCHANGED documents /\ pc'[c] = "idle"
            \/ /\ kind = "report" /\ key \in DOMAIN documents
               /\ documents[key] = <<ImpactReport(job[c].request)>>
               /\ UNCHANGED documents /\ pc'[c] = "impact workflow" /\ job'[c] = job[c]
<1>1. WorkOK /\ c \in Procs /\ Clients \subseteq Procs
  BY DEF TypeOK, Procs
<1>2. pc[c] = Creating[kind]
  BY DEF CreateDocument, At
<1> DEFINE key == Key(c, kind)
<1>3. CASE key \notin DOMAIN documents
  <2>1. /\ documents' = [file \in DOMAIN documents \cup {key} |->
                          IF file = key THEN Torn ELSE documents[file]]
        /\ Goto(c, Writing[kind]) /\ UNCHANGED job
    BY <1>3 DEF CreateDocument, Key
  <2> HIDE DEF key
  <2>2. /\ pc'[c] = Writing[kind] /\ job'[c] = job[c]
        /\ \A d \in Clients \ {c} : pc'[d] = pc[d] /\ job'[d] = job[d]
    BY <1>1, <2>1, Moves
  <2>3. /\ DOMAIN documents' = DOMAIN documents \cup {key} /\ documents'[key] = Torn
        /\ \A other \in DOMAIN documents : documents'[other] = documents[other]
    BY <1>3, <2>1
  <2> QED
    BY <1>2, <1>3, <2>2, <2>3 DEF key
<1>4. CASE key \in DOMAIN documents
  <2>1. /\ UNCHANGED documents
        /\ IF documents[key] = <<ImpactReport(job[c].request)>> THEN Stored(c, kind) ELSE Return(c)
    BY <1>4 DEF CreateDocument, Key
  <2> HIDE DEF key
  <2>2. CASE Return(c)
    BY <1>1, <1>2, <2>1, <2>2, Moves
  <2>3. CASE documents[key] = <<ImpactReport(job[c].request)>> /\ Stored(c, kind)
    <3>1. CASE kind = "report"
      <4>1. Goto(c, "impact workflow") /\ UNCHANGED job
        BY <2>3, <3>1 DEF Stored
      <4>2. /\ pc'[c] = "impact workflow" /\ job'[c] = job[c]
            /\ \A d \in Clients \ {c} : pc'[d] = pc[d] /\ job'[d] = job[d]
        BY <1>1, <4>1, Moves
      <4> QED
        BY <1>2, <1>4, <2>1, <2>3, <3>1, <4>2 DEF key
    <3>2. CASE kind # "report"
      BY <2>2, <2>3, <3>2 DEF Stored
    <3> QED
      BY <3>1, <3>2
  <2> QED
    BY <2>1, <2>2, <2>3
<1> QED
  BY <1>3, <1>4

\* How its bytes are written, or it is unlinked.
LEMMA WriteNext ==
  ASSUME TypeOK, NEW c \in Clients, NEW kind \in Documents, WriteDocument(c, kind)
  PROVE  LET key == Key(c, kind) IN
         /\ pc[c] = Writing[kind]
         /\ \A d \in Clients \ {c} : pc'[d] = pc[d] /\ job'[d] = job[d]
         /\ \/ /\ DOMAIN documents' = DOMAIN documents
               /\ key \in DOMAIN documents =>
                    documents'[key] = <<ImpactReport(job[c].request)>>
               /\ \A other \in DOMAIN documents \ {key} : documents'[other] = documents[other]
               /\ IF kind = "report" THEN pc'[c] = "impact workflow" /\ job'[c] = job[c]
                  ELSE pc'[c] = "idle"
            \/ /\ DOMAIN documents' = DOMAIN documents \ {key}
               /\ \A other \in DOMAIN documents \ {key} : documents'[other] = documents[other]
               /\ pc'[c] = "idle"
<1>1. WorkOK /\ c \in Procs /\ Clients \subseteq Procs
  BY DEF TypeOK, Procs
<1>2. pc[c] = Writing[kind]
  BY DEF WriteDocument, At
<1> DEFINE key == Key(c, kind)
<1>3. \/ /\ documents' = [documents EXCEPT ![key] = <<ImpactReport(job[c].request)>>]
         /\ Stored(c, kind)
      \/ /\ documents' = [other \in DOMAIN documents \ {key} |-> documents[other]]
         /\ Return(c)
  BY DEF WriteDocument, Key
<1> HIDE DEF key
<1>4. documents = [file \in DOMAIN documents |-> documents[file]]
  BY DEF TypeOK, StoreOK
<1>5. CASE /\ documents' = [other \in DOMAIN documents \ {key} |-> documents[other]]
           /\ Return(c)
  <2>1. /\ pc'[c] = "idle" /\ \A d \in Clients \ {c} : pc'[d] = pc[d] /\ job'[d] = job[d]
    BY <1>1, <1>5, Moves
  <2> QED
    BY <1>2, <1>5, <2>1 DEF key
<1>6. CASE /\ documents' = [documents EXCEPT ![key] = <<ImpactReport(job[c].request)>>]
           /\ Stored(c, kind)
  <2>1. /\ IF kind = "report" THEN pc'[c] = "impact workflow" /\ job'[c] = job[c]
           ELSE pc'[c] = "idle"
        /\ \A d \in Clients \ {c} : pc'[d] = pc[d] /\ job'[d] = job[d]
    BY <1>1, <1>6, Moves DEF Stored
  <2>2. /\ DOMAIN documents' = DOMAIN documents
        /\ key \in DOMAIN documents => documents'[key] = <<ImpactReport(job[c].request)>>
        /\ \A other \in DOMAIN documents \ {key} : documents'[other] = documents[other]
    BY <1>4, <1>6
  <2> QED
    BY <1>2, <2>1, <2>2 DEF key
<1> QED
  BY <1>3, <1>5, <1>6

LEMMA CreateDocuments ==
  ASSUME TypeOK, DocumentInv, NEW c \in Clients, NEW kind \in Documents, CreateDocument(c, kind)
  PROVE  DocumentInv'
<1> DEFINE key == Key(c, kind)
<1>1. /\ pc[c] = Creating[kind] /\ Reported(c)
      /\ \A d \in Clients \ {c} : pc'[d] = pc[d] /\ job'[d] = job[d]
  BY CreateNext DEF DocumentInv
\* a new file
<1>2. ASSUME key \notin DOMAIN documents, DOMAIN documents' = DOMAIN documents \cup {key},
             documents'[key] = Torn,
             \A other \in DOMAIN documents : documents'[other] = documents[other],
             pc'[c] = Writing[kind], job'[c] = job[c]
      PROVE  DocumentInv'
  <2>1. \A d \in Clients, k \in Documents : Key(d, k)' = Key(d, k)
    BY <1>1, <1>2 DEF Key
  <2>2. kind = "workflow" =>
          /\ Key(c, "report") \in DOMAIN documents
          /\ documents[Key(c, "report")] = <<ImpactReport(job[c].request)>>
    BY <1>1, DocumentPoints DEF Reported
  <2>3. ASSUME NEW d \in Clients
        PROVE  Reported(d)'
    <3>1. CASE d = c
      <4>1. pc'[c] \in {"impact workflow", "write workflow"} => kind = "workflow"
        BY <1>2, DocumentPoints
      <4>2. kind = "workflow" =>
              /\ Key(c, "report") \in DOMAIN documents'
              /\ documents'[Key(c, "report")] = <<ImpactReport(job[c].request)>>
        BY <1>2, <2>2
      <4>3. Key(c, "report")' = Key(c, "report") /\ job'[c] = job[c]
        BY <1>2 DEF Key
      <4> QED
        BY <3>1, <4>1, <4>2, <4>3 DEF Reported
    <3>2. CASE d # c
      <4>1. Reported(d) /\ pc'[d] = pc[d] /\ job'[d] = job[d]
        BY <1>1, <3>2 DEF DocumentInv
      <4>2. Key(d, "report")' = Key(d, "report")
        BY <4>1 DEF Key
      <4> QED
        BY <1>2, <4>1, <4>2 DEF Reported
    <3> QED
      BY <3>1, <3>2
  <2>4. ASSUME NEW d \in Clients, NEW k \in Documents
        PROVE  Creates(d, k)'
    <3>1. \A e \in Clients \ {c}, l \in Documents : pc[e] = Writing[l] =>
            Key(e, l) \in DOMAIN documents /\ documents[Key(e, l)] = Torn
      BY DEF DocumentInv, Creates
    <3>2. CASE d = c
      <4>1. pc'[d] = Writing[k] => k = kind
        BY <1>2, <3>2, DocumentPoints
      <4>2. \A e \in Clients \ {c} : pc'[e] = Writing[kind] => Key(e, kind) # key
        BY <1>1, <1>2, <3>1
      <4> QED
        BY <1>1, <1>2, <2>1, <3>2, <4>1, <4>2 DEF Creates
    <3>3. CASE d # c
      <4>1. ASSUME pc[d] = Writing[k], pc'[c] = Writing[k]
            PROVE  Key(c, k) # Key(d, k)
        <5>1. k = kind
          BY <1>2, <4>1, DocumentPoints
        <5>2. Key(d, k) \in DOMAIN documents
          BY <3>1, <3>3, <4>1
        <5> QED
          BY <1>2, <5>1, <5>2
      <4>2. Creates(d, k) /\ pc'[d] = pc[d]
        BY <1>1, <3>3 DEF DocumentInv
      <4> QED
        BY <1>1, <1>2, <2>1, <3>1, <3>3, <4>1, <4>2 DEF Creates
    <3> QED
      BY <3>2, <3>3
  <2>5. ASSUME NEW other \in DOMAIN documents'
        PROVE  Speaks(other)'
    <3>1. CASE other = key
      <4>1. other[1] = job[c].request.run /\ other[2] = kind
        BY <3>1, DocumentPoints DEF Key
      <4>2. kind = "workflow" => <<other[1], "report">> = Key(c, "report")
        BY <4>1 DEF Key
      <4>3. kind = "workflow" => documents[Key(c, "report")] # Torn
        BY <2>2, ReportsAreNotTorn
      <4>4. kind = "workflow" =>
              /\ <<other[1], "report">> \in DOMAIN documents'
              /\ documents'[<<other[1], "report">>] # Torn
        BY <1>2, <2>2, <4>2, <4>3
      <4> QED
        BY <1>2, <3>1, <4>1, <4>4 DEF Speaks
    <3>2. CASE other # key
      <4>1. other \in DOMAIN documents /\ Speaks(other)
        BY <1>2, <3>2 DEF DocumentInv
      <4> QED
        BY <1>2, <4>1 DEF Speaks
    <3> QED
      BY <3>1, <3>2
  <2> QED
    BY <2>3, <2>4, <2>5 DEF DocumentInv
\* no change
<1>3. ASSUME UNCHANGED documents,
             \/ pc'[c] = "idle"
             \/ /\ kind = "report" /\ key \in DOMAIN documents
                /\ documents[key] = <<ImpactReport(job[c].request)>>
                /\ pc'[c] = "impact workflow" /\ job'[c] = job[c]
      PROVE  DocumentInv'
  <2>1. Reported(c)' /\ \A k \in Documents : Creates(c, k)'
    BY <1>3, DocumentPoints DEF Reported, Creates, Key
  <2>2. ASSUME NEW d \in Clients \ {c}
        PROVE  Reported(d)' /\ \A k \in Documents : Creates(d, k)'
    <3>1. /\ pc'[d] = pc[d] /\ job'[d] = job[d] /\ Reported(d)
          /\ \A k \in Documents : Creates(d, k)
      BY <1>1 DEF DocumentInv
    <3>2. \A k \in Documents : pc'[c] # Writing[k]
      BY <1>3, DocumentPoints
    <3>3. Reported(d)'
      BY <1>3, <3>1 DEF Reported, Key
    <3>4. ASSUME NEW k \in Documents
          PROVE  Creates(d, k)'
      <4>1. \A e \in Clients \ {c} : Key(e, k)' = Key(e, k) /\ pc'[e] = pc[e]
        BY <1>1 DEF Key
      <4>2. \A e \in Clients \ {d} : pc'[e] = Writing[k] =>
              pc[e] = Writing[k] /\ Key(e, k)' = Key(e, k)
        BY <3>2, <4>1
      <4>3. Creates(d, k) /\ pc'[d] = pc[d] /\ Key(d, k)' = Key(d, k)
        BY <3>1, <4>1
      <4> QED
        BY <1>3, <4>2, <4>3 DEF Creates
    <3> QED
      BY <3>3, <3>4
  <2>3. \A other \in DOMAIN documents' : Speaks(other)'
    BY <1>3 DEF DocumentInv, Speaks
  <2> QED
    BY <2>1, <2>2, <2>3 DEF DocumentInv
<1>4. \/ /\ key \notin DOMAIN documents /\ DOMAIN documents' = DOMAIN documents \cup {key}
         /\ documents'[key] = Torn
         /\ \A other \in DOMAIN documents : documents'[other] = documents[other]
         /\ pc'[c] = Writing[kind] /\ job'[c] = job[c]
      \/ UNCHANGED documents /\ pc'[c] = "idle"
      \/ /\ kind = "report" /\ key \in DOMAIN documents
         /\ documents[key] = <<ImpactReport(job[c].request)>>
         /\ UNCHANGED documents /\ pc'[c] = "impact workflow" /\ job'[c] = job[c]
  BY CreateNext
<1> HIDE DEF key
<1> QED
  BY <1>2, <1>3, <1>4

LEMMA WriteDocuments ==
  ASSUME TypeOK, DocumentInv, NEW c \in Clients, NEW kind \in Documents, WriteDocument(c, kind)
  PROVE  DocumentInv'
<1> DEFINE key == Key(c, kind)
<1>1. /\ pc[c] = Writing[kind]
      /\ \A d \in Clients \ {c} : pc'[d] = pc[d] /\ job'[d] = job[d]
  BY WriteNext
<1>2. /\ key \in DOMAIN documents /\ documents[key] = Torn /\ Reported(c)
      /\ \A d \in Clients \ {c} : pc[d] = Writing[kind] => Key(d, kind) # key
  BY <1>1 DEF DocumentInv, Creates
<1>3. \/ /\ DOMAIN documents' = DOMAIN documents
         /\ documents'[key] = <<ImpactReport(job[c].request)>>
         /\ IF kind = "report" THEN pc'[c] = "impact workflow" /\ job'[c] = job[c]
            ELSE pc'[c] = "idle"
      \/ /\ DOMAIN documents' = DOMAIN documents \ {key}
         /\ pc'[c] = "idle"
  BY <1>2, WriteNext
<1>4. \A other \in DOMAIN documents \ {key} : documents'[other] = documents[other]
  BY WriteNext
<1>5. key[1] = job[c].request.run /\ key[2] = kind
  BY DocumentPoints DEF Key
<1> HIDE DEF key
\* every other file of an unfinished request stays
<1>6. ASSUME NEW other \in DOMAIN documents, other # key
      PROVE  other \in DOMAIN documents' /\ documents'[other] = documents[other]
  BY <1>3, <1>4, <1>6
<1>7. ASSUME NEW r, key \in DOMAIN documents, documents[key] = <<ImpactReport(r)>>
      PROVE  FALSE
  BY <1>2, <1>7, ReportsAreNotTorn
<1>8. ASSUME NEW d \in Clients
      PROVE  Reported(d)'
  <2>1. CASE d = c
    <3>1. pc'[c] \in {"impact workflow", "write workflow"} =>
            /\ kind = "report" /\ job'[c] = job[c] /\ DOMAIN documents' = DOMAIN documents
            /\ documents'[key] = <<ImpactReport(job[c].request)>>
      BY <1>3
    <3>2. kind = "report" /\ job'[c] = job[c] => Key(c, "report")' = key
      BY DEF Key, key
    <3> QED
      BY <1>2, <2>1, <3>1, <3>2 DEF Reported
  <2>2. CASE d # c
    <3>1. Reported(d) /\ pc'[d] = pc[d] /\ job'[d] = job[d]
      BY <1>1, <2>2 DEF DocumentInv
    <3>2. Key(d, "report")' = Key(d, "report")
      BY <3>1 DEF Key
    <3>3. pc[d] \in {"impact workflow", "write workflow"} =>
            Key(d, "report") \in DOMAIN documents /\ Key(d, "report") # key
      BY <1>7, <3>1 DEF Reported
    <3> QED
      BY <1>6, <3>1, <3>2, <3>3 DEF Reported
  <2> QED
    BY <2>1, <2>2
<1>9. ASSUME NEW d \in Clients, NEW k \in Documents
      PROVE  Creates(d, k)'
  <2>1. pc'[c] # Writing[k]
    BY <1>3, DocumentPoints
  <2>2. CASE d = c
    BY <2>1, <2>2 DEF Creates
  <2>3. CASE d # c
    <3>1. /\ Creates(d, k) /\ pc'[d] = pc[d] /\ Key(d, k)' = Key(d, k)
          /\ \A e \in Clients \ {c} : Key(e, k)' = Key(e, k) /\ pc'[e] = pc[e]
      BY <1>1, <2>3 DEF DocumentInv, Key
    <3>2. \A e \in Clients \ {d} : pc'[e] = Writing[k] =>
            pc[e] = Writing[k] /\ Key(e, k)' = Key(e, k)
      BY <2>1, <3>1
    <3>3. pc[d] = Writing[k] => Key(d, k) # key
      <4>1. CASE k = kind
        BY <1>2, <2>3, <4>1
      <4>2. CASE k # kind
        <5>1. Key(d, k)[2] = k
          BY DocumentPoints DEF Key
        <5> QED
          BY <1>5, <4>2, <5>1
      <4> QED
        BY <4>1, <4>2
    <3> QED
      BY <1>6, <3>1, <3>2, <3>3 DEF Creates
  <2> QED
    BY <2>2, <2>3
<1>10. ASSUME NEW other \in DOMAIN documents', other[2] = "workflow"
       PROVE  Speaks(other)'
  <2> DEFINE report == <<other[1], "report">>
  <2>1. /\ other \in DOMAIN documents /\ report \in DOMAIN documents /\ documents[report] # Torn
        /\ documents[other] \in {Torn, documents[report]}
    BY <1>3, <1>10 DEF DocumentInv, Speaks
  <2>2. report # key
    BY <1>2, <2>1
  <2>3. other = key => report = Key(c, "report") /\ kind = "workflow"
    BY <1>5, <1>10 DEF Key
  <2> HIDE DEF report
  <2>4. report \in DOMAIN documents' /\ documents'[report] = documents[report]
    BY <1>6, <2>1, <2>2
  <2>5. CASE other # key
    <3>1. documents'[other] = documents[other]
      BY <1>4, <2>1, <2>5
    <3> QED
      BY <2>1, <2>4, <3>1 DEF Speaks, report
  <2>6. CASE other = key
    <3>1. pc[c] = "write workflow" /\ documents[report] = <<ImpactReport(job[c].request)>>
      BY <1>1, <1>2, <2>3, <2>6, DocumentPoints DEF Reported
    <3>2. documents'[other] = documents'[report]
      BY <1>3, <1>10, <2>4, <2>6, <3>1
    <3> QED
      BY <2>1, <2>4, <3>2 DEF Speaks, report
  <2> QED
    BY <2>5, <2>6
<1>11. \A other \in DOMAIN documents' : Speaks(other)'
  BY <1>10 DEF Speaks
<1> QED
  BY <1>8, <1>9, <1>11 DEF DocumentInv

LEMMA NextDocuments ==
  ASSUME TypeOK, DocumentInv, [Next]_vars
  PROVE  DocumentInv'
<1>1. CASE \E c \in Clients, kind \in Documents : CreateDocument(c, kind) \/ WriteDocument(c, kind)
  BY <1>1, CreateDocuments, WriteDocuments
<1>2. ASSUME ~\E c \in Clients, kind \in Documents : CreateDocument(c, kind) \/ WriteDocument(c, kind)
      PROVE  DocumentInv'
  <2> DEFINE Past == {"write report", "impact workflow", "write workflow"}
  <2>1. UNCHANGED documents
    BY <1>2, Writers
  <2>2. ASSUME NEW c \in Clients
        PROVE  Stays(c) \/ pc'[c] \notin Past
    <3>1. c \in Procs /\ "report" \in Documents /\ "workflow" \in Documents
      BY DocumentPoints, ZenonT(60) DEF Procs
    <3>2. CASE Evaluated(c)
      BY <1>2, <3>1, <3>2, ZenonT(60) DEF Evaluated
    <3>3. CASE Rests(c) \/ Scheduled(c) \/ Begun(c) \/ Decided(c) \/ Written(c) \/ Proposed(c)
               \/ Configured(c) \/ Drafted(c)
      BY <3>3
         DEF Rests, Scheduled, Begun, Decided, Written, Proposed, Configured, Drafted, Edits
    <3> QED
      BY <3>1, <3>2, <3>3, StepMoves DEF Moved
  <2>3. \A kind \in Documents : Writing[kind] \in Past
    BY DocumentPoints
  <2>4. \A c \in Clients, k \in Documents :
          pc'[c] \in Past => pc'[c] = pc[c] /\ job'[c] = job[c] /\ Key(c, k)' = Key(c, k)
    BY <2>2 DEF Stays, Key
  <2>5. ASSUME NEW c \in Clients
        PROVE  Reported(c)'
    <3>1. Reported(c) /\ "report" \in Documents
      BY DocumentPoints DEF DocumentInv
    <3> QED
      BY <2>1, <2>4, <3>1 DEF Reported
  <2>6. ASSUME NEW c \in Clients, NEW k \in Documents
        PROVE  Creates(c, k)'
    <3>1. Creates(c, k)
      BY DEF DocumentInv
    <3> QED
      BY <2>1, <2>3, <2>4, <3>1 DEF Creates
  <2> QED
    BY <2>1, <2>5, <2>6 DEF DocumentInv, Speaks
<1> QED
  BY <1>1, <1>2

\* A recommendation on observations read when they are evaluated is the one that complete
\* observations give, and no run has a workflow document without the whole report it speaks
\* of: for any traffic, any requests and any races, failures and repetitions of them.
THEOREM FinalImpacts == Spec => []ImpactsAreFinal
<1>1. Init => TypeOK /\ ImpactInv /\ DocumentInv
  BY InitTypes, InitImpacts, InitDocuments
<1>2. TypeOK /\ ImpactInv /\ DocumentInv /\ [Next]_vars => (TypeOK /\ ImpactInv /\ DocumentInv)'
  BY NextTypes, NextImpacts, NextDocuments, SMTT(30)
<1>3. TypeOK /\ ImpactInv /\ DocumentInv => ImpactsAreFinal
  <2> SUFFICES ASSUME TypeOK, ImpactInv, DocumentInv PROVE ImpactsAreFinal
    OBVIOUS
  <2>1. "impact report" \in Judged /\ "write report" \in Judged
    BY DEF Judged, Evaluations
  <2> QED
    BY <2>1, RipeIsFinal DEF ImpactsAreFinal, DocumentInv, Speaks
<1> QED
  BY <1>1, <1>2, <1>3, PTL DEF Spec

===============================================================================
