------------------------------ MODULE MCDashboard ------------------------------
(* An instance of Dashboard with the thresholds of config/gate0-policy.json, *)
(* scenarios on both sides of the triggers, and ten sessions.               *)
EXTENDS Dashboard, TLC

MCGate ==
  [minClicks |-> 50, minConversions |-> 3, target |-> 1000, pressure |-> 90,
   growth |-> 500, noConversion |-> 2000, stopSpend |-> 2000, pacing |-> 20,
   cpc |-> 30, ctr |-> 30, conversionRate |-> 30, goalHours |-> 24, goalVisits |-> 50,
   mismatch |-> 30, direct |-> 30, metrika |-> 360, skew |-> 360, lowCtr |-> 10,
   lowCtrImpressions |-> 5000, bidMaxClicks |-> 99, step |-> 10, window |-> 72,
   day |-> 1, observation |-> 3, late |-> 3]

\* DEFAULT_SCENARIO: budget pressure at an acceptable price of a conversion.
Default ==
  [impressions |-> 10000, clicks |-> 100, spend |-> 1900, visits |-> 100,
   conversions |-> 12, budget |-> 2000, baselineSpend |-> 1800,
   baselineConversions |-> 10, expectedSpend |-> 1600, baselineImpressions |-> 10000,
   baselineClicks |-> 100, baselineVisits |-> 100, hours |-> 1, mismatch |-> 0,
   directAge |-> 1, metrikaAge |-> 1, skew |-> 0, externalChange |-> FALSE,
   state |-> "ON"]

MCScenarioOf ==
  [default |-> Default,
   calm |-> [Default EXCEPT !.spend = 1000, !.baselineSpend = 1000, !.conversions = 10],
   dear |-> [Default EXCEPT !.conversions = 3],
   stale |-> [Default EXCEPT !.directAge = 31],
   disputed |-> [Default EXCEPT !.mismatch = 30],
   broken |-> [Default EXCEPT !.clicks = 10001]]

Plain == [rules |-> DefaultRules, advice |-> DefaultAdviceRules(1000)]
MCTuningOf ==
  [default |-> Plain,
   loose |-> [Plain EXCEPT !.rules.budgetPressure.percent = 89,
                           !.rules.pacing.percent = 10000],
   raised |-> [Plain EXCEPT !.rules.budgetPressure.percent = 96,
                            !.rules.mismatch.percent = 31,
                            !.rules.freshness.direct = 15],
   blind |-> [Plain EXCEPT !.rules.freshness.enabled = FALSE,
                           !.advice.minConversions = 4]]

PolicyOf(every, facts, rules, target) ==
  [every |-> every, facts |-> facts, rules |-> rules, target |-> target]
MCPolicies ==
  {PolicyOf(1, "default", "default", 1000), PolicyOf(2, "calm", "default", 1000),
   PolicyOf(2, "default", "raised", 600), PolicyOf(1, "stale", "blind", 1000),
   PolicyOf(1, "stale", "raised", 1000), PolicyOf(1, "disputed", "raised", 1000),
   PolicyOf(1, "dear", "default", 1000), PolicyOf(1, "broken", "default", 1000),
   PolicyOf(1, "calm", "loose", 1000)}

Named(names) == {policy \in MCPolicies : policy.facts \in names}

\* Three days, a change between the first and the last, and conversions that may be
\* missing on either side of it.
Traffic(cost) ==
  [day \in 0..2 |-> [clicks |-> 60, visits |-> 60, cost |-> IF day = 0 THEN 3000 ELSE cost]]
Converting(first, last) ==
  [day \in 0..2 |-> IF day = 0 THEN first ELSE IF day = 1 THEN 0 ELSE last]
Days(from, to, usable) == [from |-> from, to |-> to, usable |-> usable]
Change(run, changed) ==
  [run |-> run, baseline |-> Days(0, 0, TRUE), post |-> Days(2, 2, TRUE),
   changed |-> changed, sameCampaign |-> TRUE, evidence |-> TRUE,
   confounded |-> FALSE, fixture |-> "none"]
MCImpacts ==
  {Change("i1", 1), [Change("i1", 1) EXCEPT !.confounded = TRUE],
   [Change("i1", 2) EXCEPT !.fixture = "KEEP_CHANGE"], Change("i1", 3),
   [Change("i1", 1) EXCEPT !.post.usable = FALSE, !.fixture = "ESCALATE_TO_HUMAN"]}

NoImpacts == [traffic |-> <<>>, conversions |-> {<<>>}, impacts |-> {}]
OperatorSessions ==
  {[kinds |-> {"configure", "revoke", "switch"}, requests |-> 2, until |-> 2,
    policies |-> {PolicyOf(1, "default", "default", 1000), PolicyOf(2, "calm", "default", 1000)},
    faults |-> {"crash"}],
   [kinds |-> {"configure", "run"}, requests |-> 2, until |-> 1,
    policies |-> MCPolicies, faults |-> {}],
   [kinds |-> {"configure", "run"}, requests |-> 2, until |-> 2,
    policies |-> Named({"default"}), faults |-> {"disk", "database"}],
   [kinds |-> {"configure", "edit"}, requests |-> 3, until |-> 0,
    policies |-> Named({"dear"}), faults |-> {}],
   [kinds |-> {"configure", "edit"}, requests |-> 2, until |-> 2,
    policies |-> Named({"dear"}), faults |-> {}],
   [kinds |-> {"configure", "create", "select", "delete"}, requests |-> 3,
    until |-> 0, policies |-> {PolicyOf(1, "default", "default", 1000)}, faults |-> {}],
   [kinds |-> {"run", "grant", "approve", "revise", "withdraw"}, requests |-> 5,
    until |-> 1, policies |-> {PolicyOf(1, "default", "default", 1000)},
    faults |-> {"crash"}]}
\* one evaluation at any time, and two of one run while writes fail
EvaluationSessions ==
  {[kinds |-> {"evaluate"}, requests |-> 1, until |-> 6, policies |-> {},
    faults |-> {}, traffic |-> Traffic(3000), impacts |-> MCImpacts,
    conversions |-> {Converting(n, m) : n, m \in 3..4}],
   [kinds |-> {"evaluate"}, requests |-> 1, until |-> 6, policies |-> {},
    faults |-> {}, traffic |-> Traffic(3600), impacts |-> MCImpacts,
    conversions |-> {Converting(n, 3) : n \in 3..4}]}
  \cup
  {[kinds |-> {"evaluate"}, requests |-> 2, until |-> 6, policies |-> {},
    faults |-> {"crash", "disk"}, traffic |-> Traffic(3000),
    impacts |-> {Change("i1", 1), [Change("i1", 1) EXCEPT !.confounded = TRUE]},
    conversions |-> {Converting(0, 1)}]}
MCSessions == {NoImpacts @@ s : s \in OperatorSessions} \cup EvaluationSessions

Symmetry == Permutations(Clients)
================================================================================
