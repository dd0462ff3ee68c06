SPECIFICATION Spec
CONSTANTS
  Gate <- MCGate
  NA = NA
  Clients = {u1, u2}
  Scheduler = Scheduler
  Nobody = Nobody
  ScenarioOf <- MCScenarioOf
  TuningOf <- MCTuningOf
  Policies <- MCPolicies
  Targets = {600, 1000}
  MandateLife = 2
  GrantLife = 1
  Quiet = 1
  RevisedSteps = {5}
  Sessions <- MCSessions
SYMMETRY Symmetry
INVARIANTS ClaimsAccounted ClaimsSpaced ClaimsAreWanted ApprovedExactly ScheduledIsSupported ImpactsAreFinal
CHECK_DEADLOCK FALSE
