SPECIFICATION Spec
CONSTANTS
  e1 = e1
  e2 = e2
  w1 = w1
  w2 = w2
  None = None
  Executions = {e1, e2}
  Workers = {w1, w2}
  NewCampaignStates = {"OFF", "ON"}
  Rejectable = {"campaigns.add","campaigns.suspend","ads.add"}
  Documents = {"d1", "d2"}
  Instances <- Faulty
  ExclusiveDispatch = TRUE
SYMMETRY AllWorkers
CHECK_DEADLOCK FALSE
INVARIANTS AtMostOneAdd SettledIsSafe OutcomesAreTrue AmbiguityIsLocked
PROPERTIES AccountBoundary
