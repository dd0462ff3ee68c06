SPECIFICATION Spec
CONSTANTS
  e1 = e1
  e2 = e2
  w1 = w1
  w2 = w2
  None = None
  Executions = {e1, e2}
  Workers = {w1, w2}
  NewCampaignStates = {"OFF", "ON"}
  Rejectable = {}
  Documents = {"d1", "d2"}
  Instances <- Faultless
  ExclusiveDispatch = FALSE
SYMMETRY AllWorkers
CHECK_DEADLOCK FALSE
INVARIANT AtMostOneAdd
