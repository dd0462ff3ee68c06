SPECIFICATION Spec
CONSTANTS
  p1 = p1  p2 = p2  t1 = t1  v0 = v0  v1 = v1  v2 = v2  global = global
  Proposals = {p1, p2}
  Targets = {t1}
  Values = {v0, v1, v2}
  Scopes = {global}
  TargetOf <- MCTargetOf
  CurrentValue <- MCCurrentValue
  TargetValue <- MCTargetValue
  ScopesOf <- MCScopesOf
  SnapshotSourced = {p1}
  UseState = UseState
  Adapters <- MCHonest
  InitialTargets <- MCStartAtCurrent
  NoKey = NoKey
  Window = 1
  UsageHorizon = 0
  MaxClock = 1
  Callers = {c1}
  Approvals = {a1, a2}
  Operators = {o1}
  NoApproval = NoApproval
  ExclusiveCalls = TRUE
  Faults = {"crash"}
PROPERTIES QuietWindowKept
