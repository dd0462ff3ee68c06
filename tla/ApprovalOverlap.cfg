SPECIFICATION Spec
CONSTANTS
  p1 = p1  p2 = p2  t1 = t1  v0 = v0  v1 = v1  v2 = v2  global = global
  Proposals = {p1, p2}
  Targets = {t1}
  Values = {v0, v1, v2}
  Scopes = {global}
  TargetOf <- MCTargetOf
  CurrentValue <- MCCurrentValue
  TargetValue <- MCTargetValue
  ScopesOf <- MCScopesOf
  SnapshotSourced = {p1}
  UseState = UseState
  Adapters <- MCCrashAdapters
  InitialTargets <- MCStartAtCurrent
  NoKey = NoKey
  Window = 1
  UsageHorizon = 0
  MaxClock = 0
  Callers = {c1, c2}
  Approvals = {a1, a2}
  Operators = {}
  NoApproval = NoApproval
  ExclusiveCalls = FALSE
  Faults = {"crash", "storage"}
INVARIANTS OneUnresolved AtMostOneWrite WriteIsAuthorised
PROPERTIES TerminalIsFinal
