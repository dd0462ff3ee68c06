SPECIFICATION Spec
CONSTANTS
  p1 = p1  p2 = p2  p3 = p3  m1 = m1  m2 = m2
  v0 = v0  v1 = v1  v2 = v2  global = global  k1 = k1  k2 = k2
  Proposals = {p1, p2, p3}
  Targets = {p1, p2, p3}
  Values = {v0, v1, v2}
  Scopes = {global}
  TargetOf <- MCTargetOf
  CurrentValue <- MCCurrentValue
  TargetValue <- MCTargetValue
  ScopesOf <- MCScopesOf
  SnapshotSourced = {}
  UseState = UseState
  Adapters <- MCAdapters
  InitialTargets <- MCStartAtCurrent
  NoKey = NoKey
  Window = 1
  UsageHorizon = 0
  MaxClock = 2
  Callers = {"c1", "c2"}
  Mandates = {m1, m2}
  NoMandate = NoMandate
  Binds <- MCBindsAll
  Expiry <- MCLateExpiry
  Limits <- MCTightLimits
  Exposure <- MCExposure
  Step <- MCStep
  CampaignOf <- MCCampaignOf
  Day = 2
  Sessions <- MCSessions
INVARIANTS QuotaHeld AtMostOneWrite
PROPERTIES OnlyRecheckRewrites ImplementsSingleWriter
