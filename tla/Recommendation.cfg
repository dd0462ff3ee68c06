SPECIFICATION Spec
CONSTANTS
  NA = NA
  Limits <- MCLimits
  Callers = {c1, c2}
  Timing <- MCTiming
  Offsets <- MCOffsets
  Trusted <- MCTrusted
  Reads <- MCReads
  Sessions <- MCSessions
  Limit = 2
  Reserved = 1
  Lifetime = 1
  MaxTime = 1
  Torn = Torn
  Nobody = Nobody
SYMMETRY Symmetry
INVARIANTS CostBounded ActiveIsReadable OneAdvice ReadyIsSupported
