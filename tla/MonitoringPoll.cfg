SPECIFICATION Spec
CONSTANTS
  s1 = s1  s2 = s2  s3 = s3  x = x  y = y
  Pollers = {c1, c2}
  Snapshots = {s1, s2, s3}
  Contents = {b1, b2}
  Reasons = {high_cpa}
  SeriesOf <- MCSeriesOf
  Interval = 2
  Lease = 1
  Freshness = 0
  Quiet = 1
  NoTime = NoTime
  NoSnapshot = NoSnapshot
  MaxClock = 2
  MaxClaims = 3
PROPERTIES PollsSpaced LatestClaimPersists ProposalsJudged
