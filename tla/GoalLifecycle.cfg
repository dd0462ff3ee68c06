SPECIFICATION Spec
CONSTANTS
  c1 = c1
  c2 = c2
  g1 = g1
  g2 = g2
  Nobody = Nobody
  Principals = {"approver", "issuer"}
  Approver = "approver"
  MandateIssuer = "issuer"
  Bindings <- PlansOf
  Callers = {c1, c2}
  Goals = {g1, g2}
  Reservations = {"x1", "x2"}
  ReservationOf <- OwnReservations
  Signatures = {"s1"}
  SignatureOf <- OneEvent
  Authorities = {"a1", "a2", "a3", "a4"}
  Proposed <- ProposedAuthorities
  Quota <- Quotas
  TimesOut = {"creation", "publication"}
  MaxDisturbances = 1
SYMMETRY AllCallers
CHECK_DEADLOCK FALSE
INVARIANTS OneGoalPerEvent NoLostTarget PageIsStack CleanedIsGone
PROPERTIES TargetsFollowHumans
