SPECIFICATION Spec
CONSTANTS
  r1 = r1
  r2 = r2
  p1 = p1
  p2 = p2
  NoOp = NoOp
  NoRow = NoRow
  Principals = {"approver", "issuer"}
  Approver = "approver"
  MandateIssuer = "issuer"
  Bindings <- PlanBindings
  Callers = {"c1", "c2"}
  Requests = {r1, r2}
  Reservations = {"x1"}
  ReservationOf <- OneReservation
  Plans = {p1, p2}
  Sessions <- MCSessions
SYMMETRY Interchangeable
CHECK_DEADLOCK FALSE
INVARIANTS SentOnce NoLostObject CompensatedIsGone WritesFollowApproval
PROPERTIES LaunchIsWhole
