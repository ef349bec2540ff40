CONSTANTS
  Users = {u1, u2}
  Cohorts = {c1}
  Workshop <- OneWorkshop
  Offers <- PaidOffer
  Edits <- CapacityEdits
  Requests = {r1, r2}
  Asks <- AnyoneAsks
  Handlers = {h1, h2}
  Admins = {a1}
  Deletable = {}
  Outcomes = {"succeeded"}
  MaxMemberships = 2
  ReservationTtl = 1
  MaxTime = 1
  Faulty = FALSE
  SlowHandlers = FALSE
  u1 = u1
  u2 = u2
  c1 = c1
  c2 = c2
  w1 = w1
SPECIFICATION Spec
INVARIANTS TypeOK PaidWithinPeak SettledSuccessRemains SnapshotsHold
PROPERTY GrantedFromReservation
SYMMETRY Interchangeable
CHECK_DEADLOCK FALSE
