CONSTANTS
  Users = {u1, u2}
  Cohorts = {c1}
  Workshop <- OneWorkshop
  Offers <- PaidSoon
  Edits <- NoEdits
  Requests = {r1, r2}
  Asks <- AnyoneAsks
  Handlers = {h1}
  Admins = {a1}
  Deletable = {}
  Outcomes = {"succeeded", "failed", "refunded"}
  MaxMemberships = 2
  ReservationTtl = 1
  MaxTime = 2
  Faulty = FALSE
  SlowHandlers = TRUE
  u1 = u1
  u2 = u2
  c1 = c1
  c2 = c2
  w1 = w1
SPECIFICATION Spec
PROPERTY SuccessNotDropped
SYMMETRY Interchangeable
CHECK_DEADLOCK FALSE
