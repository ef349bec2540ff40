CONSTANTS
  Users = {u1, u2}
  Cohorts = {c1}
  Workshop <- OneWorkshop
  Offers <- PaidSoon
  Edits <- NoEdits
  Requests = {r1}
  Asks <- AnyoneAsks
  Handlers = {h1, h2}
  Admins = {a1}
  Deletable = {c1}
  Outcomes = {"succeeded", "failed", "refunded"}
  MaxMemberships = 1
  ReservationTtl = 1
  MaxTime = 2
  Faulty = TRUE
  SlowHandlers = TRUE
  u1 = u1
  u2 = u2
  c1 = c1
  c2 = c2
  w1 = w1
SPECIFICATION Spec
INVARIANTS ActiveIsPaid
SYMMETRY Interchangeable
CHECK_DEADLOCK FALSE
