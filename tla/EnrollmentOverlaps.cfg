CONSTANTS
  Users = {u1, u2, u3}
  Cohorts = {c1, c2, c3}
  Workshop <- OneWorkshop
  Offers <- BackToBack
  Edits <- Moved
  Requests = {r1, r2}
  Asks <- AnyoneAsks
  Handlers = {}
  Admins = {a1, a2}
  Deletable = {}
  Outcomes = {}
  MaxMemberships = 3
  ReservationTtl = 1
  MaxTime = 1
  Faulty = FALSE
  SlowHandlers = TRUE
  u1 = u1
  u2 = u2
  c1 = c1
  c2 = c2
  w1 = w1
SPECIFICATION Spec
INVARIANTS HeldBounded SeatsBounded ClashesBounded
SYMMETRY AllInterchangeable
CHECK_DEADLOCK FALSE
