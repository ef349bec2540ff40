SPECIFICATION Spec
CONSTANTS
  Calls = {k1, k2}
  Cohorts = {c1, c2}
  Schedules <- SixSchedules
  StartDates = {2, 9, 10}
  StartTimes = {1}
  MaxEdits = 3
  k1 = k1
  k2 = k2
  c1 = c1
  c2 = c2
SYMMETRY Interchangeable
CHECK_DEADLOCK FALSE
INVARIANTS TypeOK OfferedAsPublished SessionsOnTime
