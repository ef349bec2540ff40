CONSTANTS
  Members = {m1, m2}
  Calls = {k1, k2}
  Hooks = {w1, w2}
  MaxSessions = 3
  MaxCrashes = 1
  DelayedMethods = TRUE
  IntentAtCreation = TRUE
  Overlap = TRUE
SPECIFICATION Spec
INVARIANTS TypeOK OutboxMatchesRow RowAgreesWithStripe SharedSessionIsKnown InFlightHolds
SYMMETRY Interchangeable
CHECK_DEADLOCK FALSE
