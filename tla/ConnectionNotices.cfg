CONSTANTS
  Users = {u1, u2}
  Answers = {r1, r2}
  MaxEvents = 3
  Jobs = {j1, j2}
  MaxRelays = 2
  MaxCalls = 2
  MaxFaults = 1
  PageLimits = {1}
SPECIFICATION Spec
INVARIANTS TypeOK AcceptedByBoth OutboxTellsFate CounterAddsUp CacheFollows EveryEventTold PagesMissBoundaries
SYMMETRY Interchangeable
CHECK_DEADLOCK FALSE
