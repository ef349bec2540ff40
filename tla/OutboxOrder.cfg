CONSTANTS
  e1 = e1
  Events = {e1, e2}
  Name <- Published
  Setup <- WorkshopHandler
  Malformed = {}
  Passes = {p1, p2}
  Limit = 2
  Ordered = TRUE
  ConsumerReady = FALSE
  Restarts = TRUE
  LossyStops = TRUE
  BrokerCloses = TRUE
  Requeues <- EsProxy
  MaxFaults = 2
SPECIFICATION Spec
INVARIANTS TypeOK CausalOrder
SYMMETRY InterchangeablePasses
CHECK_DEADLOCK FALSE
