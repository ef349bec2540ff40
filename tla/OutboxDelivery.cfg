CONSTANTS
  e1 = e1
  Events = {e1, e2, e3}
  Name <- UserEvents
  Setup <- UserHandlers
  Malformed = {e3}
  Passes = {p1}
  Limit = 2
  Ordered = FALSE
  ConsumerReady = TRUE
  Restarts = FALSE
  LossyStops = FALSE
  BrokerCloses = FALSE
  Requeues <- EsProxy
  MaxFaults = 2
SPECIFICATION FairSpec
INVARIANT ProcessedIsPublished
PROPERTY DeliverySpec
CHECK_DEADLOCK FALSE
