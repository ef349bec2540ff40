CONSTANTS
  Members = {m1, m2}
  Calls = {k1, k2}
  Hooks = {w1, w2}
  MaxSessions = 3
  MaxCrashes = 1
  DelayedMethods = FALSE
  IntentAtCreation = FALSE
  Overlap = FALSE
SPECIFICATION FairSpec
PROPERTIES LifecycleSpec CaptureIsPublished
CHECK_DEADLOCK FALSE
