SPECIFICATION Spec
CONSTANTS
  Drops = TRUE
  Mqtt = TRUE
INVARIANTS
  CleanShutdownIsOffline
CHECK_DEADLOCK FALSE
