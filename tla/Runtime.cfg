SPECIFICATION FairSpec
CONSTANTS
  Drops = TRUE
  Mqtt = TRUE
INVARIANTS
  TypeOK
  BrokenIsNotOnline
PROPERTIES
  SilentOnceTornDown
  ImplementsTopic
  HibernationAnnounced
  WakingAnnounced
  StateRequestAnswered
  FactsheetAnswered
  LossReported
CHECK_DEADLOCK FALSE
