SPECIFICATION Spec
CONSTANTS
  OrderMsgs <- StitchedOrders
  NoOrder = NoOrder
  Actions <- MCActions
  Place <- MCPlace
  Rejected = {"scan"}
  Cancels = {"c1"}
  NoCancel = NoCancel
  Timers = {"charge"}
  Holding = {"horn", "wait", "charge"}
  Retriable = {"pick", "horn"}
  Waiters = {"wait"}
  MayFail = {"charge"}
  TriggerIds = {"pick", "wait"}
  Injected = {"field", "service", "estop", "error"}
  Legacy = FALSE
  Duration = 1
  TravelTicks = 2
  FaultTicks = 1
  Horizon = 1
INVARIANTS
  TypeOK
  PausedOnlyWhilePaused
  QuietWithoutOrder
  HibernatingIsQuiet
  OrderActionsHaveState
  RemainingIsAhead
PROPERTIES
  MotionIsPermitted
  DepartsOnlyWhenDone
  RouteAdvances
  ImplementsContract
  ImplementsModes
CHECK_DEADLOCK FALSE
