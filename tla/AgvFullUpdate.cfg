SPECIFICATION Spec
CONSTANTS
  OrderMsgs <- FullOrders
  NoOrder = NoOrder
  Actions <- MCActions
  Place <- MCPlace
  Rejected = {"scan"}
  Cancels = {"c1"}
  NoCancel = NoCancel
  Timers = {}
  Holding = {"pick", "horn", "wait"}
  Retriable = {"pick"}
  Waiters = {"wait"}
  MayFail = {}
  TriggerIds = {"wait"}
  Injected = {}
  Legacy = FALSE
  Duration = 1
  TravelTicks = 2
  FaultTicks = 1
  Horizon = 1
INVARIANTS
  RemainingIsAhead
CHECK_DEADLOCK FALSE
