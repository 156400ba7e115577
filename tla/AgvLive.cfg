SPECIFICATION FairSpec
CONSTANTS
  OrderMsgs <- StitchedOrders
  NoOrder = NoOrder
  Actions <- MCActions
  Place <- MCPlace
  Rejected = {"scan"}
  Cancels = {"c1"}
  NoCancel = NoCancel
  Timers = {}
  Holding = {"pick", "wait"}
  Retriable = {"pick", "horn"}
  Waiters = {"wait"}
  MayFail = {}
  TriggerIds = {"wait"}
  Injected = {"field", "service", "error"}
  Legacy = FALSE
  Duration = 1
  TravelTicks = 2
  FaultTicks = 1
  Horizon = 1
PROPERTIES
  CancelTakesEffect
  ActionsEnd
  RouteCompletes
CHECK_DEADLOCK FALSE
