SPECIFICATION Spec
CONSTANTS
  Maps = {"hall", "yard"}
  NoMap = NoMap
  StartMap = "hall"
  Versions <- MCVersions
  MapOf <- MCMapOf
  ZoneSets = {"zonesA", "zonesB"}
  Ids <- MCIds
  Op <- MCOp
  Target <- MCTarget
  NodeIds = {"use1", "useYard"}
  Orders <- MCOrders
  Pushes <- MCPushes
  Retriable = {"use1"}
  TriggerIds = {"get2"}
  Duration = 1
  Backlog = 2
  Budget = 3
INVARIANTS
  TypeOK
  OneVersionEnabled
  StatusOfStored
PROPERTIES
  OverlapOnlyByPush
  EnabledUntilReplaced
  EnableFollowsDownload
CHECK_DEADLOCK FALSE
