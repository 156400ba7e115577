SPECIFICATION Spec
CONSTANTS
  Places = {0, 1, 2, 3}
  Start = 0
  MapAt <- MCMapAt
  Routes <- MCRoutes
  Landings <- MCLandings
  Sets = {"aisle", "extra", "docks"}
  MapOf <- MCMapOf
  Zones <- MCZoneSet
  SetOf <- MCSetOf
  ZoneId <- OwnIds
  Kind <- MCKind
  Covers <- MCCovers
  Entry <- MCEntry
  Exit <- MCExit
INVARIANTS
  TypeOK
  ExitAfterEntry
PROPERTIES
  EntryIsPermitted
