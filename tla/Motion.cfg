SPECIFICATION FairSpec
CONSTANTS
  Half = 8
  Turn = 3
  Tolerance = 1
  Speed = 3
  Limits <- MCLimits
  Lanes = {1, 2}
  Places = {0, 2, 4}
  Quads <- MCQuads
  Legs <- MCLegs
  Poses <- MCPoses
  ThetaBound = 8
  Free = Free
INVARIANTS
  TypeOK
  AgreesWithHalfPlanes
  HalvesMakeTheWhole
PROPERTIES
  EntersAligned
  TurnsToTheEnd
  SlowInZone
  LegShortens
  LegEnds
CHECK_DEADLOCK FALSE
