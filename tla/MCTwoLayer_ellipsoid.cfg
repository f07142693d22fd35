CONSTANTS
  Producers = {"big", "edge", "far", "cloud", "rod", "long"}
  Kind <- MCKind
  Box <- MCBox
  Field <- MCField
  SemiAxes <- MCSemiAxes
  Gauge <- MCGauge
  Proven <- MCProven
  Material <- MCMaterial
  OwnId <- MCOwnId
  Overlay <- MCOverlay
  Fixtures <- MCFixtures
  FixtureOp = "union"
  Density = 2
  ChunkBlocks = 2
  MaxNodes = 2
  MaxPlacements = 2
  NoMaterial = NoMaterial
  Empty = Empty
  Nothing = Nothing
SPECIFICATION Spec
INVARIANT FastPathIsIdentical
CHECK_DEADLOCK FALSE
