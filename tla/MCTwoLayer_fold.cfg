CONSTANTS
  Producers = {"big", "edge", "far", "cloud", "rod", "long"}
  Kind <- MCKind
  Box <- MCBox
  Field <- MCField
  SemiAxes <- MCSemiAxes
  Gauge <- MCGauge
  Proven <- MCProven
  Material <- MCMaterial
  OwnId <- MCOwnId
  Overlay <- MCOverlay
  Fixtures <- MCFixtures
  FixtureOp = "union"
  Density = 2
  ChunkBlocks = 2
  MaxNodes = 4
  MaxPlacements = 1
  NoMaterial = NoMaterial
  Empty = Empty
  Nothing = Nothing
SPECIFICATION Spec
INVARIANTS
  FoldIsSound
  BuiltIsDense
  FastPathIsTheSweep
CHECK_DEADLOCK FALSE
