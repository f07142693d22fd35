SPECIFICATION Spec
CONSTANTS
  Keys = {1, 2, 3}
  Capacity = 2
  DiskFails = TRUE
  Contents = {Air, Stone}
  Densities = {1}
  Origins = {0, 8}
  Regions <- Runs
  Nothing = Nothing
  Garbled = Garbled
  MaxEnds = 1
  NoFrame = NoFrame
  NoWalk = NoWalk
  NoAsk = NoAsk
  NoReply = NoReply
SYMMETRY ContentSymmetry
INVARIANTS NoStaleChunk TiersStayBounded SmallRegionIsWhole
PROPERTIES ServesTheScene
