SPECIFICATION Spec
CONSTANTS
  Keys = {1, 2, 3}
  Capacity = 2
  DiskFails = FALSE
  Contents = {Air, Stone}
  Densities = {1}
  Origins = {0}
  Regions <- Runs
  Nothing = Nothing
  Garbled = Garbled
  MaxEnds = 0
  NoFrame = NoFrame
  NoWalk = NoWalk
  NoAsk = NoAsk
  NoReply = NoReply
INVARIANTS RegionIsWhole
