SPECIFICATION Spec
CONSTANTS
  Chunks = {c1, c2}
  ASYNC_REBUILD_CHUNK_THRESHOLD = 1
  MaxEdits = 3
  MaxPanics = 0
  Toggles = {TRUE, FALSE}
  NoField = NoField
  NoJob = NoJob
SYMMETRY ChunkSymmetry
INVARIANTS NewestIsOfTheScene FlagsTellStaleness DeferredHandoverEnds
PROPERTIES NeverMixesTwoScenes DrawnStaysOrBecomesCurrent
