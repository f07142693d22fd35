SPECIFICATION FairSpec
CONSTANTS
  Chunks = {c1, c2}
  ASYNC_REBUILD_CHUNK_THRESHOLD = 1
  MaxEdits = 2
  MaxPanics = 1
  Toggles = {TRUE, FALSE}
  NoField = NoField
  NoJob = NoJob
PROPERTY EventuallyCurrent
