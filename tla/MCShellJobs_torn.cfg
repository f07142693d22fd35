SPECIFICATION Spec
CONSTANTS
  Groups = 2
  THUMBNAILS_PER_FRAME = 1
  MayPanic = FALSE
  MaxMoves = 1
  MaxExports = 1
  MaxFolders = 1
  Unmeasured = Unmeasured
  None = None
INVARIANTS FinalPathIsComplete
CHECK_DEADLOCK FALSE
