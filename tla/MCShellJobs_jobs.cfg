SPECIFICATION FairSpec
CONSTANTS
  Groups = 2
  THUMBNAILS_PER_FRAME = 1
  MayPanic = TRUE
  MaxMoves = 1
  MaxExports = 2
  MaxFolders = 1
  Unmeasured = Unmeasured
  None = None
INVARIANTS NoExportIsDropped CleanExitLosesNothing TornIsRecoverable
PROPERTIES DeferredCloseEnds ReadoutSettles ScanSettles
CHECK_DEADLOCK FALSE
