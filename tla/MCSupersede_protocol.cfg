SPECIFICATION FairSpec
CONSTANTS
  U64Max = 4
  MaxMints = 4
  MayPanic = TRUE
INVARIANTS TypeOK NewestIsNeverDropped InDispatchOrder
PROPERTIES SwapsOnlyTheNewest EventuallyFresh DropEndsWorker
CHECK_DEADLOCK FALSE
