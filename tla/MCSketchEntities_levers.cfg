SPECIFICATION Spec
CONSTANTS
  Sessions <- LeverSession
INVARIANT EveryFitPointHasItsLever
CHECK_DEADLOCK FALSE
