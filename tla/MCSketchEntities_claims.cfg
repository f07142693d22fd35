SPECIFICATION Spec
CONSTANTS
  Sessions <- RoundSession
INVARIANT NoClaimOutlivesItsSubject
CHECK_DEADLOCK FALSE
