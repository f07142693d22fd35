SPECIFICATION Spec
CONSTANT Sessions <- AllSessions
CHECK_DEADLOCK FALSE
INVARIANT CurvesStandOnPoints
PROPERTIES NothingElseVanishes EditsSettle
