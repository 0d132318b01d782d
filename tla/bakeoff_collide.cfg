SPECIFICATION PartsSpec
CONSTANTS
  Subjects = {"bakeoff"}
  Matrices <- SharedKeys
INVARIANTS BestIsRecommended
CHECK_DEADLOCK FALSE
