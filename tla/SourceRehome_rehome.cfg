SPECIFICATION FairSpec
CONSTANTS
  a = a b = b
  Cells = {a, b}
  Movers = {a}
  MaxAttempts = 2
  MaxMoves = 2
  MaxFaults = 2
  Faults = {"probe", "reply", "late", "store", "crash"}
INVARIANTS OneWriter ServedIsHomed
PROPERTIES SourceSurvives CollisionIsReported HomedIsProjected
CHECK_DEADLOCK FALSE
