\* All four routines, up to three elements of both shapes, two values.
SPECIFICATION FairSpec
CONSTANTS
  Routine = {"all", "allSettled", "any", "race"}
  Shape = {"promise", "thenable"}
  Value = {u, v}
  Hole = Hole
  Float = Float
  Broken = Broken
  MaxElements = 3
INVARIANTS
  RemainingCounts
  CompleteResult
  NobodyWaits
PROPERTIES
  EntriesFixed
  PromisesSettle
CHECK_DEADLOCK FALSE
