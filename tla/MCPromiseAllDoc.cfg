\* Promise.allSettled of two elements that call both functions they are given.
SPECIFICATION Spec
CONSTANTS
  Routine = {"allSettled"}
  Shape = {"promise", "thenable"}
  Value = {u}
  Hole = Hole
  Float = Float
  Broken = Broken
  MaxElements = 2
INVARIANTS
  RemainingIsInteger
CHECK_DEADLOCK FALSE
