\* Two async functions, which may await each other, and a promise; no symmetry,
\* for the sake of the liveness properties.
SPECIFICATION FairSpec
CONSTANTS
  Promise = {p1, x1, x2}
  AsyncFn = {x1, x2}
  Thenable = {t}
  Undefined = undefined
  TypeError = typeError
  Plain = {undefined, typeError}
  None = None
  Foreign = Foreign
  MaxCalls = 5
INVARIANTS
  ResumedOnce
PROPERTIES
  AwaitEnds
  ResolutionEnds
