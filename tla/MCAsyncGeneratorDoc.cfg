\* One request is enough to throw into an inner iterator.
SPECIFICATION Spec
CONSTANTS
  MaxRequests = 2
INVARIANTS
  OneException
