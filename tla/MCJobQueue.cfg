\* Four job items, two kinds of payload, and the fairness of FairSpec.  After jerry_cleanup the engine is
\* down and nothing follows, hence no deadlock check.
SPECIFICATION FairSpec
CONSTANTS
  Block = {b1, b2, b3, b4}
  Null = Null
  Garbage = Garbage
  Payload = {j1, j2}
  None = None
INVARIANTS
  ListShape
  Ownership
PROPERTIES
  RunOutcome
  ImplementsFifo
  JobReached
CHECK_DEADLOCK FALSE
