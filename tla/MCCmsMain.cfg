\* At most three arguments are accepted (MaxArgs counts the program name).  The
\* program ends, hence no deadlock check.
SPECIFICATION Spec
CONSTANTS
  MaxArgs = 4
  Job = {j}
  None = None
  MaxLines = 2
  MaxJobs = 3
INVARIANTS
  SuccessIsComplete
  ReferencesReturned
CHECK_DEADLOCK FALSE
