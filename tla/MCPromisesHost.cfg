\* Two promises of the script, one of the host and an async function; five operations of
\* script and host.
SPECIFICATION HostSpec
CONSTANTS
  Promise = {p1, p2, p3, x1}
  AsyncFn = {x1}
  Settleable = {p3}
  Thenable = {t}
  Undefined = undefined
  TypeError = typeError
  Plain = {undefined, typeError}
  None = None
  Foreign = Foreign
  MaxCalls = 5
INVARIANTS
  TypeOK
  OneResolution
  AlreadyResolved
  NoOrphan
PROPERTIES
  AssertedPending
SYMMETRY Symmetric
