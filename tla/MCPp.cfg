\* Strings up to twice the buffer, so that it is filled once and twice.  A call
\* ends, hence no deadlock check.
SPECIFICATION PpSpec
CONSTANTS
  Size = 2
  MaxPrinted = 2
  MaxLength = 4
  Char = {a, b, nul}
  Nul = nul
INVARIANTS
  NothingLost
CHECK_DEADLOCK FALSE
