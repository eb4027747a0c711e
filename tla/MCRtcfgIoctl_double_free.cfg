CONSTANTS
  FileErrors = TRUE
  Timeouts = TRUE
  MaxCalls = 1
SPECIFICATION Spec
INVARIANT NoDoubleFree
