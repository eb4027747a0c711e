CONSTANTS
  c1 = c1
  c2 = c2
  Callers <- MCCallers
  MaxCalls = 2
SPECIFICATION Spec
INVARIANT IoctlInLiveModule
