CONSTANTS
  d1 = d1  r1 = r1  r2 = r2  Dev = Dev  Cfg = Cfg  s1 = s1  s2 = s2
  None = None
  Buf <- MCBuf
  Pools <- MCPools
  InitQueue <- MCInitQueue
  DevPool <- Dev
  RtcfgPool <- Cfg
  NumRtskbs = 2
  Senders = {s1, s2}
  HdrCanFail = TRUE
SPECIFICATION Spec
INVARIANT ReleasedPoolStaysEmpty
