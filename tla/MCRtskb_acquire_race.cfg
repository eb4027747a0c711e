CONSTANTS
  b1 = b1  b2 = b2  b3 = b3  b4 = b4
  DevPool = DevPool  ProtoPool = ProtoPool  CapPoolMV = CapPoolMV
  None = None
  Buf <- MCBuf
  Pools <- MCPools
  CapPool <- CapPoolMV
  InitQueue <- MCInitQueue
  RTCAP = TRUE
  MapCanFail = FALSE
  CaptureChainHeads = FALSE
  MixedChains = TRUE
  MaxExtend = 1
SPECIFICATION Spec
CONSTRAINT BalanceBound
INVARIANT BalanceAtRest
