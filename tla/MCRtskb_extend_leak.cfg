CONSTANTS
  b1 = b1  b2 = b2  b3 = b3  b4 = b4
  DevPool = DevPool  ProtoPool = ProtoPool  CapPoolMV = CapPoolMV
  None = None
  Buf <- MCBuf
  Pools <- MCPools
  CapPool <- CapPoolMV
  InitQueue <- MCInitQueue
  RTCAP = FALSE
  MapCanFail = TRUE
  CaptureChainHeads = FALSE
  MixedChains = FALSE
  MaxExtend = 1
SPECIFICATION Spec
CONSTRAINT BalanceBound
INVARIANT OwnedOnce
