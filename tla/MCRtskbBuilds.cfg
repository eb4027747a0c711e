CONSTANTS
  b1 = b1  b2 = b2  b3 = b3  b4 = b4
  DevPool = DevPool  ProtoPool = ProtoPool  CapPoolMV = CapPoolMV
  None = None
SPECIFICATION Spec
CONSTRAINT BalanceBound
INVARIANT TypeOK
INVARIANT OwnedOnce
INVARIANT FreeInOwnPool
INVARIANT BalanceAtRest
