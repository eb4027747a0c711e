CONSTANTS
  RxRingSize = 2
  TxRingSize = 4
  Width = 3
  PoolSize = 3
  Frames = 4
  MaxWork = 2
  MaxArrivals = 3
SPECIFICATION Spec
INVARIANTS TypeOK BuffersAccounted RxRingSound TxRingSound
PROPERTIES RxRingRefilled
CHECK_DEADLOCK FALSE
