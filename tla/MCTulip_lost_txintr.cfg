CONSTANTS
  RxRingSize = 2
  TxRingSize = 4
  Width = 3
  PoolSize = 3
  Frames = 4
  MaxWork = 2
  MaxArrivals = 3
SPECIFICATION Spec
PROPERTY TxQueueWakes
CHECK_DEADLOCK FALSE
