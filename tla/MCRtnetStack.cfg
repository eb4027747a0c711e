CONSTANTS
  c1 = c1
  c2 = c2
  NoOwner = NoOwner
  d1 = d1  r1 = r1  r2 = r2  Dev = Dev  Cfg = Cfg  s1 = s1  s2 = s2
  None = None
SPECIFICATION Spec
INVARIANTS TypeOK IoctlRefsCounted DevRefsHeld AttachConsistent UpMeansOpen UnloadedHoldsNothing RxInLiveModule BuffersAccounted CfgDevRefsHeld CallObjectsOwned LockHeldWhileLoading
PROPERTIES UnregisterCompletes RxQueueDrains Stage2Refinement TransferCompletes
CHECK_DEADLOCK FALSE
