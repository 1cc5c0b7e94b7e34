SPECIFICATION FairSpec
CONSTANTS
  Data = {d1, d2}
  ResetWord = d1
  Depth = 2
  CountWidth = 2
  SyncDepth = 2
INVARIANTS PointerOrder
PROPERTIES ImplementsFifo PushIsSeen FullIsReleased
