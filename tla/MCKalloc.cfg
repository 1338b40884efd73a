SPECIFICATION Spec
CONSTANTS
  t1 = t1
  t2 = t2
  t3 = t3
  f1 = f1
  f2 = f2
  Threads <- MCThreads
  Frames <- MCFrames
  Data = {d1}
  NoFrame = NoFrame
  NoThread = NoThread
  JunkFree = JunkFree
  JunkAlloc = JunkAlloc
  RcMax = 3
INVARIANTS
  CountsInv
  FreelistExact
  NoPanic
  FillIsExclusive
  OneStaysOne
PROPERTIES
  ContentChangesAlone
  ImplementsFrameRefs
