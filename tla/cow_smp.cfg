SPECIFICATION Spec
CONSTANTS
  Procs = {p1, p2}
  Frames = {f1, f2, f3}
  MaxSz = 2
  InitSz = 2
  NCPU = 2
  OutPages <- AllPages
  GuardPages = {0}
  Data = {d0}
  Zero = d0
  JunkFree = JunkFree
  JunkAlloc = JunkAlloc
  NoFrame = NoFrame
  NoProc = NoProc
  InitProc = InitProc
  Absent = Absent
  NoSpace = NoSpace
  RcMax = 3
SYMMETRY Symmetry
INVARIANTS
  CowInv
  WritableIsPrivate
  CountsNeverPanic
CHECK_DEADLOCK FALSE
