SPECIFICATION Spec
CONSTANTS
  Procs = {p1, p2}
  Frames = {f1, f2, f3}
  MaxSz = 2
  InitSz = 1
  NCPU = 1
  OutPages <- AllPages
  GuardPages = {}
  Data = {d0}
  Zero = d0
  JunkFree = JunkFree
  JunkAlloc = JunkAlloc
  NoFrame = NoFrame
  NoProc = NoProc
  InitProc = InitProc
  Absent = Absent
  NoSpace = NoSpace
  RcMax = 3
SYMMETRY Symmetry
INVARIANT
  PagesPresent
CHECK_DEADLOCK FALSE
