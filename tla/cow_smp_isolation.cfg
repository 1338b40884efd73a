SPECIFICATION Spec
CONSTANTS
  Procs = {p1, p2}
  Frames = {f1, f2, f3}
  MaxSz = 1
  InitSz = 1
  NCPU = 2
  OutPages = {}
  GuardPages = {}
  Data = {d0, d1}
  Zero = d0
  JunkFree = JunkFree
  JunkAlloc = JunkAlloc
  NoFrame = NoFrame
  NoProc = NoProc
  InitProc = InitProc
  Absent = Absent
  NoSpace = NoSpace
  RcMax = 3

PROPERTY
  ImplementsAddressSpaces
CHECK_DEADLOCK FALSE
