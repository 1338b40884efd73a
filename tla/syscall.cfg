SPECIFICATION Spec
CONSTANTS
  NPROC = 3
  NPages = 5
  PagesPerProc = 2
  Masks = {{}, {"fork", "trace"}}
  NoLine = NoLine
INVARIANTS
  TracedAsAsked
  FreememExact
  NprocBounded
  PagesInv
