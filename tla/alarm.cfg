SPECIFICATION FairSpec
CONSTANTS
  Procs = {p1, p2}
  Intervals = {0, 2}
  Results = {0, 1}
  Values = {0, 1}
  Scratch = {}
  MaxSpent = 2
  HandlerMay = {}
INVARIANTS
  FiresOnTime
  AlarmInv
PROPERTIES
  NeverEarly
  ResumesRegisters
  AlarmKeepsFiring
