SPECIFICATION FairSpec
CONSTANTS
  NPROC = 2
  NCPU = 2
  Wrap = 2
  SleepFor = {1}
  Killers = {0, 1}
  KillPids = {}
INVARIANTS
  TickIsSeen
  TableInv
PROPERTIES
  KilledDies
