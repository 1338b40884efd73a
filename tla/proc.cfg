SPECIFICATION FairSpec
CONSTANTS
  NPROC = 3
  NCPU = 2
  Wrap = 1
  SleepFor = {}
  Killers = {}
  KillPids = {}
INVARIANTS
  ZombieIsSeen
  TableInv
PROPERTIES
  OrphanIsReaped
  WaitLockIsReleased
