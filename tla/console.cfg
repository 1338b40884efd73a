SPECIFICATION FairSpec
CONSTANTS
  Threads = {t1, t2}
  Bits = 6
  Nibbles = 2
  PGSIZE = 8
  Calls <- SomeCalls
  Messages <- SomeMessages
  Stacks <- SomeStacks
  Null = Null
  Nobody = Nobody
INVARIANTS
  LinesWhole
  LockInv
  NumbersReadBack
  BacktraceExact
PROPERTIES
  PanicIsSeen
CHECK_DEADLOCK FALSE
