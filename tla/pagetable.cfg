SPECIFICATION Spec
CONSTANTS
  NFrames = 26
  Fan = 4
  PGSIZE = 2
  NPROC = 2
  Programs <- Files
  Texts <- AllTexts
  TextA = TextA
  TextB = TextB
  Initcode = Initcode
  Args = Args
  Stored = Stored
  Out = Out
  Zero = Zero
  Junk = Junk
  UintMod = 64
  SbrkArgs <- SbrkSizes
  OutPages <- BufferPages
  BasePages <- ScanBases
  PageCounts <- ScanLengths
  MaskBits = 2
  LoadPages <- ReadPages
  StorePages = {0}
  MaxUser = 2
  MaxSz = 10
  Absent = Absent
  NoSpace = NoSpace
INVARIANTS
  NoPanic
  MemoryInv
  TableShape
  UsyscallHoldsPid
  AccessExact
  VmprintShowsMappings
PROPERTIES
  ImplementsAddressSpaces
