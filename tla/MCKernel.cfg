\* At most three boots.
CONSTANTS
  hda = hda  hdb = hdb
  mbr = mbr  mbr2 = mbr2
  t1 = t1  t2 = t2
  v0 = v0  v1 = v1
  Thread = {t1, t2}
  Boot = Boot
  Drives <- MCDrives
  Hardware <- MCHardware
  Contents <- MCContents
  Tables <- MCTables
  Value = {v0, v1}
  GB = 6
  MaxSector = 7
  MaxDepth = 3
  MaxRequests = 3
  MayFail = TRUE
  Nobody = Nobody  NoDrive = NoDrive  NoRequest = NoRequest
  Pending = Pending  Written = Written

  NameWidth = 6
  NumberWidth = 5
  ULONG_MAX = 2047
  INT_MAX = 255
  SectorSize = 2
  ScratchSize = 7
  NameMax = 4
  Devices <- MCDevs
  Sessions <- MCSessions
  FirstFiles <- MCFirstFiles
  Kept = Kept
  None = None
  MaxBoots = 2

  Machines <- MCMachines
  Signature = 43605
  PintosType = 32
  Active = 128
  Cap = 4
  Half = 8
  FirstKb = 4
  PageKb = 4
  TableSlots = 2
  LowTables = 2
  FirstTable = 10
  PhysTable = 4
  TextPages = {1}
  Unmapped = Unmapped

  Sleeper = {t1, t2}
  Never = Never
  Dates <- MCDates
  MaxUpdates = 3
  Speeds = {5, 13, 20, 33}
  FirstBits = 3
  UnsignedMax = 64
  TIMER_FREQ = 3
  Kilo = 2
  Amounts <- MCAmounts
  HalfWord = 2
  MaxTicks = 4
  BeepTime = 1
  PIT_HZ = 100
  Byte = 4
  LowestFreq = 7
  Frequencies = {1, 6, 7, 8, 12, 33, 51, 99, 100, 101, 150}
  Tone = 8

  KernelBase = 12
  StackWords = {6, 7, 8, 9, 10, 11}
  Pointers = {3, 9, 11}
  Direct = {"wait", "pibo", "sum4", "mmap", "exit"}
  Invocations <- MCInvocations
  FileAt <- MCFileAt
  FirstContent <- MCFirstContent
  Room = 2
  LastFd = 4
  UIntMax = 16
  KernelWord = KernelWord
  Answers <- MCAnswers
  MaxInvocations = 3
  Nothing = Nothing
SPECIFICATION MCSpec
INVARIANTS PartitionsFound PutExact ArchivesKept BootExact ClockExact CallsRelayed
PROPERTY ImplementsBlockStore
CHECK_DEADLOCK FALSE
