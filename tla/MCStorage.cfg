CONSTANTS
  Proc = {m, q}
  main = m
  second = q
  fileA = fileA  fileB = fileB
  Name = {fileA, fileB}
  first = fileA
  OnDisk <- OneProgram
  Serial = TRUE
  Obj = {1, 2, 3}
  MaxFd = 3
  Slots = 2
  LastSector = 5
  MaxLen = 1
  MaxLost = 1
  NoProc = NoProc  NoName = NoName  NoObj = NoObj  NoFile = NoFile
  NoInode = NoInode  NoEntry = NoEntry  Unread = Unread

  Thread = {t1, t2}
  NoThread = NoThread
  FreePages = 6
  user_page_limit = 2
  PageSize = 12
  Header = 3
  MinBlock = 4
  SizeT = 64
  Sizes = {3, 10}
  PageCounts = {1}
  Factors <- MCFactors
  Task = {p1, p2}
  PGSIZE = 40
  PTSPAN = 120
  PHYS_BASE = 240
  AddressSpace = 320
  KernelPages = {1, 2, 3, 4}
  UserPages = {1, 2, 3, 4}
  Programs <- MCPrograms
  Commands <- MCCommands
  BLANK = 1
  Absent = Absent
SYMMETRY Symmetry
SPECIFICATION MCSpec
INVARIANTS BlocksKept CrashSafe InodesExact DenyExact BooksExact PagesOwned ImageExact
PROPERTIES ImplementsAllocator
