CONSTANTS
  Proc = {m, q}
  main = m
  Name = {a, b}
  first = a
  OnDisk <- OneProgram
  Serial = FALSE
  Obj = {1, 2}
  MaxFd = 3
  Slots = 3
  LastSector = 5
  MaxLen = 0
  MaxLost = 1
  NoProc = NoProc  NoName = NoName  NoObj = NoObj  NoFile = NoFile
  NoInode = NoInode  NoEntry = NoEntry  Unread = Unread
SPECIFICATION FSpec
CHECK_DEADLOCK FALSE
INVARIANT NamesUnique
