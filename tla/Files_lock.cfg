CONSTANTS
  Proc = {m, q}
  main = m
  Name = {a}
  first = a
  OnDisk <- OneProgram
  Serial = TRUE
  Obj = {1, 2}
  MaxFd = 3
  Slots = 1
  LastSector = 3
  MaxLen = 0
  MaxLost = 2
  NoProc = NoProc  NoName = NoName  NoObj = NoObj  NoFile = NoFile
  NoInode = NoInode  NoEntry = NoEntry  Unread = Unread
SPECIFICATION FSpec
CHECK_DEADLOCK FALSE
INVARIANT LockNotHeldByCaller
