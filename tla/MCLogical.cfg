CONSTANTS
  hda = hda
  mbr = mbr  logical = logical  zero = zero
  Thread = {t1}
  Boot = Boot
  Drives <- MCDrives
  Hardware <- MCHardware
  Contents <- MCContents
  Tables <- MCTables
  Value = {}
  GB = 6
  MaxSector = 7
  MaxDepth = 3
  MaxRequests = 0
  MayFail = TRUE
  Nobody = Nobody  NoDrive = NoDrive  NoRequest = NoRequest
  Pending = Pending  Written = Written
SPECIFICATION DiskSpec
INVARIANT LogicalFound
CHECK_DEADLOCK FALSE
