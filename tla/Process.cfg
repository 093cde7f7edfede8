CONSTANTS
  main = main
  Page = {main, p1, p2, p3}
  NoPage = NoPage
  MaxTid = 4
  ExitStatus = {7}
  BadImage = TRUE
  Killable = TRUE
  OutOfMemory = TRUE
SPECIFICATION PFairSpec
CHECK_DEADLOCK FALSE
INVARIANTS NoUseAfterFree WaitReturnsStatus ExecAwaitsLoad
PROPERTIES WaitOnce CallsReturn
