CONSTANTS
  main = main  worker = worker  user = user
  r1 = r1  r2 = r2
  Printer = {main, worker, user}
  InSyscall = {user}
  Reader = {r1, r2}
  Main = main
  Line <- MCLine
  PanicLine <- MCPanicLine
  RebootLine <- MCRebootLine
  TXSIZE = 3
  INSIZE = 2
  COL_CNT = 2
  ROW_CNT = 2
  Codes <- MCCodes
  Bytes = {120}
  MayPanic = TRUE
  NoThread = NoThread
  NoChar = NoChar

  Initial = initial
  Idle = idle_thread
  KThread = {initial, idle_thread, p}
  Dir = {d1}
  InitDir = {d1}
  Irq = {0, 7, 14}
  TIME_SLICE = 2
  TickSpan = 2
  NoDir = NoDir

  BUFSIZ = 2
  Input <- MCInput
  MaxSaid = 3
  QueueSize = 1
  MaxCalls = 2
SPECIFICATION MCSpec
INVARIANTS OutputExact InputExact InterruptsExact RelayExact
PROPERTIES AllPrinted TimeGoesOn EndsAfterDeath
CHECK_DEADLOCK FALSE
