SPECIFICATION SFairSpec
CONSTANTS
  main = main
  Idle = Idle
  NoThread = NoThread
  Thread = {main, Idle, t1, t2}
  TIME_SLICE = 1
  Sema = {start_idle, s1}
  start_idle = start_idle
  IntrSema = {s1}
  l1 = l1
  Lock = {l1}
  Cond = {c1}
  lock_of <- LockOf
  NoSema = NoSema
  MaxValue = 1
INVARIANTS RunQueueExact NoLostWakeup LockOwned
PROPERTIES TSpec ImplementsMonitor UnitsAreTaken
