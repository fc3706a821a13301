CONSTANTS
  Parts = {"mutex", "semaphore", "waitgroup", "park"}
  Task = {t1, t2}
  OsThread = {o1, o2}
  NoProc = NoProc
  Permits = 2
  Delta <- StartTasks
  MaxCount = 2
SPECIFICATION LocksSpec
INVARIANTS
  TypesOK
  MutualExclusion
  WaiterCovered
  PermitsKept
  NobodyLeft
PROPERTIES
  LockProgress
  AcquireProgress
  WaitReturns
  NotifyWakes
CHECK_DEADLOCK FALSE
