CONSTANTS
  Parts = {"waitgroup"}
  Task = {t1, t2}
  OsThread = {o1, o2}
  NoProc = NoProc
  Permits = 2
  Delta <- WithCorrection
  MaxCount = 2
SPECIFICATION LocksSpec
PROPERTIES
  WaitReturns
CHECK_DEADLOCK FALSE
