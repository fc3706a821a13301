CONSTANTS
  Parts = {"tasks"}
  Worker = {w1}
  NoWorker = NoWorker
  Id = {b1, b2}
  OsThread = {o1}
  MaxGen = 0
  Migrate = FALSE
  NoTask = NoTask
  NoHandle = NoHandle
  Zero = Zero
  Main = Main
  Tasks = 1
SPECIFICATION LiveSpec
PROPERTIES
  FutureSpec
  AwaitReturns
CHECK_DEADLOCK FALSE
