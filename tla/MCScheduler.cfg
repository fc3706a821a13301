CONSTANTS
  Parts = {"tasks", "pool"}
  Worker = {w1, w2}
  NoWorker = NoWorker
  Id = {b1, b2}
  OsThread = {o1}
  MaxGen = 1
  Migrate = TRUE
  NoTask = NoTask
  NoHandle = NoHandle
  Zero = Zero
  Main = Main
  Tasks = 2
SPECIFICATION SchedulerSpec
SYMMETRY Symmetry
INVARIANTS
  TypesOK
  ClaimProtocol
  Placement
  AwaiterListed
  FreeIsDead
  ResultOnce
  SearchersCounted
  WorkSeen
CHECK_DEADLOCK FALSE
