CONSTANTS
  Parts = {"heap"}
  Task = {t1, t2}
  OsThread = {o1}
  NoProc = NoProc
  Worker = {w1, w2}
  NoWorker = NoWorker
  Closer = {o1}
  MaxGen = 1
  Pipes = {1}
  Sharer = {x1, x2, x3}
  DtorGuard = 20
  EarlyDrop = FALSE
  Mutator = {m1, m2}
  Main = m1
  Nobody = Nobody
  MaxForce = 2
  MaxExtra = 1
  Struct = {s1, s2}
  List = {l1}
  Gated = {s1}
  MayOwn <- Anything
  None = None
  WhiteGuard = 10
  Cap = 2
  MaxHeld = 2
  Node = {a, b, c}
  Roots <- RootSets
SPECIFICATION RuntimeSpec
INVARIANTS
  NoDangle
CHECK_DEADLOCK FALSE
