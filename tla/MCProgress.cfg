CONSTANTS
  Parts = {"rendezvous", "runqueues", "netio", "world"}
  Sender = {s1, s2}
  Receiver = {r1, r2}
  Green = {s1, r1}
  MaxSend = 1
  NoProc = NoProc
  NoValue = NoValue
  Task = {t1, t2, t3}
  MaxStreak = 2
  PollEvery = 2
  NoTask = NoTask
  Reader = {t1}
  Thread = {o1}
  Poller = {w1}
  MaxGen = 1
  Mutator = {m1, m2}
  Main = m1
  Nobody = Nobody
  MaxForce = 1
  MaxExtra = 1
SPECIFICATION ProgressSpec
INVARIANTS
  TypesOK
  SendHonest
  NoMissedRendezvous
PROPERTIES
  Rendezvous
  EveryoneRuns
  ReadReturns
  ForcedReturns
CHECK_DEADLOCK FALSE
