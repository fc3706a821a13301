CONSTANTS
  Rings = {"spare"}
  Sender = {s1, s2}
  Receiver = {r1, r2}
  Green = {r1, r2}
  Capacity = 2
  MaxSend = 1
  RingSender = {}
  RingCapacity = 1
  RingSends = 0
  NoProc = NoProc
  NoValue = NoValue
SPECIFICATION ChannelSpec
INVARIANTS
  NoMissedWake
CHECK_DEADLOCK FALSE
