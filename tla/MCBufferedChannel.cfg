CONSTANTS
  Rings = {"spare", "exact"}
  Sender = {s1, s2}
  Receiver = {r1, r2}
  Green = {s1, r1}
  Capacity = 1
  MaxSend = 1
  RingSender = {s1}
  RingCapacity = 2
  RingSends = 3
  NoProc = NoProc
  NoValue = NoValue
SPECIFICATION ChannelSpec
INVARIANTS
  TypeOK
  ParkedSound
  NoMissedWake
PROPERTIES
  FifoSpec
CHECK_DEADLOCK FALSE
