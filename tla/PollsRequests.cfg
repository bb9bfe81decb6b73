SPECIFICATION Spec
CONSTANTS
  a = a
  b = b
  x = x
  y = y
  s1 = s1
  s2 = s2
  Unknown = Unknown
  NoChannel = NoChannel
  Channels = {a}
  Indexes = {}
  Seeded = {a}
  Manual = {}
  URLs = {x, y}
  LastVersion = 1
  Entries <- LongEntries
  Slots = {s1, s2}
  Cap = 2
  Overrun = FALSE
  MaxFaults = 0
  MaxAbandons = 0
  MaxLostAcks = 0
  MaxRequests = 1
  MaxDeletes = 0
INVARIANTS
  RequestStaysQueued
CHECK_DEADLOCK FALSE
