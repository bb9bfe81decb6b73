SPECIFICATION FairSpec
CONSTANTS
  a = a
  b = b
  x = x
  y = y
  s1 = s1
  s2 = s2
  Unknown = Unknown
  NoChannel = NoChannel
  Channels = {a, b}
  Indexes = {a}
  Seeded = {a}
  Manual = {a}
  URLs = {x, y}
  LastVersion = 2
  Entries <- IndexEntries
  Slots = {s1, s2}
  Cap = 2
  Overrun = FALSE
  MaxFaults = 1
  MaxAbandons = 1
  MaxLostAcks = 0
  MaxRequests = 2
  MaxDeletes = 1
INVARIANTS
  OnePollPerChannel
PROPERTIES
  EventuallyRecorded
CHECK_DEADLOCK FALSE
