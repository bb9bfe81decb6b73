SPECIFICATION Spec
CONSTANTS
  a = a
  b = b
  x = x
  y = y
  s1 = s1
  s2 = s2
  Unknown = Unknown
  NoChannel = NoChannel
  Channels = {a, b}
  Indexes = {}
  Seeded = {a, b}
  Manual = {}
  URLs = {x, y}
  LastVersion = 2
  Entries <- FeedEntries
  Slots = {s1, s2}
  Cap = 2
  Overrun = TRUE
  MaxFaults = 0
  MaxAbandons = 0
  MaxLostAcks = 1
  MaxRequests = 0
  MaxDeletes = 0
SYMMETRY SlotSymmetry
INVARIANTS
  TypeOK
  FoundIsRecorded
PROPERTIES
  ImplementsFrontier
CHECK_DEADLOCK FALSE
