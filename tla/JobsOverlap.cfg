\* One URL, leases that expire under running jobs, a crash, a lost acknowledgement, a cleanup.
CONSTANTS
  Candidates = {c1}
  Contents = {x, y}
  Repetitive = {}
  NoEvent = NoEvent
  NoTx = NoTx
  MaxAttempts = 2
  Overrun = TRUE
  AttemptCap = 3
  MaxAbandons = 1
  MaxLostAcks = 1
  MaxSweeps = 1
SYMMETRY ContentSymmetry
SPECIFICATION Spec
INVARIANTS
  TypeOK
  ProcessedIsDurable
  VersionsDistinct
  RunsAccounted
PROPERTIES
  ImplementsLedger
CHECK_DEADLOCK FALSE
