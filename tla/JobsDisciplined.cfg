\* Two URLs that may share an event, each lease outliving its job.
CONSTANTS
  Candidates = {c1, c2}
  Contents = {x, y}
  Repetitive = {y}
  NoEvent = NoEvent
  NoTx = NoTx
  MaxAttempts = 2
  Overrun = FALSE
  AttemptCap = 3
  MaxAbandons = 1
  MaxLostAcks = 1
  MaxSweeps = 1
SPECIFICATION FairSpec
INVARIANTS
  NoOrphanEvents
  OutboxMatchesTables
  OneJobPerCandidate
  LeasedIsRecoverable
  AttemptsAccounted
  VerdictIsLastJobs
PROPERTIES
  StoreOnlyGrows
  EventuallySettled
CHECK_DEADLOCK FALSE
