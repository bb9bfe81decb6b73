\* Two jobs on one URL: is a recorded success final?
CONSTANTS
  Candidates = {c1}
  Contents = {x}
  Repetitive = {}
  NoEvent = NoEvent
  NoTx = NoTx
  MaxAttempts = 2
  Overrun = TRUE
  AttemptCap = 2
  MaxAbandons = 0
  MaxLostAcks = 0
  MaxSweeps = 0
SPECIFICATION FairSpec
PROPERTY
  SuccessIsFinal
CHECK_DEADLOCK FALSE
