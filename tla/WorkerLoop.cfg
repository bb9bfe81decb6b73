SPECIFICATION Spec
CONSTANTS
  Rows = {c1, c2, c3, c4}
  BatchSize = 2
  Concurrency = 1
  JobTime = 2
  LeaseTime = 4
  IdleTime = 1
  MaxPause = 1
  MaxRounds = 4
  MaxErrors = 2
INVARIANTS
  TypeOK
  LeasesOutliveTasks
  OrphansOnlyOfRaised
PROPERTIES
  EveryTaskEnds
  EventuallyDone
CHECK_DEADLOCK FALSE
