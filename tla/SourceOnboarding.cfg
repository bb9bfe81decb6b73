SPECIFICATION Spec
CONSTANTS
  n1 = n1
  d1 = d1
  d2 = d2
  d3 = d3
  e1 = e1
  e2 = e2
  All = All
  Unknown = Unknown
  Names = {n1}
  Domains = {d1, d2, d3}
  Endpoints = {e1, e2}
  Validated <- MCValidated
  Given <- MCGiven
  Manual = {TRUE}
  First <- MCFirst
  MaxCalls = 3
SYMMETRY MCSymmetry
INVARIANTS
  TypeOK
  OutboxMatchesTables
  FailsOnlyOnRace
  SuffixesFollow
  DeletedForGood
  DeadlockNeedsJob
