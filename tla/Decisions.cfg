SPECIFICATION Spec
CONSTANTS
  NoDate = NoDate
  NoHref = NoHref
  NoTime = NoTime
  Tracking = {3}
  Years = {"2024"}
  Months = {"1"}
  Days = {"1"}
  Files = {"a.xml"}
  MaxListings = 1
  Stopwords = {9}
  Capitalized = {4, 5}
  Unnamed = {5}
  Identifiers = {}
  Locations = {3}
  TextCap = 3
  MaxRows = 2
  MaxCandidates = 2
  Boilerplate = {}
  Paywalled = {}
  Fragments = {3}
  Claimlike = {1, 2}
  WordCount = 60
  LongBody = 2
  MaxClaims = 3
  MaxTokens = 8
INVARIANTS
  CanonicalIsStable
  RejectedOnlyForAge
  OneBadEndpointLosesOnlyItself
  CopyJoinsItsEvent
  ReadingFollowsNesting
  TwinClaimsNeedOverlap
CHECK_DEADLOCK FALSE
