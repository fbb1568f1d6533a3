CONSTANTS
  Null = Null
  Workers = {w1, w2}
  MaxCollections = 2
  MaxJobs = 2
  Limit = 2
  MaxChanges = 2
  MaxTroubles = 2
  MaxDecisions = 1
  Unreadable = {2}
SPECIFICATION FairSpec
INVARIANTS
  FingerprintIsOwn
  HiddenAsJudged
PROPERTIES
  JobsEnd
CHECK_DEADLOCK FALSE
