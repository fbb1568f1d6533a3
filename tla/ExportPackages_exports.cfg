CONSTANTS
  Null = Null
  Packages = {p1}
  MaxCollections = 2
  MaxJobs = 2
  MaxChanges = 1
  MaxCrashes = 1
  MaxErrors = 1
  MaxRetries = 1
SPECIFICATION FairSpec
INVARIANTS
  OneWriter
  PublishedWhole
  FailedLeavesNothing
PROPERTY ExportsEnd
CHECK_DEADLOCK FALSE
