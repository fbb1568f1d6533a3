CONSTANTS
  MaxCollections = 2
  MaxJobs = 2
  MaxWorks = 3
  MaxCrashes = 1
  MaxErrors = 2
SPECIFICATION FairSpec
INVARIANTS
  OneSearchPerCollection
  ResultsBelongToTheWork
  ShutdownFinishesTheSearch
PROPERTIES
  NoStarvation
  ClaimsEnd
CHECK_DEADLOCK FALSE
