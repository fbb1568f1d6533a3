CONSTANTS
  Nil = Nil
  Workers = {w1, w2}
  MaxCollections = 2
  Settings = {small, large}
  Configured = small
  Asking = {1}
  MaxEdits = 1
  MaxTroubles = 1
  MaxWithErrors = 0
  Covers <- Pages
  Covered = {2}
  Contents <- Held
  Original <- Whole
  Scopes = {{1, 2}}
SPECIFICATION FairSpec
INVARIANTS
  ReadyShowsWhatItSays
  
PROPERTIES
  CacheJobsEnd
CHECK_DEADLOCK FALSE
