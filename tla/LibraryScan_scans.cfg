CONSTANTS
  zip = zip
  folder = folder
  Null = Null
  Places <- TwoRoots
  Above <- Nested
  Lower <- ToLower
  Decoded <- ToPlain
  Files = {zip, folder}
  Folders = {folder}
  MaxIds = 4
  MaxRuns = 2
  MaxChanges = 1
  MaxTroubles = 1
SPECIFICATION FairSpec
INVARIANTS
  PreviewHolds
PROPERTIES
  OnlyTheMissing
  ScansConclude
CHECK_DEADLOCK FALSE
