CONSTANTS
  dl = dl
  ar = ar
  a = a
  b = b
  x1 = x1
  y1 = y1
  Null = Null
  Downloads = {dl}
  Archives = {ar}
  Names = {a, b}
  Contents = {x1, y1}
  Switchable = {}
  Holdable = {1}
  InitialFiles <- TwoDownloads
  MaxCollections = 2
  MaxLocations = 5
  MaxOperations = 3
  MaxUserSteps = 0
SPECIFICATION Spec
INVARIANTS
  CurrentLocationsUnique
  OnlyOverlapBreaksTheJournal
PROPERTIES
  OnePassSuffices
  KeepsShelfPromise
