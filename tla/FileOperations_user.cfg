CONSTANTS
  dl = dl
  ar = ar
  a = a
  b = b
  x1 = x1
  y1 = y1
  Null = Null
  Downloads = {dl}
  Archives = {ar}
  Names = {a, b}
  Contents = {x1, y1}
  Switchable = {ar}
  Holdable = {}
  InitialFiles <- TwoDownloads
  MaxCollections = 1
  MaxLocations = 3
  MaxOperations = 2
  MaxUserSteps = 2
SPECIFICATION Spec
INVARIANTS
  CatalogMatchesDisk
  ContentSurvives
PROPERTY OutcomeIsTrue
