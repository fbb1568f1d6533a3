SPECIFICATION BothSpec
CONSTANTS
  Total = 2
  Names = {na, nb}
  MaxIds = 4
  MaxChoices = 3
  MaxMissing = 1
  Null = Null
  c1 = c1
  c2 = c2
  na1 = na1
  nb1 = nb1
  nc1 = nc1
  nd1 = nd1
  inbox = inbox
  shelf = shelf
  magazines = magazines
  event = event
  Batched = {c1, c2}
  ImageFolders = {}
  Downloads = inbox
  Archives = {shelf, magazines}
  Folders = {event}
  FileNames = {na1, nb1, nc1, nd1}
  Illegal = {na1}
  FirstName <- ZipNames
  Found <- ZipFacts
  Configured = magazines
  MaxChanges = 1
SYMMETRY Spellings
CHECK_DEADLOCK FALSE
INVARIANTS
  ChoiceStands ProjectionIsCurrent SafeItemsSucceed
PROPERTIES
  FirstMergeKeepsViews AppliedAsAsked
