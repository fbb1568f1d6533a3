CONSTANTS
  k1 = k1
  k2 = k2
  k3 = k3
  name = name
  Works = {k1, k2, k3}
  Titles = {name}
  Fields <- AllFields
  Requests <- SomeRequests
  Sites <- SomeSites
  MaxListed = 2
  MaxChanges = 2
  Threads = {t1, t2}
  Whole = {w1, w2}
  Partial = {p1}
  MaxCalls = 3
  MaxRestarts = 1
  Sealed = Sealed
  Shelved = {1, 2}
  Texts <- SomeTexts
  Roots = {"archive"}
  Sizes = {1}
  AuthorLists <- SomeAuthors
  Queries <- SomeQueries
  Saved <- SomeSaved
  MaxPerPage = 2
  MaxViews = 2
  Null = Null
SPECIFICATION Spec
INVARIANTS SessionHolds AnswersAgree HomeReadsBack
PROPERTIES TitleNeverChooses
CHECK_DEADLOCK FALSE
