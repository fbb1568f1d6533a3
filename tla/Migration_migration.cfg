CONSTANTS
  Runs = {r1, r2}
  Nil = Nil
  Legacy <- Snapshots
  Paths <- AllPaths
  SampleLimit = 100
  MaxEdits = 2
  MaxTouches = 2
SPECIFICATION Spec
PROPERTIES
  CompletedIsWhole
  OneSnapshot
  
CHECK_DEADLOCK FALSE
SYMMETRY Swaps
