CONSTANTS
  Launchers = {l1, l2}
  Catalogs = {c1, c2}
  Damaged = {c2}
  Pids = {p1, p2}
  MaxServices = 2
  MaxCommands = 2
  Busy = TRUE
  Garbled = Garbled
  Null = Null
SPECIFICATION FairLaunchSpec
INVARIANT StopStrikesItsService
PROPERTIES EndingLeavesOthersClaims CommandsEnd
CHECK_DEADLOCK FALSE
