CONSTANTS
  Names = {n1, n2}
  Recoverers = {b1, b2}
  Restorer = Restorer
  NoOne = NoOne
  MaxTroubles = 1
SPECIFICATION FairSpec
INVARIANTS
  OriginalSafe
  RestoreWhole
PROPERTIES
  UsersFiles
  JournalResolved
CHECK_DEADLOCK FALSE
