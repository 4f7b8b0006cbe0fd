CONSTANTS
  Procs = {p1, p2}
  NoProc = NoProc
  MaxVersion = 1
  KeyedUrl = FALSE
  Envs <- SharedOrSolo
SPECIFICATION FairSpec
INVARIANTS
  FingerprintSound
  DriftCaught
  CacheSound
  Settled
PROPERTIES
  NoRebuild
  WaiterProceeds
CHECK_DEADLOCK FALSE
