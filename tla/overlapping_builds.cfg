CONSTANTS
  Procs = {p1, p2}
  NoProc = NoProc
  MaxVersion = 1
  KeyedUrl = TRUE
  Envs <- OnlyBusy
SPECIFICATION Spec
INVARIANTS
  CacheSound
CHECK_DEADLOCK FALSE
