SPECIFICATION Spec
CONSTANTS
  Parts = {"reading", "supervisor", "reap", "output", "update", "invocation"}
  Readings = {1, 2}
  N = 2
  Budget = 2
  PerThread = 1
  Nodes <- MCNodes
  MaxEdits = 1
  Boxed = {"c1", "c2"}
  Ifs = {"c2"}
  Envs <- MCEnvs
  MaxCalls = 1
  Procs = {"p1", "p2", "s1"}
  Strangers = {"s1"}
  Hosts <- MCHosts
  Modes <- MCModes
  MaxSignals = 3
  Cmds = {"a", "b"}
  Programs <- MCPrograms
  Styles <- MCStyles
  Permits = 2
  Updates = {"u1", "u2"}
  Current <- MCCurrent
  Releases <- MCReleases
  FileModes <- MCFileModes
  MaxAsset = 2
  MaxCrashes = 1
  Invocations <- MCInvocations
  Archives <- MCArchives
  MaxEvents = 1
  Edited = {"b"}
INVARIANTS ReadingSound SupervisorSound CommandsReaped  NobodyWaits 
PROPERTY UpdateSafe
CHECK_DEADLOCK FALSE
