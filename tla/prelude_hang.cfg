SPECIFICATION Spec
CONSTANTS
  Parts = {"output"}
  Readings = {1, 2}
  N = 2
  Budget = 2
  PerThread = 1
  Nodes <- MCNodes
  MaxEdits = 1
  Boxed = {"c1", "c2"}
  Ifs = {"c2"}
  Envs <- MCEnvs
  MaxCalls = 1
  Procs = {"p1", "p2", "s1"}
  Strangers = {"s1"}
  Hosts <- MCHosts
  Modes <- MCModes
  MaxSignals = 3
  Cmds = {"a", "b"}
  Programs <- RefusedPrograms
  Styles <- GroupOnly
  Permits = 2
  Updates = {"u1", "u2"}
  Current <- MCCurrent
  Releases <- MCReleases
  FileModes <- MCFileModes
  MaxAsset = 2
  MaxCrashes = 1
  Invocations <- MCInvocations
  Archives <- MCArchives
  MaxEvents = 2
  Edited = {"b"}
INVARIANT OutputGoesOn
CHECK_DEADLOCK FALSE
