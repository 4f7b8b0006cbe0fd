SPECIFICATION Spec
CONSTANTS
  Parts = {"entry", "glob", "identity", "sandbox"}
  Projects <- MCProjects
  Archives <- MCArchives
  Elsewhere <- MCElse
  TempDir <- MCTemp
  TaskfilePaths <- MCTaskfiles
  RootFiles <- MCRootFiles
  WalkBudget = 1
  Generates <- MCPaths
  OutsideLinks = FALSE
  MaxHops = 4
  GlobTrees <- MCGlobTrees
  Lists <- MCLists
  Code <- MCCode
  Base <- MCBase
  Values <- MCValues
  Roots <- MCRoots
  MaxEdits = 2
  Trees <- MCTrees
  Tasks <- MCTasks
  Wild <- MCWild
  Root <- MCRoot
  Cwd <- MCCwd
  Calls <- MCCalls
  Held <- MCHeld
  MaxLinks = 4
  MaxMoves = 1
INVARIANTS RestoreConfined GlobExact
PROPERTIES IdentityTold SandboxHolds
CHECK_DEADLOCK FALSE
