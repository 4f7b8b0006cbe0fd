SPECIFICATION Spec
CONSTANTS
  Parts = {"decode", "taskfiles", "compile", "reach", "template"}
  Scalars <- MCScalars
  Tags <- MCTags
  Beginnings <- MCBeginnings
  MaxMore = 3
  RecursionLimit = 4
  AliasFactor = 1
  Projects <- MCProjects
  FileVars <- MCFileVars
  Programs <- MCPrograms
  Trees <- MCTrees
  Summary = {TRUE, FALSE}
  Names <- MCNames
  Graphs <- MCGraphs
  Referrer = "r"
  MaxCallsPerTask = 2
  MaxCalls = 3
  Actions <- MCActions
INVARIANTS DecodedExactly MergedRight CompiledRight ReachRight TemplatesMean
CHECK_DEADLOCK FALSE
