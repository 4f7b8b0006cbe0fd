SPECIFICATION Spec
CONSTANTS
  Parts = {"watch", "prompt", "tmpdir"}
  Files = {"a", "b", "g"}
  DirOf <- MCDirOf
  SourceOf <- MCSourceOf
  Calls = 2
  Once = {2}
  Ignored = {".git"}
  MaxEdits = 3
  PromptCalls = {"c1", "c2", "c3"}
  Vars = {"x", "y", "z"}
  Upfront = {"x"}
  Requires <- MCRequires
  Confirms = {"c3"}
  MaxLines = 6
  Runs = {"r1"}
  Sweeps = {"s1", "s2"}
  Proc <- MCProc
  PosixLocks = FALSE
  Attempts = 2
PROPERTIES ChangesRun NothingTaken AllServed
CHECK_DEADLOCK FALSE
