CONSTANTS
  top = top
  left = left
  right = right
  gen = gen
  flaky = flaky
  Tasks = {top, left, right, gen, flaky}
  Shell = Shell
  NoCall = NoCall
  MaxCalls = 3
  Files <- Taskfiles
SPECIFICATION FairSpec
INVARIANTS
  LeftClean
  OnceOnly
  WholeSuccess
PROPERTIES
  Terminates
CHECK_DEADLOCK FALSE
