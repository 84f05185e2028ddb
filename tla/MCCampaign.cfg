SPECIFICATION MCSpec
CONSTANTS
  same = same
  split = split
  fails = fails
  longer = longer
  absent = absent
  empty = empty
  crash = crash
  p = p
  q = q
  Procs <- TwoProcs
  ABSENT = absent
  EMPTY = empty
  CRASH = crash
  Args <- MCArgs
  Prog <- MCProg
  Runs <- MCRuns
  Mixed <- MCMixed
  Regs = {}
  Fields <- MCFields
  STARTS = 3
  MISHAPS = 2
SYMMETRY Alike
CHECK_DEADLOCK FALSE
INVARIANTS Totals AloneRunsOwnProgram AloneReproduces AloneEndsClean
INVARIANTS ReprosKeepTheirSeed TidyTogether
