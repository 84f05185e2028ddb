SPECIFICATION Spec
CONSTANTS
  p1 = p1
  p2 = p2
  old = old
  empty = empty
  absent = absent
  crash = crash
  EMPTY = empty
  ABSENT = absent
  CRASH = crash
  Suites <- MCSuites
  Parse <- MCParse
  Stale <- MCStale
  Runs <- MCRuns
  Expect <- MCExpect
  Regs <- MCRegs
  Fields <- MCFields
CHECK_DEADLOCK FALSE
INVARIANTS PassMeansConsensus PassOnOwnProgram GreenMeansAllPass
PROPERTY ImplementsValidator
