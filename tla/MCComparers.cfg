SPECIFICATION ComparersSpec
CONSTANTS
  crash = crash
  empty = empty
  Expressions <- MCExpressions
  Programs = {bytes1, bytes2}
  NONE = nothing
  CRASH = crash
  EMPTY = empty
  Suites <- MCSuites
  Runs <- MCRuns
  Regs <- MCRegs
  Fields <- MCFields
CHECK_DEADLOCK FALSE
INVARIANTS GreenIsExplained QueriesDestroyed
PROPERTIES ImplementsValidator ParityImplementsValidator
