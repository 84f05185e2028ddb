SPECIFICATION FairSpec
CONSTANTS
  Suites <- MCSuites
  NameOf <- MCNameOf
  Parse <- MCParse
  Opcodes <- MCOpcodes
  RegNo <- MCRegNo
  FuelEnv = FALSE
  Halts <- MCHalts
  Ends <- MCEnds
CHECK_DEADLOCK FALSE
INVARIANTS Accounting GreenIsEarned PassMeansExpected ContextsReleased
PROPERTIES Terminates ImplementsValidator
