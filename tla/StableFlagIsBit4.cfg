SPECIFICATION Spec
CONSTANTS
  Suites <- DocSuites
  NameOf <- DocNameOf
  Parse <- DocParse
  Opcodes <- MCOpcodes
  RegNo <- MCRegNo
  FuelEnv = TRUE
  Halts <- DocHalts
  Ends <- DocEnds
CHECK_DEADLOCK FALSE
INVARIANT StableFlagIsBit4
