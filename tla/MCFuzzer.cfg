SPECIFICATION Spec
CONSTANTS
  Contracts <- ShippedRows
  Types <- MCTypes
  Regs <- MCRegs
  DstRegs <- MCDstRegs
  Preamble <- MCPreamble
  MAX_INSTRUCTIONS = 3
CHECK_DEADLOCK FALSE
INVARIANTS FaithfullyTyped TrackedIsActual
