SPECIFICATION Spec
CONSTANTS
  Contracts <- ShippedRows
  Types <- MCTypes
  Regs <- MCRegs
  DstRegs <- MCDstRegs
  Preamble <- MCPreamble
  MAX_INSTRUCTIONS = 4
CHECK_DEADLOCK FALSE
INVARIANTS TypeValid
