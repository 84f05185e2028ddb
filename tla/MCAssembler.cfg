SPECIFICATION Spec
CONSTANTS
  File <- MCFile
  Dirs <- MCDirs
  Lines <- MCLines
  Lex <- MCLex
  NoFile = NoFile
  RegKeys <- MCRegKeys
  BadRegKeys <- MCBadRegKeys
  Opcodes <- MCOpcodes
INVARIANTS
  TypeOK
  TokenMeaning
  SymbolRegions
  AdjacencyRecovered
  Tombstones
  DecodesToSource
PROPERTIES
  Repeatable
