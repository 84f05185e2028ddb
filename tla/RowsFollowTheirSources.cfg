SPECIFICATION Spec
CONSTANTS
  File <- DocFile
  Dirs <- DocDirs
  Lines <- DocLines
  Lex <- DocLex
  NoFile = NoFile
  RegKeys <- DocRegKeys
  BadRegKeys <- DocBadRegKeys
  Opcodes <- DocOpcodes
INVARIANT RowsFollowTheirSources
