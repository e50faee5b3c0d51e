SPECIFICATION Spec
CONSTANTS
  NULL = NULL
  MaxBuf = 6
  Alphabet = {"1", "|", "a", "NUL"}
  Beginnings <- MCBeginnings
  Pieces <- MCPieces
  MaxPieces = 4
  LineLen = 6
  NameLen = 2
INVARIANTS SliceIsSelection KeyAndDataAreTheRest SettingsAreTheFile ErrorIsFirstBadLine
CHECK_DEADLOCK FALSE
