CONSTANTS
  kInputBufLen = 4
  width_ = 3
  height_ = 3
  Char = {"a", " "}
  Glyph = {"a", " ", ">", "#"}
  prompt_ <- Prompt
  Outputs <- Prints
  U32 = 8
  LeftAtStart = TRUE
SPECIFICATION SpecEditor
INVARIANT
  CursorInLine
