CONSTANTS
  N = 4
  Value = {v1, v2}
  Zero = v1
  Me = v2
  kInputBufLen = 4
  width_ = 3
  height_ = 3
  Char = {"a", " "}
  Glyph = {"a", " ", ">", "#"}
  prompt_ <- Prompt
  Outputs <- Prints
  U32 = 8
  LeftAtStart = FALSE
SPECIFICATION SpecUsers
INVARIANTS
  TypeOK
  RingIsExact
  IteratorInRing
  ReadsOwnTask
  EditorTypeOK
  ScreenShowsLine
PROPERTIES
  IsBoundedList
  IsTextLine
