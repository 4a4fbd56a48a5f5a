\* Three columns and two lines: a line has a middle, the screen scrolls.
SPECIFICATION Spec
CONSTANTS
  Columns = 3
  Lines = 2
  Byte = 4
  Texts <- MCTexts
  Messages <- MCMessages
  BufferSize = 6
INVARIANTS TypeOK TextFits CursorShown
