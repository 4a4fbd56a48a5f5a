\* The tab stop lies within the line, and behind its end.
SPECIFICATION Spec
CONSTANTS
  Columns = 3
  Lines = 2
  TabWidth = 2
  Keys <- MCKeys
  keytable <- MCkeytable
  kbdus <- MCkbdus
  shift_kbdus <- MCshift_kbdus
  Glyph = {"a", "A"}
INVARIANTS TypeOK EchoOfKey ModifiersHeld
PROPERTY ImplementsScreen
