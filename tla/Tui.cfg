SPECIFICATION Spec
CONSTANTS
  h1 = h1  h2 = h2  h3 = h3
  n1 = n1  n2 = n2  n3 = n3
  Ids = {h1, h2, h3}
  Names = {n1, n2, n3}
  Folded <- MCFolded
  Platforms = {"posix", "windows"}
  Programs = {"wtssh", "scpm"}
  Keys = {"A", "C", "D", "E", "Q", "Esc", "Up", "Down", "Right", "Left",
          "CtrlRight", "CtrlLeft", "Delete", "PageDown", "F7", "F9", "F10"}
SYMMETRY Symmetry
\* A program that quits or hands over to ssh has ended.
CHECK_DEADLOCK FALSE
INVARIANTS
  TypeOK
  HighlightInRange
PROPERTIES
  HighlightFollows
  KeysDoTheirJob
  OnlyItsKeyActs
  
