SPECIFICATION Spec
CONSTANTS
  h1 = h1  h2 = h2  h3 = h3
  n1 = n1  n2 = n2  n3 = n3
  Ids = {h1, h2, h3}
  Names = {n1, n2, n3}
  Folded <- MCFolded
  Platforms = {"posix"}
  Programs = {"wtssh"}
  Keys = {"Up", "Down", "Enter", "Q"}
CHECK_DEADLOCK FALSE
PROPERTIES
  EnterConnects
