\* Two process ids that save and load at the same time, fail and die.
CONSTANTS
  a = a
  b = b
  p1 = p1
  p2 = p2
  i1 = i1
  i2 = i2
  i3 = i3
  i4 = i4
  Procs = {p1, p2}
  Lines = {a, b}
  Lists <- MCLists
  Inodes = {i1, i2, i3, i4}
  Missing = Missing
  Hole = Hole
  Data = Data
  None = None
SPECIFICATION Spec
INVARIANTS TypeOK
PROPERTIES AtomicStore StrayOnlyByDeath
SYMMETRY Symmetry
