\* Two sessions open at once, and every fault.
CONSTANTS
  s1 = s1
  i1 = i1
  i2 = i2
  i3 = i3
  i4 = i4
  n1 = n1
  n2 = n2
  n3 = n3
  s2 = s2
  NoId = NoId
  Sessions = {s1, s2}
  Ids = {i1, i2, i3}
  Names = {n1, n2}
  Backend = "windows"
  Overlap = TRUE
  Spare = 1
  Faults <- AllFaults
  Lost <- NoneLost
  StartDbs <- MCStartOld
SPECIFICATION Spec
INVARIANTS UniqueRecords
SYMMETRY Symmetry
