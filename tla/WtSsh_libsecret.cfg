\* One session, no fault, libsecret: a host without a password is deleted.
CONSTANTS
  s1 = s1
  i1 = i1
  i2 = i2
  i3 = i3
  i4 = i4
  n1 = n1
  n2 = n2
  n3 = n3
  s2 = s2
  NoId = NoId
  Sessions = {s1}
  Ids = {i1, i2, i3, i4}
  Names = {n1, n2, n3}
  Backend = "libsecret"
  Overlap = FALSE
  Spare = 1
  Faults <- NoFaults
  Lost <- NoneLost
  StartDbs <- MCStartFresh
SPECIFICATION Spec
PROPERTIES DeleteIsReported
