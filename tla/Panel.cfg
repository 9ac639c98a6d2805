SPECIFICATION Spec
CONSTANTS
  n1 = n1
  n2 = n2
  k1 = k1
  k2 = k2
  Name = {n1, n2}
  Chat = {k1, k2}
  NoChat = NoChat
  Nowhere = Nowhere
  Absent = Absent
  InitialFile <- MCInitialFile
  V1Files <- MCV1Files
  MaxWrites = 3
INVARIANTS FileSound InstallCovers
CHECK_DEADLOCK FALSE
