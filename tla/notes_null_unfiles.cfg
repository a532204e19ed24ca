CONSTANTS
  Users = {u1}
  NoteIds = {n1}
  Folders = {f1}
  Titles = {t1}
  Bodies = {1}
  Words = {"absent", "null", "empty"}
  Reqs = {r1}
  BodyLen <- Lengths
  Null = Null
  MaxFaults = 0
SPECIFICATION FairSpec
CHECK_DEADLOCK FALSE
PROPERTIES
  NullUnfiles
