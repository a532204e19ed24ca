CONSTANTS
  Users = {u1}
  NoteIds = {n1}
  Folders = {}
  Titles = {t1}
  Bodies = {0, 1}
  Words = {"null"}
  Reqs = {r1, r2}
  BodyLen <- Lengths
  Null = Null
  MaxFaults = 1
SPECIFICATION FairSpec
CHECK_DEADLOCK FALSE
INVARIANTS
  SerialNotesWhole
PROPERTIES
  OrphansSwept
  ImplementsVault
