CONSTANTS
  Users = {u1, u2}
  NoteIds = {n1}
  Folders = {f1}
  Titles = {t1}
  Bodies = {1}
  Words = {"null"}
  Reqs = {r1, r2}
  BodyLen <- Lengths
  Null = Null
  MaxFaults = 1
SPECIFICATION Spec
SYMMETRY Symmetry
CHECK_DEADLOCK FALSE
INVARIANTS
  FolderOwnership
  BodyHasOwner
PROPERTIES
  NoResurrection
  LiveBodiesKept
  Isolation
