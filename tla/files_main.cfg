CONSTANTS
  FileIds = {f1}
  Types = {png, webp, pdf}
  Images = {png, webp}
  Rotatable = {png}
  Pictures = {p1}
  Labels = {l1}
  Reqs = {r1, r2}
  MaxFaults = 1
  Null = Null
SPECIFICATION Spec
SYMMETRY Symmetry
CHECK_DEADLOCK FALSE
INVARIANTS
  TypeOK
  ServedAsTheyAre
  SerialFilesWhole
