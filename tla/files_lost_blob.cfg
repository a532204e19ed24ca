CONSTANTS
  FileIds = {f1}
  Types = {png, webp, pdf}
  Images = {png, webp}
  Rotatable = {png}
  Pictures = {p1}
  Labels = {l1}
  Reqs = {r1, r2}
  MaxFaults = 0
  Null = Null
SPECIFICATION Spec
CHECK_DEADLOCK FALSE
INVARIANTS
  StoredFileHasBlob
