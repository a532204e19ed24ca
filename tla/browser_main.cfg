CONSTANTS
  Notes = {n1, n2}
  Words = {blank, w}
  Folders = {g}
  Blank = blank
  Unfiled = Unfiled
  New = New
  ListedNotes = {note}
  ListedFiles = {file}
  All = All
  Hits = {note}
  image = image
  pdf = pdf
  text = text
  left = left
  right = right
  Documents = {image, pdf, text}
  Kind <- KindOf
  Rotatable = {"png"}
  Recoded = "png"
  Deletable = {image}
  Calls = {c1, c2}
  Start <- StartRows
  Null = Null
SPECIFICATION Spec
SYMMETRY Symmetry
CHECK_DEADLOCK FALSE
INVARIANTS
  TypeOK
  NothingLost
  
  ShownIsCurrent
PROPERTIES
  OneNote
  
  
