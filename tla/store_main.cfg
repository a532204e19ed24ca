CONSTANTS
  Server = server
  Cli = cli
  Last = 5
  Repeatable = {5}
  MaxFaults = 1
  w = w
  Users = {u, v}
  Items = {n, f}
  Reqs = {r1, r2}
  Words = {w}
  Lists <- SentLists
  Null = Null
  Gone = Gone
SPECIFICATION Spec
CHECK_DEADLOCK FALSE
INVARIANTS
  TypeOK
  VersionIsSchema
  LinksJoin
PROPERTIES
  SchemaFirst
  ServerComesUp
  PrunedOnDelete
  
  OthersTagsKept
  SentBackKeeps
