----------------------------- MODULE StoreProofs ----------------------------
(***************************************************************************)
(* Proofs about Store, for any number of users, items, requests, faults    *)
(* and migrations, of which only the last may be repeatable.               *)
(***************************************************************************)
EXTENDS Store, TLAPS

----------------------------------------------------------------------------
(* The schema.                                                             *)

(* What a process has in mind is never ahead of the version recorded: it   *)
(* may be behind it, when the other process migrated in between.           *)
NotAhead ==
    \A p \in {Server, Cli} :
        /\ proc[p].pc = "migrate" => proc[p].next \in 1..version + 1
        /\ proc[p].pc = "up" => version = Last

SchemaInv == Schema!TypeOK /\ VersionIsSchema /\ NotAhead

LEMMA SchemaInit == Init => SchemaInv
BY LastAssumption, FaultsAssumption
   DEF Init, SchemaInv, NotAhead, VersionIsSchema, Schema!Init, Schema!TypeOK, Schema!VersionIsSchema,
       Schema!Procs, Schema!Down

(* A transaction records the migration that comes next, or repeats the     *)
(* last one.                                                               *)
LEMMA MigrateKeeps ==
    ASSUME NEW p \in {Server, Cli}, SchemaInv, Schema!Migrate(p)
    PROVE  SchemaInv' /\ version' >= version
<1> DEFINE n == proc[p].next
<1> USE LastAssumption, FaultsAssumption DEF Schema!Procs
<1>1. /\ version \in 0..Last /\ Last \in Nat
      /\ proc \in [{Server, Cli} -> [pc : {"down", "boot", "migrate", "up"}, next : 0..Last + 1]]
      /\ applied = 1..version /\ faults \in 0..MaxFaults
  BY DEF SchemaInv, Schema!TypeOK, VersionIsSchema, Schema!VersionIsSchema
<1>2. n \in 1..version + 1 /\ n <= Last /\ UNCHANGED faults
  BY DEF SchemaInv, NotAhead, Schema!Migrate
<1>3. CASE Schema!Applies(n)
  <2>1. /\ version' = n /\ applied' = applied \cup {n}
        /\ proc' = [proc EXCEPT ![p].next = n + 1]
    BY <1>3 DEF Schema!Migrate, Schema!Recorded
  <2>2. n = version + 1 \/ (n = Last /\ version = Last)
    BY <1>1, <1>2, <1>3 DEF Schema!Applies
  <2>3. version' \in 0..Last /\ version' >= version /\ applied' = 1..version'
    BY <1>1, <1>2, <2>1, <2>2
  <2>4. applied' \subseteq 1..Last
    BY <2>3, <1>1
  <2>5. proc' \in [{Server, Cli} -> [pc : {"down", "boot", "migrate", "up"}, next : 0..Last + 1]]
    BY <1>1, <1>2, <2>1
  <2>6. NotAhead'
    <3> SUFFICES ASSUME NEW q \in {Server, Cli}
                 PROVE  /\ proc'[q].pc = "migrate" => proc'[q].next \in 1..version' + 1
                        /\ proc'[q].pc = "up" => version' = Last
      BY DEF NotAhead
    <3>1. /\ proc[q].pc = "migrate" => proc[q].next \in 1..version + 1
          /\ proc[q].pc = "up" => version = Last
      BY DEF SchemaInv, NotAhead
    <3>2. proc'[q].pc = proc[q].pc /\ proc'[q].next = IF q = p THEN n + 1 ELSE proc[q].next
      BY <1>1, <2>1
    <3> QED BY <3>1, <3>2, <2>1, <2>2, <2>3, <1>1, <1>2
  <2> QED BY <2>3, <2>4, <2>5, <2>6, <1>1, <1>2
          DEF SchemaInv, Schema!TypeOK, VersionIsSchema, Schema!VersionIsSchema
<1>4. CASE ~Schema!Applies(n)
  <2>1. UNCHANGED <<version, applied, faults>> /\ proc' = [proc EXCEPT ![p] = Schema!Down]
    BY <1>2, <1>4 DEF Schema!Migrate, Schema!Exit
  <2> QED BY <1>1, <2>1
          DEF SchemaInv, NotAhead, Schema!TypeOK, Schema!Down, VersionIsSchema, Schema!VersionIsSchema
<1> QED BY <1>3, <1>4

LEMMA SchemaStep ==
    ASSUME SchemaInv, [Next]_vars
    PROVE  SchemaInv' /\ version' >= version
<1> USE LastAssumption, FaultsAssumption, ProcsAssumption DEF Schema!Procs, Schema!Down
<1>1. version \in Nat BY DEF SchemaInv, Schema!TypeOK
<1>2. ASSUME UNCHANGED schema PROVE SchemaInv' /\ version' >= version
  BY <1>1, <1>2 DEF schema, SchemaInv, NotAhead, Schema!TypeOK, VersionIsSchema, Schema!VersionIsSchema
<1>3. ASSUME NEW p \in {Server, Cli}, Schema!Boot(p) \/ Schema!ReadVersion(p)
      PROVE  SchemaInv' /\ version' >= version
  BY <1>1, <1>3 DEF SchemaInv, NotAhead, Schema!TypeOK, VersionIsSchema, Schema!VersionIsSchema,
              Schema!Boot, Schema!ReadVersion, Schema!FirstPending
<1>4. ASSUME NEW p \in {Server, Cli}, Schema!Opened(p)
      PROVE  SchemaInv' /\ version' >= version
  BY <1>1, <1>4 DEF SchemaInv, NotAhead, Schema!TypeOK, VersionIsSchema, Schema!VersionIsSchema,
              Schema!Opened
<1>5. ASSUME NEW p \in {Server, Cli}, Schema!Die(p) \/ (p = Cli /\ Schema!Printed)
      PROVE  SchemaInv' /\ version' >= version
  BY <1>1, <1>5 DEF SchemaInv, NotAhead, Schema!TypeOK, VersionIsSchema, Schema!VersionIsSchema,
              Schema!Die, Schema!Printed, Schema!Exit
<1> QED BY <1>2, <1>3, <1>4, <1>5, MigrateKeeps
        DEF Next, vars, Serve, Open, CliEnds, ServerDies, Schema!Start

LEMMA SchemaHolds == Spec => []SchemaInv
<1>1. SchemaInv /\ [Next]_vars => SchemaInv'
  BY SchemaStep
<1> QED BY <1>1, SchemaInit, PTL DEF Spec

(* The version recorded is always that of the schema: no crash and no      *)
(* second process makes a migration half done, skipped or recorded without *)
(* having been applied.                                                    *)
THEOREM VersionRight == Spec => []VersionIsSchema
<1>1. SchemaInv => VersionIsSchema
  BY DEF SchemaInv
<1> QED BY <1>1, SchemaHolds, PTL

(* A process that is through with opening works on the whole schema.       *)
THEOREM SchemaComplete == Spec => []OpenedIsComplete
<1>1. SchemaInv => OpenedIsComplete
  BY DEF SchemaInv, NotAhead, OpenedIsComplete, Schema!OpenedIsComplete, Schema!Procs
<1> QED BY <1>1, SchemaHolds, PTL

(* A process that read the version long ago never sets it back, although   *)
(* it writes without reading it again.                                     *)
THEOREM VersionNeverBack == Spec => VersionForward
<1>1. SchemaInv /\ [Next]_vars => [version' >= version]_vars
  BY SchemaStep
<1> QED BY <1>1, SchemaHolds, PTL DEF Spec, VersionForward

(* A process with a migration before it takes the version one further, or  *)
(* it was overtaken: the migration it has in mind is recorded already, by  *)
(* the other process.  Versions are few, so a server whose statements do   *)
(* not fail can be made to start again only so often (ServerComesUp, which *)
(* needs fairness, stays with TLC).                                        *)
FurtherOrOvertaken ==
    [][\A p \in {Server, Cli} :
         /\ proc[p].pc = "migrate" /\ proc[p].next <= Last
         /\ proc'[p] # proc[p] /\ faults' = faults
         => version' = version + 1 \/ proc[p].next <= version]_vars

(* What a process that is not past migrate has in mind was not applied     *)
(* when it looked, so to find it applied it must have been overtaken.      *)
THEOREM StartingOverEnds == Spec => FurtherOrOvertaken
<1>1. ASSUME SchemaInv, [Next]_vars, NEW p \in {Server, Cli},
             proc[p].pc = "migrate", proc[p].next <= Last, proc'[p] # proc[p], faults' = faults
      PROVE  version' = version + 1 \/ proc[p].next <= version
  <2>1. /\ version \in Nat /\ faults \in Nat /\ applied = 1..version
        /\ proc \in [{Server, Cli} -> [pc : {"down", "boot", "migrate", "up"}, next : 0..Last + 1]]
        /\ proc[p].next \in 1..version + 1
    BY <1>1, FaultsAssumption, LastAssumption
       DEF SchemaInv, NotAhead, Schema!TypeOK, Schema!Procs, VersionIsSchema,
           Schema!VersionIsSchema
  <2>2. ASSUME NEW q \in {Server, Cli}, Schema!Die(q)
        PROVE  FALSE
    BY <1>1, <2>1, <2>2 DEF Schema!Die
  <2>3. ASSUME NEW q \in {Server, Cli}, q # p, Schema!Start(q) \/ (q = Cli /\ Schema!Printed)
        PROVE  FALSE
    BY <1>1, <2>1, <2>3 DEF Schema!Start, Schema!Boot, Schema!ReadVersion, Schema!Migrate,
       Schema!Opened, Schema!Printed, Schema!Exit
  <2>4. ~Schema!Boot(p) /\ ~Schema!ReadVersion(p) /\ ~Schema!Opened(p)
    BY <1>1, <2>1, LastAssumption
       DEF Schema!Boot, Schema!ReadVersion, Schema!Opened, Schema!Down
  <2>5. p = Cli => ~Schema!Printed
    BY <1>1 DEF Schema!Printed
  <2>6. CASE Schema!Migrate(p)
    BY <2>1, <2>6 DEF Schema!Migrate, Schema!Applies, Schema!Recorded
  <2>7. ~UNCHANGED proc
    BY <1>1
  <2> QED BY <1>1, <2>2, <2>3, <2>4, <2>5, <2>6, <2>7
          DEF Next, vars, schema, Serve, Open, CliEnds, ServerDies, Schema!Start
<1>2. SchemaInv /\ [Next]_vars =>
        \A p \in {Server, Cli} :
          /\ proc[p].pc = "migrate" /\ proc[p].next <= Last
          /\ proc'[p] # proc[p] /\ faults' = faults
          => version' = version + 1 \/ proc[p].next <= version
  BY <1>1
<1> QED BY <1>2, SchemaHolds, PTL DEF Spec, FurtherOrOvertaken

(* Requests are under way in a server that is up only: they die with it.   *)
NoneBeforeUp == proc[Server].pc # "up" => req = [r \in Reqs |-> Tables!Idle]

LEMMA NoneBeforeUpHolds == Spec => []NoneBeforeUp
<1>1. Init => NoneBeforeUp
  BY DEF Init, Tables!Init, NoneBeforeUp
<1>2. SchemaInv /\ NoneBeforeUp /\ [Next]_vars => NoneBeforeUp'
  <2> SUFFICES ASSUME SchemaInv, NoneBeforeUp, [Next]_vars PROVE NoneBeforeUp'
    OBVIOUS
  <2>1. proc \in [{Server, Cli} -> [pc : {"down", "boot", "migrate", "up"}, next : 0..Last + 1]]
    BY DEF SchemaInv, Schema!TypeOK, Schema!Procs
  <2>2. CASE Serve \/ UNCHANGED vars
    BY <2>2 DEF Serve, Serving, schema, vars, NoneBeforeUp
  <2>3. ASSUME NEW p \in {Server, Cli}, Open(p) PROVE NoneBeforeUp'
    <3>1. UNCHANGED req /\ (proc[Server].pc = "up" => proc'[Server].pc = "up")
      BY <2>1, <2>3, ProcsAssumption
         DEF Open, Schema!Start, Schema!Boot, Schema!ReadVersion, Schema!Migrate, Schema!Opened,
             Schema!Exit, Schema!Down
    <3> QED BY <3>1 DEF NoneBeforeUp
  <2>4. CASE CliEnds
    <3>1. UNCHANGED req /\ proc'[Server] = proc[Server]
      BY <2>1, <2>4, ProcsAssumption DEF CliEnds, Schema!Printed, Schema!Die, Schema!Exit
    <3> QED BY <3>1 DEF NoneBeforeUp
  <2>5. CASE ServerDies
    BY <2>5 DEF ServerDies, NoneBeforeUp
  <2> QED BY <2>2, <2>3, <2>4, <2>5 DEF Next
<1> QED BY <1>1, <1>2, SchemaHolds, PTL DEF Spec

(* Rows and requests change only while the schema is complete.             *)
THEOREM NothingServedBefore == Spec => SchemaFirst
<1>1. ASSUME SchemaInv, NoneBeforeUp, [Next]_vars
      PROVE  [(rows' # rows \/ req' # req) => version = Last]_vars
  <2>1. CASE Serve
    BY <1>1, <2>1 DEF SchemaInv, NotAhead, Serve, Serving
  <2>2. CASE \E p \in {Server, Cli} : Open(p)
    BY <2>2 DEF Open, rows
  <2>3. CASE CliEnds
    BY <2>3 DEF CliEnds, rows
  <2>4. CASE ServerDies
    BY <1>1, <2>4 DEF SchemaInv, NotAhead, NoneBeforeUp, ServerDies
  <2> QED BY <1>1, <2>1, <2>2, <2>3, <2>4 DEF Next
<1> QED BY <1>1, SchemaHolds, NoneBeforeUpHolds, PTL DEF Spec, SchemaFirst

----------------------------------------------------------------------------
(* Tags and links.                                                         *)

(* A name that is stored is neither blank nor too long.                    *)
LEMMA WantedStored ==
    ASSUME NEW T \in SUBSET Tables!Names
    PROVE  /\ Tables!Wanted(T) \subseteq Tables!StoredNames
           /\ \A n \in Tables!Wanted(T) : Tables!Fold(n) \in Tables!StoredNames
<1>1. ASSUME NEW n \in Tables!Names, n.word # "" PROVE Tables!Normalize(n) \in Tables!StoredNames
  BY <1>1 DEF Tables!Names, Tables!Forms, Tables!Normalize, Tables!StoredNames
<1>2. Tables!Wanted(T) \subseteq Tables!StoredNames
  BY <1>1 DEF Tables!Wanted
<1>3. ASSUME NEW n \in Tables!StoredNames PROVE Tables!Fold(n) \in Tables!StoredNames
  BY DEF Tables!Fold, Tables!StoredNames
<1> QED BY <1>2, <1>3

(* An update writes what it was sent.                                      *)
WritesSent == \A r \in Reqs : req[r] # Tables!Idle => req[r].names = req[r].sent

TablesInv == Tables!TypeOK /\ LinksJoin /\ WritesSent

LEMMA SetTagsTyped ==
    ASSUME NEW u \in Users, NEW i \in Items, NEW T \in SUBSET Tables!Names,
           tags \subseteq [user : Users, name : Tables!StoredNames],
           links \subseteq [item : Items, user : Users, tag : Tables!StoredNames],
           Tables!SetTags(u, i, Tables!Wanted(T))
    PROVE  /\ tags' \subseteq [user : Users, name : Tables!StoredNames]
           /\ links' \subseteq [item : Items, user : Users, tag : Tables!StoredNames]
<1> DEFINE N == Tables!Wanted(T)
<1>1. N \subseteq Tables!StoredNames /\ \A n \in N : Tables!Fold(n) \in Tables!StoredNames
  BY WantedStored
<1>2. /\ tags' \subseteq tags \cup {[user |-> u, name |-> n] : n \in N}
      /\ links' \subseteq links \cup {[item |-> i, user |-> u, tag |-> Tables!Fold(n)] : n \in N}
  BY DEF Tables!SetTags, Tables!Linked
<1> HIDE DEF N
<1> QED BY <1>1, <1>2

(* After setTagsTx every link of the item joins it and a tag of its user.  *)
LEMMA SetTagsJoins ==
    ASSUME NEW u \in Users, NEW i \in Items, NEW N, LinksJoin,
           Tables!SetTags(u, i, N), items' \in [Items -> Users \cup {Null, Gone}],
           items'[i] = u, \A j \in Items \ {i} : items'[j] = items[j],
           \A l \in links : l.item \in Items
    PROVE  LinksJoin'
<1> SUFFICES ASSUME NEW l \in links'
             PROVE  /\ items'[l.item] = l.user
                    /\ \E t \in tags' : t.user = l.user /\ Tables!Fold(t.name) = l.tag
  BY DEF LinksJoin, Tables!LinksJoin, Tables!TagsOf
<1>1. CASE l \in links /\ l.item # i
  <2>1. items[l.item] = l.user /\ \E t \in tags : t.user = l.user /\ Tables!Fold(t.name) = l.tag
    BY <1>1 DEF LinksJoin, Tables!LinksJoin, Tables!TagsOf
  <2> QED BY <1>1, <2>1 DEF Tables!SetTags
<1>2. CASE ~(l \in links /\ l.item # i)
  <2>1. PICK n \in N : l = [item |-> i, user |-> u, tag |-> Tables!Fold(n)]
    BY <1>2 DEF Tables!SetTags, Tables!Linked, Tables!LinksOf
  <2>2. CASE Tables!Known(u, n)
    <3>1. \E t \in tags : t.user = u /\ Tables!Fold(t.name) = Tables!Fold(n)
      BY <2>2 DEF Tables!Known, Tables!TagsOf
    <3> QED BY <2>1, <3>1 DEF Tables!SetTags
  <2>3. CASE ~Tables!Known(u, n)
    <3>1. [user |-> u, name |-> n] \in tags'
      BY <2>3 DEF Tables!SetTags
    <3> QED BY <2>1, <3>1
  <2> QED BY <2>2, <2>3
<1> QED BY <1>1, <1>2

LEMMA TablesInit == Init => TablesInv
<1> SUFFICES ASSUME Init PROVE TablesInv
  OBVIOUS
<1>1. items = [i \in Items |-> Null] /\ tags = {} /\ links = {} /\ req = [r \in Reqs |-> Tables!Idle]
  BY DEF Init, Tables!Init
<1> QED BY <1>1 DEF TablesInv, Tables!TypeOK, LinksJoin, Tables!LinksJoin, WritesSent

LEMMA CreateKeeps ==
    ASSUME TablesInv, NEW u \in Users, NEW i \in Items, NEW T \in Lists, Tables!Create(u, i, T)
    PROVE  TablesInv'
<1>1. T \in SUBSET Tables!Names
  BY ListsAssumption
<1>2. /\ items[i] = Null /\ items' = [items EXCEPT ![i] = u]
      /\ Tables!SetTags(u, i, Tables!Wanted(T)) /\ UNCHANGED req
  BY DEF Tables!Create
<1>3. items' \in [Items -> Users \cup {Null, Gone}]
  BY <1>2 DEF TablesInv, Tables!TypeOK
<1>4. Tables!TypeOK'
  BY <1>1, <1>2, <1>3, SetTagsTyped DEF TablesInv, Tables!TypeOK
<1>5. LinksJoin'
  BY <1>2, <1>3, SetTagsJoins DEF TablesInv, Tables!TypeOK
<1> QED BY <1>2, <1>4, <1>5 DEF TablesInv, WritesSent

LEMMA UpdateReadKeeps ==
    ASSUME TablesInv, NEW r \in Reqs, NEW u \in Users, NEW i \in Items, NEW T \in Lists \cup {Null},
           Tables!UpdateRead(r, u, i, T)
    PROVE  TablesInv'
<1>1. T \in (SUBSET Tables!Names) \cup {Null}
  BY ListsAssumption
<1> DEFINE h == [item |-> i, user |-> u, sent |-> T, names |-> T]
<1>2. req' = [req EXCEPT ![r] = h] /\ UNCHANGED <<items, tags, links>>
  BY DEF Tables!UpdateRead, Tables!Carried
<1>3. h \in Tables!Handlers
  BY <1>1 DEF Tables!Handlers
<1>4. \A q \in Reqs : req'[q] = req[q] \/ req'[q] = h
  BY <1>2
<1>5. Tables!TypeOK'
  BY <1>2, <1>3, <1>4 DEF TablesInv, Tables!TypeOK
<1>6. LinksJoin'
  BY <1>2 DEF TablesInv, LinksJoin, Tables!LinksJoin, Tables!TagsOf
<1>7. WritesSent'
  BY <1>4 DEF TablesInv, WritesSent
<1> QED BY <1>5, <1>6, <1>7 DEF TablesInv

(* A request that ends leaves the others as they are.                      *)
LEMMA EndKeeps ==
    ASSUME TablesInv, NEW r \in Reqs, req' = [req EXCEPT ![r] = Tables!Idle]
    PROVE  WritesSent' /\ \A q \in Reqs : req'[q] = Tables!Idle \/ req'[q] \in Tables!Handlers
<1>1. \A q \in Reqs : req'[q] = req[q] \/ req'[q] = Tables!Idle
  OBVIOUS
<1> QED BY <1>1 DEF TablesInv, Tables!TypeOK, WritesSent

LEMMA UpdateWriteKeeps ==
    ASSUME TablesInv, NEW r \in Reqs, Tables!UpdateWrite(r)
    PROVE  TablesInv'
<1> DEFINE h == req[r]
<1>1. h \in Tables!Handlers /\ req' = [req EXCEPT ![r] = Tables!Idle] /\ UNCHANGED items
  BY DEF Tables!UpdateWrite, TablesInv, Tables!TypeOK
<1>2. CASE UNCHANGED <<tags, links>>
  <2>1. LinksJoin'
    BY <1>1, <1>2 DEF TablesInv, LinksJoin, Tables!LinksJoin, Tables!TagsOf
  <2> QED BY <1>1, <1>2, <2>1, EndKeeps DEF TablesInv, Tables!TypeOK
<1>3. CASE ~UNCHANGED <<tags, links>>
  <2>1. /\ items[h.item] = h.user /\ h.names # Null
        /\ Tables!SetTags(h.user, h.item, Tables!Wanted(h.names))
    BY <1>3 DEF Tables!UpdateWrite, Tables!RowThere
  <2>2. h.user \in Users /\ h.item \in Items /\ h.names \in SUBSET Tables!Names
    BY <1>1, <2>1 DEF Tables!Handlers
  <2>3. items' \in [Items -> Users \cup {Null, Gone}] /\ \A l \in links : l.item \in Items
    BY <1>1 DEF TablesInv, Tables!TypeOK
  <2> HIDE DEF h
  <2>4. LinksJoin'
    BY <1>1, <2>1, <2>2, <2>3, SetTagsJoins DEF TablesInv
  <2>5. Tables!TypeOK'
    BY <1>1, <2>1, <2>2, <2>3, SetTagsTyped, EndKeeps DEF TablesInv, Tables!TypeOK
  <2> QED BY <1>1, <2>4, <2>5, EndKeeps DEF TablesInv
<1> QED BY <1>2, <1>3

LEMMA DeleteKeeps ==
    ASSUME TablesInv, NEW u \in Users, NEW i \in Items, Tables!Delete(u, i)
    PROVE  TablesInv'
<1>1. /\ items' = [items EXCEPT ![i] = Gone] /\ links' = links \ Tables!LinksOf(i)
      /\ tags' = tags \ Tables!Unlinked(u, links') /\ UNCHANGED req
  BY DEF Tables!Delete
<1>2. Tables!TypeOK'
  BY <1>1 DEF TablesInv, Tables!TypeOK
<1>3. ASSUME NEW l \in links'
      PROVE  /\ items'[l.item] = l.user
             /\ \E t \in tags' : t.user = l.user /\ Tables!Fold(t.name) = l.tag
  <2>1. l \in links /\ l.item # i /\ l.item \in Items
    BY <1>1 DEF Tables!LinksOf, TablesInv, Tables!TypeOK
  <2>2. items[l.item] = l.user
    BY <2>1 DEF TablesInv, LinksJoin, Tables!LinksJoin
  <2>3. PICK t \in tags : t.user = l.user /\ Tables!Fold(t.name) = l.tag
    BY <2>1 DEF TablesInv, LinksJoin, Tables!LinksJoin, Tables!TagsOf
  <2>4. t \notin Tables!Unlinked(u, links')
    BY <2>3 DEF Tables!Unlinked, Tables!TagsOf
  <2> QED BY <1>1, <2>1, <2>2, <2>3, <2>4 DEF TablesInv, Tables!TypeOK
<1>4. LinksJoin'
  BY <1>3 DEF LinksJoin, Tables!LinksJoin, Tables!TagsOf
<1> QED BY <1>1, <1>2, <1>4 DEF TablesInv, WritesSent

LEMMA TablesStep ==
    ASSUME TablesInv, [Next]_vars
    PROVE  TablesInv'
<1>1. ASSUME UNCHANGED <<items, tags, links, req>> PROVE TablesInv'
  BY <1>1 DEF TablesInv, Tables!TypeOK, LinksJoin, Tables!LinksJoin, Tables!TagsOf, WritesSent
<1>2. ASSUME NEW r \in Reqs, Tables!Fail(r) PROVE TablesInv'
  <2>1. LinksJoin'
    BY <1>2 DEF Tables!Fail, TablesInv, LinksJoin, Tables!LinksJoin, Tables!TagsOf
  <2> QED BY <1>2, <2>1, EndKeeps DEF Tables!Fail, TablesInv, Tables!TypeOK
<1>3. CASE Serve
  BY <1>2, <1>3, CreateKeeps, UpdateReadKeeps, UpdateWriteKeeps, DeleteKeeps DEF Serve, Tables!Next
<1>4. CASE ServerDies
  <2>1. UNCHANGED <<items, tags, links>> /\ req' = [r \in Reqs |-> Tables!Idle]
    BY <1>4 DEF ServerDies, rows
  <2>2. LinksJoin'
    BY <2>1 DEF TablesInv, LinksJoin, Tables!LinksJoin, Tables!TagsOf
  <2> QED BY <2>1, <2>2 DEF TablesInv, Tables!TypeOK, WritesSent
<1>5. CASE CliEnds \/ (\E p \in {Server, Cli} : Open(p)) \/ UNCHANGED vars
  BY <1>1, <1>5 DEF CliEnds, Open, vars, rows
<1> QED BY <1>3, <1>4, <1>5 DEF Next

LEMMA TablesHolds == Spec => []TablesInv
<1>1. TablesInv /\ [Next]_vars => TablesInv'
  BY TablesStep
<1> QED BY <1>1, TablesInit, PTL DEF Spec

(* Every variable keeps its type; stored names in particular are trimmed,  *)
(* cut and not blank.                                                      *)
THEOREM TypeCorrect == Spec => []TypeOK
<1>1. SchemaInv /\ TablesInv => TypeOK
  BY DEF SchemaInv, TablesInv, TypeOK
<1> QED BY <1>1, SchemaHolds, TablesHolds, PTL

(* A link joins an item and a tag that exist, of the link's user, although *)
(* no foreign key says so of the item.                                     *)
THEOREM NoDanglingLinks == Spec => []LinksJoin
<1>1. TablesInv => LinksJoin
  BY DEF TablesInv
<1> QED BY <1>1, TablesHolds, PTL

(* What may happen to the tables in one step.                              *)
TablesMove ==
    \/ UNCHANGED <<items, tags, links>>
    \/ \E u \in Users, i \in Items, T \in Lists : Tables!Create(u, i, T)
    \/ \E r \in Reqs : Tables!UpdateWrite(r)
    \/ \E u \in Users, i \in Items : Tables!Delete(u, i)

LEMMA MoveIs == [Next]_vars => TablesMove
BY DEF Next, vars, rows, Serve, Tables!Next, Tables!UpdateRead, Tables!Fail, Open, CliEnds, ServerDies,
       TablesMove

(* The tags of a user who deletes an item are all on some item after it,   *)
(* whatever replacements and other requests left behind before.            *)
THEOREM DeletionPrunes == Spec => PrunedOnDelete
<1> DEFINE Pruned ==
      \A i \in Items :
         items[i] # Gone /\ items'[i] = Gone =>
            \A t \in tags' : t.user = items[i] =>
               \E l \in links' : l.user = t.user /\ l.tag = Tables!Fold(t.name)
<1>1. ASSUME TablesInv, [Next]_vars PROVE [Pruned]_(Tables!vars)
  <2> SUFFICES ASSUME NEW i \in Items, items[i] # Gone, items'[i] = Gone,
                      NEW t \in tags', t.user = items[i]
               PROVE  \E l \in links' : l.user = t.user /\ l.tag = Tables!Fold(t.name)
    OBVIOUS
  <2>1. PICK u \in Users, j \in Items : Tables!Delete(u, j)
    <3>1. ~UNCHANGED <<items, tags, links>>
      OBVIOUS
    <3>2. ASSUME NEW u \in Users, NEW j \in Items, NEW T \in Lists, Tables!Create(u, j, T) PROVE FALSE
      BY <3>2, <1>1, NullAssumption DEF Tables!Create, TablesInv, Tables!TypeOK
    <3>3. ASSUME NEW r \in Reqs, Tables!UpdateWrite(r) PROVE FALSE
      BY <3>3 DEF Tables!UpdateWrite
    <3> QED BY <1>1, <3>1, <3>2, <3>3, MoveIs DEF TablesMove
  <2>2. i = j /\ u = items[i]
    BY <1>1, <2>1 DEF Tables!Delete, TablesInv, Tables!TypeOK
  <2>3. t \in tags /\ t \notin Tables!Unlinked(u, links')
    BY <2>1 DEF Tables!Delete
  <2> QED BY <2>2, <2>3 DEF Tables!Unlinked, Tables!TagsOf
<1> QED BY <1>1, TablesHolds, PTL DEF Spec, PrunedOnDelete, Tables!PrunedOnDelete

(* The tags of one user are out of reach of every other user's steps.      *)
THEOREM TagsArePrivate == Spec => OthersTagsKept
<1> DEFINE Private == \A u, v \in Users : u # v /\ Tables!TagsOf(u)' # Tables!TagsOf(u)
                                            => Tables!TagsOf(v)' = Tables!TagsOf(v)
<1>1. ASSUME [Next]_vars PROVE [Private]_(Tables!vars)
  <2>1. \E w : \A v \in Users \ {w} : Tables!TagsOf(v)' = Tables!TagsOf(v)
    <3>1. ASSUME NEW u, NEW i, NEW N, Tables!SetTags(u, i, N)
          PROVE  \A v \in Users \ {u} : Tables!TagsOf(v)' = Tables!TagsOf(v)
      BY <3>1 DEF Tables!SetTags, Tables!TagsOf
    <3>2. ASSUME NEW u \in Users, NEW i \in Items, Tables!Delete(u, i)
          PROVE  \A v \in Users \ {u} : Tables!TagsOf(v)' = Tables!TagsOf(v)
      BY <3>2 DEF Tables!Delete, Tables!Unlinked, Tables!TagsOf
    <3>3. ASSUME NEW r \in Reqs, Tables!UpdateWrite(r)
          PROVE  UNCHANGED tags \/ \E u, i, N : Tables!SetTags(u, i, N)
      BY <3>3 DEF Tables!UpdateWrite
    <3>4. ASSUME NEW u \in Users, NEW i \in Items, NEW T \in Lists, Tables!Create(u, i, T)
          PROVE  \E N : Tables!SetTags(u, i, N)
      BY <3>4 DEF Tables!Create
    <3>5. ASSUME UNCHANGED tags
          PROVE  \A v \in Users : Tables!TagsOf(v)' = Tables!TagsOf(v)
      BY <3>5 DEF Tables!TagsOf
    <3> QED BY <1>1, <3>1, <3>2, <3>3, <3>4, <3>5, MoveIs DEF TablesMove
  <2>2. Private
    BY <2>1
  <2> QED BY <2>2
<1> QED BY <1>1, PTL DEF Spec, OthersTagsKept, Tables!OthersTagsKept

(* An update that sends no tags leaves those that others wrote since it    *)
(* read the row: no request changes the tags of an item it did not mean to.*)
THEOREM TagsKept == Spec => KeptUnlessSent
<1> DEFINE Kept ==
      \A i \in Items :
         items[i] # Null /\ items'[i] # Gone /\ Tables!LinksOf(i)' # Tables!LinksOf(i) =>
            \E r \in Reqs : req[r].item = i /\ req[r].sent # Null /\ req'[r] = Tables!Idle
<1>1. ASSUME TablesInv, [Next]_vars PROVE [Kept]_(Tables!vars)
  <2> SUFFICES ASSUME NEW i \in Items, items[i] # Null, items'[i] # Gone,
                      Tables!LinksOf(i)' # Tables!LinksOf(i)
               PROVE  \E r \in Reqs : req[r].item = i /\ req[r].sent # Null /\ req'[r] = Tables!Idle
    OBVIOUS
  <2>1. ASSUME NEW u, NEW j, NEW N, Tables!SetTags(u, j, N) PROVE i = j
    BY <2>1 DEF Tables!SetTags, Tables!LinksOf
  <2>2. ASSUME NEW u \in Users, NEW j \in Items, NEW T \in Lists, Tables!Create(u, j, T) PROVE FALSE
    BY <2>1, <2>2 DEF Tables!Create
  <2>3. ASSUME NEW u \in Users, NEW j \in Items, Tables!Delete(u, j) PROVE FALSE
    <3>1. items' = [items EXCEPT ![j] = Gone] /\ links' = links \ Tables!LinksOf(j)
      BY <2>3 DEF Tables!Delete
    <3>2. i # j
      BY <1>1, <3>1 DEF TablesInv, Tables!TypeOK
    <3> QED BY <3>1, <3>2 DEF Tables!LinksOf
  <2>4. ~UNCHANGED links
    BY DEF Tables!LinksOf
  <2>5. PICK r \in Reqs : Tables!UpdateWrite(r)
    BY <1>1, <2>2, <2>3, <2>4, MoveIs DEF TablesMove
  <2>6. /\ req[r] # Tables!Idle /\ req[r].names # Null
        /\ Tables!SetTags(req[r].user, req[r].item, Tables!Wanted(req[r].names))
    BY <2>4, <2>5 DEF Tables!UpdateWrite
  <2>7. req[r].item = i
    BY <2>1, <2>6
  <2>8. req[r].sent # Null
    BY <1>1, <2>6 DEF TablesInv, WritesSent
  <2>9. req'[r] = Tables!Idle
    <3>1. req' = [req EXCEPT ![r] = Tables!Idle]
      BY <2>5 DEF Tables!UpdateWrite
    <3> QED BY <1>1, <3>1 DEF TablesInv, Tables!TypeOK
  <2> QED BY <2>7, <2>8, <2>9
<1> QED BY <1>1, TablesHolds, PTL DEF Spec, KeptUnlessSent, Tables!KeptUnlessSent

(* Names shown and sent back are the names there were, unless one was cut  *)
(* to end in a blank.                                                      *)
LEMMA ShownTwice ==
    ASSUME TablesInv, NEW i \in Items, NEW u \in Users, items[i] = u,
           \A n \in Tables!Shown(i) : n.form = "plain",
           Tables!SetTags(u, i, Tables!Wanted(Tables!Shown(i)))
    PROVE  Tables!LinksOf(i)' = Tables!LinksOf(i)
<1> DEFINE S == Tables!Shown(i)
<1>1. S \subseteq Tables!StoredNames
  BY DEF Tables!Shown, TablesInv, Tables!TypeOK
<1>2. ASSUME NEW n \in S PROVE n.word # "" /\ Tables!Normalize(n) = n
  <2>1. n \in [word : Words, upper : BOOLEAN, form : {"plain", "padded"}] /\ n.form = "plain"
    BY <1>1, <1>2 DEF Tables!StoredNames
  <2>2. [n EXCEPT !.form = "plain"] = n
    BY <2>1
  <2> QED BY <2>1, <2>2, WordsAssumption DEF Tables!Normalize
<1>3. Tables!Wanted(S) = S
  BY <1>2 DEF Tables!Wanted
<1>4. Tables!LinksOf(i)' = {[item |-> i, user |-> u, tag |-> Tables!Fold(n)] : n \in S}
  BY <1>3 DEF Tables!SetTags, Tables!Linked, Tables!LinksOf
<1>5. \A l \in Tables!LinksOf(i) :
         /\ l = [item |-> i, user |-> u, tag |-> l.tag]
         /\ \E n \in S : Tables!Fold(n) = l.tag
  <2> SUFFICES ASSUME NEW l \in links, l.item = i
               PROVE  /\ l = [item |-> i, user |-> u, tag |-> l.tag]
                      /\ \E n \in S : Tables!Fold(n) = l.tag
    BY DEF Tables!LinksOf
  <2>1. l.user = u /\ \E t \in tags : t.user = l.user /\ Tables!Fold(t.name) = l.tag
    BY DEF TablesInv, LinksJoin, Tables!LinksJoin, Tables!TagsOf
  <2>2. l = [item |-> i, user |-> u, tag |-> l.tag]
    BY <2>1 DEF TablesInv, Tables!TypeOK
  <2>3. \E n \in S : Tables!Fold(n) = l.tag
    BY <2>1 DEF Tables!Shown, Tables!LinksOf
  <2> QED BY <2>2, <2>3
<1>6. \A n \in S : \E l \in Tables!LinksOf(i) : l.tag = Tables!Fold(n)
  BY DEF Tables!Shown
<1> QED BY <1>4, <1>5, <1>6

(* A client that saves an item with the tags it was shown, still up to     *)
(* date, changes no tag of it.                                             *)
THEOREM SendingBackIsSafe == Spec => SentBackKeeps
<1> DEFINE Same ==
      \A r \in Reqs, i \in Items :
         /\ req[r].item = i /\ req'[r] = Tables!Idle
         /\ req[r].sent = Tables!Shown(i)
         /\ \A n \in Tables!Shown(i) : n.form = "plain"
         => Tables!LinksOf(i)' = Tables!LinksOf(i) \/ items'[i] = Gone
<1>1. ASSUME TablesInv, [Next]_vars PROVE [Same]_(Tables!vars)
  <2> SUFFICES ASSUME NEW r \in Reqs, NEW i \in Items,
                      req[r].item = i, req'[r] = Tables!Idle, req[r].sent = Tables!Shown(i),
                      \A n \in Tables!Shown(i) : n.form = "plain"
               PROVE  Tables!LinksOf(i)' = Tables!LinksOf(i)
    OBVIOUS
  <2>1. req[r] # Tables!Idle
    BY NullAssumption DEF Tables!Idle
  <2>2. CASE UNCHANGED links
    BY <2>2 DEF Tables!LinksOf
  <2>3. ASSUME NEW u \in Users, NEW j \in Items,
               Tables!Delete(u, j) \/ \E T \in Lists : Tables!Create(u, j, T)
        PROVE  FALSE
    BY <2>1, <2>3 DEF Tables!Delete, Tables!Create
  <2>4. ASSUME NEW q \in Reqs, Tables!UpdateWrite(q), ~UNCHANGED links
        PROVE  Tables!LinksOf(i)' = Tables!LinksOf(i)
    <3>1. q = r
      <4>1. req' = [req EXCEPT ![q] = Tables!Idle]
        BY <2>4 DEF Tables!UpdateWrite
      <4> QED BY <1>1, <2>1, <4>1 DEF TablesInv, Tables!TypeOK
    <3>2. /\ items[i] = req[r].user /\ req[r].user \in Users
          /\ Tables!SetTags(req[r].user, i, Tables!Wanted(req[r].names))
      BY <1>1, <2>1, <2>4, <3>1
         DEF Tables!UpdateWrite, Tables!RowThere, TablesInv, Tables!TypeOK, Tables!Handlers
    <3>3. req[r].names = Tables!Shown(i)
      BY <1>1, <2>1 DEF TablesInv, WritesSent
    <3> QED BY <1>1, <3>2, <3>3, ShownTwice
  <2> QED BY <1>1, <2>2, <2>3, <2>4, MoveIs DEF TablesMove
<1> QED BY <1>1, TablesHolds, PTL DEF Spec, SentBackKeeps, Tables!SentBackKeeps
=============================================================================
