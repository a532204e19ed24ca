---------------------------- MODULE NotesProofs ----------------------------
(* Proofs about Notes, for any number of users, notes, folders, requests   *)
(* and faults: what one user's requests can do to another's notes, and     *)
(* what the sweep can do to anybody's.                                     *)
EXTENDS Notes, TLAPS

(* A folder a handler has looked up: it was the user's, and is still, or   *)
(* it is gone.  Its identifier is taken, so nobody else will ever own it.  *)
Mine(u, f) == f \in Folders => f \in minted /\ folders[f] \in {u, Null}

(* A note a handler has made or found: the user's, or gone.                *)
Own(u, i) == i \in NoteIds \cap minted /\ (notes[i] # Null => notes[i].user = u)

(* What the handler of r has made sure of by the time it is at each step.  *)
HandlerOK(r) ==
    LET h == req[r] IN
    /\ h.pc \in {"create_folder", "create_row"} =>
         h.title \in Titles /\ h.body \in Bodies /\ h.note = Null
    /\ h.pc = "create_row" => Mine(h.user, h.folder)
    /\ h.pc \in {"create_tmp", "create_rename"} => h.body \in Bodies /\ Own(h.user, h.note)
    /\ h.pc \in {"update_read", "delete_row"} => h.note \in NoteIds \cap minted
    /\ h.pc \in {"update_folder", "update_tmp", "update_rename", "update_row"} =>
         /\ h.row \in Rows /\ h.row.user = h.user
         /\ Mine(h.user, h.row.folder) /\ Own(h.user, h.note)
    /\ h.pc \in {"update_tmp", "update_rename"} => h.body \in Bodies
    /\ h.pc \in {"update_tmp", "update_rename", "update_row"} => Mine(h.user, h.folder)
    /\ h.pc = "delete_body" => Own(h.user, h.note) /\ notes[h.note] = Null

TablesInv ==
    /\ notes \in [NoteIds -> Rows \cup {Null}]
    /\ folders \in [Folders -> Users \cup {Null}]
    /\ minted \subseteq NoteIds \cup Folders
    /\ \A i \in NoteIds : notes[i] # Null => i \in minted
    /\ \A f \in Folders : folders[f] # Null => f \in minted
    /\ FolderOwnership

HandlersInv ==
    /\ req \in [Reqs -> Handlers \cup {Idle}]
    /\ \A r \in Reqs : req[r] # Idle => HandlerOK(r)

BodiesInv == disk \in [Keys -> Bodies \cup {Null}] /\ BodyHasOwner

(* The keep set has every note the process found when it started.          *)
SweepInv ==
    /\ sweep \in [phase : Phases, keep : SUBSET Keys, dirs : SUBSET Users,
                  todo : SUBSET (Keys \cup Reqs \cup Litter)]
    /\ atBoot \subseteq NoteIds \cap minted
    /\ sweep.phase = "walk" =>
         \A i \in atBoot : notes[i] # Null => <<notes[i].user, i>> \in sweep.keep

(* A temp file is there only while its request is about to rename it.      *)
RestInv ==
    /\ tmps \subseteq Reqs
    /\ \A r \in tmps : req[r].pc \in {"create_rename", "update_rename"}
    /\ litter \subseteq Litter
    /\ clean \subseteq NoteIds /\ faults \in 0..MaxFaults

NotesInv == TablesInv /\ HandlersInv /\ BodiesInv /\ SweepInv /\ RestInv

(* What no step may do to the tables: give a taken identifier to anybody.  *)
Steady ==
    /\ minted \subseteq minted'
    /\ \A f \in Folders \cap minted : folders'[f] \in {folders[f], Null}
    /\ \A i \in NoteIds \cap minted :
         /\ notes[i] = Null => notes'[i] = Null
         /\ notes'[i] # Null => notes'[i].user = notes[i].user

(* A handler at work is no idle one.                                       *)
LEMMA AtWork ==
  ASSUME HandlersInv, NEW r \in Reqs, NEW pc \in Pcs, At(r, pc)
  PROVE  req[r] # Idle /\ req[r] \in Handlers /\ HandlerOK(r)
  BY DEF HandlersInv, At, Idle, Pcs

----------------------------------------------------------------------------
(* The tables.                                                             *)

LEMMA CreateRowTables ==
  ASSUME NotesInv, NEW r \in Reqs, CreateRow(r)
  PROVE  TablesInv' /\ Steady
  <1> DEFINE h == req[r]
             f == FolderOf(h.folder)
  <1>1. h \in Handlers /\ h.title \in Titles /\ h.body \in Bodies /\ Mine(h.user, h.folder)
    BY AtWork DEF NotesInv, CreateRow, Pcs, HandlerOK, At
  <1>2. CASE ~FolderRefOK(f)
    BY <1>2 DEF CreateRow, Steady, NotesInv, TablesInv, FolderOwnership
  <1>3. ASSUME FolderRefOK(f), NEW i \in NoteIds \ minted,
               notes' = [notes EXCEPT ![i] = [user |-> h.user, folder |-> f,
                                              title |-> h.title, size |-> BodyLen[h.body]]],
               minted' = minted \cup {i}, folders' = folders
        PROVE  TablesInv' /\ Steady
    <2> DEFINE row == [user |-> h.user, folder |-> f, title |-> h.title,
                       size |-> BodyLen[h.body]]
    <2>1. f # Null => f \in Folders /\ folders[f] = h.user
      BY <1>1, <1>3 DEF FolderOf, FolderRefOK, Mine
    <2>2. row \in Rows
      BY <1>1, <2>1, BodyLenAssumption DEF Rows, Handlers
    <2>3. row.user = h.user /\ row.folder = f
      OBVIOUS
    <2> HIDE DEF row
    <2>4. notes' = [notes EXCEPT ![i] = row]
      BY <1>3 DEF row
    <2>5. TablesInv'
      BY <1>3, <2>1, <2>2, <2>3, <2>4 DEF NotesInv, TablesInv, FolderOwnership
    <2>6. Steady
      BY <1>3, <2>4 DEF Steady, NotesInv, TablesInv
    <2> QED
      BY <2>5, <2>6
  <1> QED
    BY <1>2, <1>3 DEF CreateRow

LEMMA UpdateRowTables ==
  ASSUME NotesInv, NEW r \in Reqs, UpdateRow(r)
  PROVE  TablesInv' /\ Steady
  <1> DEFINE h == req[r]
             row == NewRow(h)
  <1>1. /\ h \in Handlers /\ h.row \in Rows /\ h.row.user = h.user
        /\ Mine(h.user, h.row.folder) /\ Mine(h.user, h.folder)
    BY AtWork DEF NotesInv, UpdateRow, Pcs, HandlerOK, At
  <1>2. CASE ~UpdateSucceeds(h)
    BY <1>2 DEF UpdateRow, Steady, NotesInv, TablesInv, FolderOwnership
  <1>3. CASE UpdateSucceeds(h)
    <2>1. row \in Rows /\ row.user = h.user
      BY <1>1 DEF NewRow, Rows, FolderOf
    <2>2. row.folder \in {h.row.folder, FolderOf(h.folder)}
      BY <1>1 DEF NewRow, Rows
    <2>3. row.folder # Null => row.folder \in Folders /\ folders[row.folder] = h.user
      BY <1>1, <1>3, <2>1, <2>2 DEF UpdateSucceeds, FolderRefOK, FolderOf, Mine, Rows
    <2> HIDE DEF row
    <2>4. notes' = [notes EXCEPT ![h.note] = row] /\ UNCHANGED <<folders, minted>>
      BY <1>3 DEF UpdateRow, row
    <2>5. h.note \in NoteIds /\ notes[h.note] # Null /\ notes[h.note].user = h.user
      BY <1>3 DEF UpdateSucceeds, OwnsNote
    <2>6. TablesInv'
      BY <2>1, <2>3, <2>4, <2>5 DEF NotesInv, TablesInv, FolderOwnership
    <2>7. Steady
      BY <2>1, <2>4, <2>5 DEF Steady, NotesInv, TablesInv
    <2> QED
      BY <2>6, <2>7
  <1> QED
    BY <1>2, <1>3

LEMMA DeleteRowTables ==
  ASSUME NotesInv, NEW r \in Reqs, DeleteRow(r)
  PROVE  TablesInv' /\ Steady
  BY DEF DeleteRow, Steady, NotesInv, TablesInv, FolderOwnership

LEMMA FolderTables ==
  ASSUME NotesInv, NEW u \in Users, NEW f \in Folders, CreateFolder(u, f) \/ DeleteFolder(u, f)
  PROVE  TablesInv' /\ Steady
  <1>1. CASE CreateFolder(u, f)
    <2>1. folders' = [folders EXCEPT ![f] = u] /\ minted' = minted \cup {f} /\ notes' = notes
      BY <1>1 DEF CreateFolder
    <2>2. f \notin minted /\ folders[f] = Null
      BY <1>1 DEF CreateFolder, NotesInv, TablesInv
    <2>3. \A i \in NoteIds : notes[i] # Null => notes[i].user # Null /\ notes[i].folder # f
      BY <2>2, NullAssumption DEF NotesInv, TablesInv, FolderOwnership, Rows
    <2>4. FolderOwnership'
      BY <2>1, <2>3 DEF NotesInv, TablesInv, FolderOwnership, Rows
    <2>5. TablesInv'
      BY <2>1, <2>4 DEF NotesInv, TablesInv
    <2>6. Steady
      BY <2>1, <2>2 DEF Steady, NotesInv, TablesInv
    <2> QED
      BY <2>5, <2>6
  <1>2. CASE DeleteFolder(u, f)
    <2>1. \A i \in NoteIds : notes[i] # Null =>
            /\ [notes[i] EXCEPT !.folder = Null] \in Rows
            /\ [notes[i] EXCEPT !.folder = Null].user = notes[i].user
            /\ [notes[i] EXCEPT !.folder = Null].folder = Null
      BY DEF NotesInv, TablesInv, Rows
    <2>2. \A i \in NoteIds : notes[i] = Null => notes'[i] = Null
      BY <1>2 DEF DeleteFolder
    <2>3. \A i \in NoteIds : notes[i] # Null =>
            /\ notes'[i] \in Rows /\ notes'[i].user = notes[i].user
            /\ notes'[i].folder \in {Null, notes[i].folder} \ {f}
      BY <1>2, <2>1, NullAssumption DEF DeleteFolder, NotesInv, TablesInv
    <2>4. notes' \in [NoteIds -> Rows \cup {Null}]
      BY <1>2, <2>2, <2>3 DEF DeleteFolder, NotesInv, TablesInv
    <2>5. folders' = [folders EXCEPT ![f] = Null] /\ minted' = minted
      BY <1>2 DEF DeleteFolder
    <2>6. TablesInv'
      BY <2>2, <2>3, <2>4, <2>5 DEF NotesInv, TablesInv, FolderOwnership, Rows
    <2>7. Steady
      BY <2>2, <2>3, <2>5 DEF Steady, NotesInv, TablesInv
    <2> QED
      BY <2>6, <2>7
  <1> QED
    BY <1>1, <1>2

LEMMA SameTables ==
  ASSUME NotesInv, UNCHANGED <<notes, folders, minted>>
  PROVE  TablesInv' /\ Steady
  BY DEF Steady, NotesInv, TablesInv, FolderOwnership

----------------------------------------------------------------------------
(* The handlers.                                                           *)

(* What a handler has made sure of stays so while others work.             *)
LEMMA StillOK ==
  ASSUME NotesInv, Steady, NEW r \in Reqs, HandlerOK(r), req[r] \in Handlers, req'[r] = req[r]
  PROVE  HandlerOK(r)'
  <1>1. \A u \in Users : \A f : Mine(u, f) => Mine(u, f)'
    BY DEF Mine, Steady
  <1>2. \A u \in Users : \A i : Own(u, i) => Own(u, i)'
    BY DEF Own, Steady
  <1>3. \A i \in NoteIds \cap minted : i \in minted' /\ (notes[i] = Null => notes'[i] = Null)
    BY DEF Steady
  <1>4. \A u \in Users : \A i : Own(u, i) => i \in NoteIds \cap minted
    BY DEF Own
  <1>5. req[r].user \in Users
    BY DEF Handlers
  <1> QED
    BY <1>1, <1>2, <1>3, <1>4, <1>5 DEF HandlerOK

LEMMA OneHandler ==
  ASSUME NotesInv, Steady, NEW r \in Reqs, req' = [req EXCEPT ![r] = req'[r]],
         req'[r] \in Handlers \cup {Idle}, req'[r] # Idle => HandlerOK(r)'
  PROVE  HandlersInv'
  <1>1. req' \in [Reqs -> Handlers \cup {Idle}]
    BY DEF NotesInv, HandlersInv
  <1>2. \A s \in Reqs \ {r} : req'[s] = req[s]
    BY DEF NotesInv, HandlersInv
  <1>3. \A s \in Reqs \ {r} : req'[s] # Idle => HandlerOK(s)'
    BY <1>2, StillOK DEF NotesInv, HandlersInv
  <1> QED
    BY <1>1, <1>3 DEF HandlersInv

(* A handler that ends.                                                    *)
LEMMA Ended ==
  ASSUME NotesInv, Steady, NEW r \in Reqs, Respond(r)
  PROVE  HandlersInv'
  <1>1. req' = [req EXCEPT ![r] = req'[r]] /\ req'[r] = Idle
    BY DEF Respond, NotesInv, HandlersInv
  <1> QED
    BY <1>1, OneHandler

LEMMA CreateHandlers ==
  ASSUME NotesInv, Steady, NEW r \in Reqs, NEW u \in Users, NEW t \in Titles, NEW b \in Bodies,
         NEW f \in FolderArgs, Create(r, u, t, b, f)
  PROVE  HandlersInv'
  <1> DEFINE h == [pc |-> IF f \in Folders THEN "create_folder" ELSE "create_row",
                   user |-> u, note |-> Null, title |-> t, body |-> b, folder |-> f, row |-> Null]
  <1>1. h \in Handlers /\ h.title = t /\ h.body = b /\ h.user = u /\ h.folder = f
        /\ h.note = Null /\ h.pc \in {"create_folder", "create_row"}
        /\ (h.pc = "create_row" => f \notin Folders)
    BY DEF Handlers, Pcs
  <1> HIDE DEF h
  <1>2. req' = [req EXCEPT ![r] = req'[r]] /\ req'[r] = h
    BY DEF Create, NotesInv, HandlersInv, h
  <1>3. HandlerOK(r)'
    BY <1>1, <1>2 DEF HandlerOK, Mine
  <1> QED
    BY <1>1, <1>2, <1>3, OneHandler

LEMMA ArriveHandlers ==
  ASSUME NotesInv, Steady, NEW r \in Reqs, NEW u \in Users, NEW i \in NoteIds \cap minted,
         \/ \E t \in Titles \cup {Null}, b \in Bodies \cup {Null}, f \in FolderArgs :
              Update(r, u, i, t, b, f)
         \/ Delete(r, u, i)
  PROVE  HandlersInv'
  <1>1. req' = [req EXCEPT ![r] = req'[r]] /\ req'[r] \in Handlers
        /\ req'[r].pc \in {"update_read", "delete_row"} /\ req'[r].note = i
    <2>1. ASSUME NEW t \in Titles \cup {Null}, NEW b \in Bodies \cup {Null}, NEW f \in FolderArgs,
                 Update(r, u, i, t, b, f)
          PROVE  /\ req' = [req EXCEPT ![r] = req'[r]] /\ req'[r] \in Handlers
                 /\ req'[r].pc \in {"update_read", "delete_row"} /\ req'[r].note = i
      BY <2>1 DEF Update, NotesInv, HandlersInv, Handlers, Pcs
    <2>2. CASE Delete(r, u, i)
      BY <2>2 DEF Delete, NotesInv, HandlersInv, Handlers, Pcs
    <2> QED
      BY <2>1, <2>2
  <1>2. HandlerOK(r)'
    BY <1>1 DEF HandlerOK, Steady
  <1> QED
    BY <1>1, <1>2, OneHandler

LEMMA CreateFolderCheckHandlers ==
  ASSUME NotesInv, Steady, NEW r \in Reqs, CreateFolderCheck(r)
  PROVE  HandlersInv'
  <1>1. CASE Respond(r)
    BY <1>1, Ended
  <1>2. CASE FolderOwned(req[r].user, req[r].folder) /\ Goto(r, "create_row")
    <2>1. req[r] \in Handlers /\ HandlerOK(r) /\ req[r].pc = "create_folder"
      BY AtWork DEF NotesInv, CreateFolderCheck, Pcs, At
    <2>2. req' = [req EXCEPT ![r] = req'[r]] /\ req'[r] = [req[r] EXCEPT !.pc = "create_row"]
      BY <1>2 DEF Goto, NotesInv, HandlersInv
    <2>3. /\ req'[r] \in Handlers /\ req'[r].pc = "create_row"
          /\ req'[r].user = req[r].user /\ req'[r].folder = req[r].folder
          /\ req'[r].title = req[r].title /\ req'[r].body = req[r].body
          /\ req'[r].note = req[r].note
      BY <2>1, <2>2 DEF Handlers, Pcs
    <2>4. Mine(req[r].user, req[r].folder)'
      BY <1>2, <2>1, <2>3, NullAssumption
      DEF CreateFolderCheck, FolderOwned, Mine, NotesInv, TablesInv, Handlers
    <2>5. HandlerOK(r)'
      BY <2>1, <2>3, <2>4 DEF HandlerOK
    <2> QED
      BY <2>2, <2>3, <2>5, OneHandler
  <1> QED
    BY <1>1, <1>2 DEF CreateFolderCheck

LEMMA CreateRowHandlers ==
  ASSUME NotesInv, Steady, NEW r \in Reqs, CreateRow(r)
  PROVE  HandlersInv'
  <1>1. CASE Respond(r)
    BY <1>1, Ended
  <1>2. ASSUME NEW i \in NoteIds \ minted,
               notes' = [notes EXCEPT ![i] =
                 [user |-> req[r].user, folder |-> FolderOf(req[r].folder),
                  title |-> req[r].title, size |-> BodyLen[req[r].body]]],
               minted' = minted \cup {i},
               req' = [req EXCEPT ![r].pc = "create_tmp", ![r].note = i]
        PROVE  HandlersInv'
    <2>1. req[r] \in Handlers /\ HandlerOK(r) /\ req[r].pc = "create_row"
      BY AtWork DEF NotesInv, CreateRow, Pcs, At
    <2>2. /\ req' = [req EXCEPT ![r] = req'[r]]
          /\ req'[r] = [req[r] EXCEPT !.pc = "create_tmp", !.note = i]
      BY <1>2 DEF NotesInv, HandlersInv
    <2>3. notes'[i].user = req[r].user
      BY <1>2 DEF NotesInv, TablesInv
    <2>4. req'[r] \in Handlers
      BY <2>1, <2>2 DEF Handlers, Pcs
    <2>5. req'[r].pc = "create_tmp" /\ req'[r].note = i /\ req'[r].user = req[r].user
          /\ req'[r].body = req[r].body /\ req[r].body \in Bodies
      BY <2>1, <2>2 DEF HandlerOK, Handlers
    <2>6. HandlerOK(r)'
      BY <1>2, <2>3, <2>5 DEF HandlerOK, Own
    <2> QED
      BY <2>2, <2>4, <2>6, OneHandler
  <1> QED
    BY <1>1, <1>2 DEF CreateRow

LEMMA WriteTmpHandlers ==
  ASSUME NotesInv, Steady, NEW r \in Reqs, WriteTmp(r)
  PROVE  HandlersInv'
  <1>1. req[r] \in Handlers /\ HandlerOK(r) /\ req[r].pc \in {"create_tmp", "update_tmp"}
    BY AtWork DEF NotesInv, WriteTmp, Pcs, At
  <1>2. PICK pc \in {"create_rename", "update_rename"} :
          /\ req' = [req EXCEPT ![r] = req'[r]] /\ req'[r] = [req[r] EXCEPT !.pc = pc]
          /\ req[r].pc = IF pc = "create_rename" THEN "create_tmp" ELSE "update_tmp"
    BY DEF WriteTmp, At, Goto, NotesInv, HandlersInv
  <1>3. /\ req'[r] \in Handlers /\ req'[r].pc = pc
        /\ req'[r].user = req[r].user /\ req'[r].folder = req[r].folder
        /\ req'[r].note = req[r].note /\ req'[r].body = req[r].body /\ req'[r].row = req[r].row
    BY <1>1, <1>2 DEF Handlers, Pcs
  <1>4. HandlerOK(r)'
    BY <1>1, <1>2, <1>3 DEF HandlerOK, Own, Mine, WriteTmp
  <1> QED
    BY <1>2, <1>3, <1>4, OneHandler

LEMMA RenameHandlers ==
  ASSUME NotesInv, Steady, NEW r \in Reqs, Rename(r)
  PROVE  HandlersInv'
  <1>1. CASE Respond(r)
    BY <1>1, Ended
  <1>2. CASE /\ req[r].pc = "update_rename"
             /\ req' = [req EXCEPT ![r].pc = "update_row",
                                   ![r].row = Sized(req[r].row, req[r].body)]
    <2>1. req[r] \in Handlers /\ HandlerOK(r)
      BY <1>2, AtWork DEF NotesInv, Pcs, At
    <2> DEFINE row == Sized(req[r].row, req[r].body)
    <2>2. req[r].row \in Rows /\ req[r].body \in Bodies
      BY <1>2, <2>1 DEF HandlerOK
    <2>3. row \in Rows /\ row.user = req[r].row.user /\ row.folder = req[r].row.folder
      BY <2>2, BodyLenAssumption DEF Sized, Rows
    <2> HIDE DEF row
    <2>4. /\ req' = [req EXCEPT ![r] = req'[r]]
          /\ req'[r] = [req[r] EXCEPT !.pc = "update_row", !.row = row]
      BY <1>2 DEF NotesInv, HandlersInv, row
    <2>5. "update_row" \in Pcs
      BY DEF Pcs
    <2>6. /\ req'[r] \in Handlers /\ req'[r].pc = "update_row" /\ req'[r].row = row
          /\ req'[r].user = req[r].user /\ req'[r].folder = req[r].folder
          /\ req'[r].note = req[r].note
      BY <2>1, <2>3, <2>4, <2>5 DEF Handlers
    <2>7. HandlerOK(r)'
      <3>1. UNCHANGED <<notes, folders, minted>>
        BY DEF Rename
      <3>2. /\ Mine(req[r].user, req[r].row.folder) /\ Own(req[r].user, req[r].note)
            /\ req[r].row.user = req[r].user /\ Mine(req[r].user, req[r].folder)
        BY <1>2, <2>1 DEF HandlerOK
      <3>3. row \in Rows /\ row.user = req[r].user /\ Mine(req[r].user, row.folder)
        BY <2>3, <3>2
      <3> QED
        BY <2>6, <3>1, <3>2, <3>3 DEF HandlerOK, Own, Mine
    <2> QED
      BY <2>4, <2>6, <2>7, OneHandler
  <1> QED
    BY <1>1, <1>2 DEF Rename, At

LEMMA UpdateReadHandlers ==
  ASSUME NotesInv, Steady, NEW r \in Reqs, UpdateRead(r)
  PROVE  HandlersInv'
  <1>1. CASE Respond(r)
    BY <1>1, Ended
  <1>2. CASE /\ OwnsNote(req[r].user, req[r].note)
             /\ req' = [req EXCEPT
                  ![r].pc  = IF KeepsFolder(req[r].folder) THEN AfterFolder(req[r])
                                                           ELSE "update_folder",
                  ![r].row = Retitled(notes[req[r].note], req[r].title)]
    <2> DEFINE row == Retitled(notes[req[r].note], req[r].title)
               pc  == IF KeepsFolder(req[r].folder) THEN AfterFolder(req[r]) ELSE "update_folder"
    <2>1. req[r] \in Handlers /\ HandlerOK(r) /\ req[r].pc = "update_read"
      BY AtWork DEF NotesInv, UpdateRead, Pcs, At
    <2>2. /\ req[r].note \in NoteIds \cap minted /\ notes[req[r].note] \in Rows
          /\ notes[req[r].note].user = req[r].user
      BY <1>2 DEF OwnsNote, NotesInv, TablesInv
    <2>3. row \in Rows /\ row.user = req[r].user /\ row.folder = notes[req[r].note].folder
      BY <2>1, <2>2 DEF Retitled, Rows, Handlers
    <2>4. row.folder # Null => folders[row.folder] = row.user /\ row.folder \in minted
      BY <2>2, <2>3, NullAssumption DEF NotesInv, TablesInv, FolderOwnership, Rows
    <2>5. pc \in {"update_folder", "update_tmp", "update_row"}
          /\ (pc = "update_tmp" => req[r].body # Null)
          /\ (pc # "update_folder" => req[r].folder \notin Folders)
      BY WordsAssumption DEF AfterFolder, KeepsFolder
    <2> HIDE DEF row, pc
    <2>6. req' = [req EXCEPT ![r] = req'[r]] /\ req'[r] = [req[r] EXCEPT !.pc = pc, !.row = row]
      BY <1>2 DEF NotesInv, HandlersInv, row, pc
    <2>7. /\ req'[r] \in Handlers /\ req'[r].pc = pc /\ req'[r].row = row
          /\ req'[r].user = req[r].user /\ req'[r].folder = req[r].folder
          /\ req'[r].note = req[r].note /\ req'[r].body = req[r].body
      BY <2>1, <2>3, <2>5, <2>6 DEF Handlers, Pcs
    <2>8. Mine(req'[r].user, row.folder) /\ Own(req[r].user, req[r].note)
      BY <2>2, <2>3, <2>4, <2>7, NullAssumption DEF Mine, Own
    <2>9. UNCHANGED <<notes, folders, minted>>
      BY DEF UpdateRead
    <2>10. HandlerOK(r)'
      BY <2>1, <2>3, <2>5, <2>7, <2>8, <2>9 DEF HandlerOK, Own, Mine, Handlers
    <2> QED
      BY <2>6, <2>7, <2>10, OneHandler
  <1> QED
    BY <1>1, <1>2 DEF UpdateRead

LEMMA UpdateFolderCheckHandlers ==
  ASSUME NotesInv, Steady, NEW r \in Reqs, UpdateFolderCheck(r)
  PROVE  HandlersInv'
  <1>1. CASE Respond(r)
    BY <1>1, Ended
  <1>2. CASE FolderOwned(req[r].user, req[r].folder) /\ Goto(r, AfterFolder(req[r]))
    <2> DEFINE pc == AfterFolder(req[r])
    <2>1. req[r] \in Handlers /\ HandlerOK(r) /\ req[r].pc = "update_folder"
      BY AtWork DEF NotesInv, UpdateFolderCheck, Pcs, At
    <2>2. pc \in {"update_tmp", "update_row"} /\ (pc = "update_tmp" => req[r].body # Null)
      BY DEF AfterFolder
    <2> HIDE DEF pc
    <2>3. req' = [req EXCEPT ![r] = req'[r]] /\ req'[r] = [req[r] EXCEPT !.pc = pc]
      BY <1>2 DEF Goto, NotesInv, HandlersInv, pc
    <2>4. /\ req'[r] \in Handlers /\ req'[r].pc = pc /\ req'[r].row = req[r].row
          /\ req'[r].user = req[r].user /\ req'[r].folder = req[r].folder
          /\ req'[r].note = req[r].note /\ req'[r].body = req[r].body
      BY <2>1, <2>2, <2>3 DEF Handlers, Pcs
    <2>5. UNCHANGED <<notes, folders, minted>>
      BY DEF UpdateFolderCheck
    <2>6. Mine(req'[r].user, req'[r].folder)
      BY <1>2, <2>1, <2>4, NullAssumption DEF FolderOwned, Mine, NotesInv, TablesInv, Handlers
    <2>7. HandlerOK(r)'
      BY <2>1, <2>2, <2>4, <2>5, <2>6 DEF HandlerOK, Own, Mine, Handlers
    <2> QED
      BY <2>3, <2>4, <2>7, OneHandler
  <1> QED
    BY <1>1, <1>2 DEF UpdateFolderCheck

LEMMA DeleteRowHandlers ==
  ASSUME NotesInv, Steady, NEW r \in Reqs, DeleteRow(r)
  PROVE  HandlersInv'
  <1>1. CASE Respond(r)
    BY <1>1, Ended
  <1>2. CASE /\ OwnsNote(req[r].user, req[r].note)
             /\ notes' = [notes EXCEPT ![req[r].note] = Null] /\ Goto(r, "delete_body")
    <2>1. req[r] \in Handlers /\ HandlerOK(r) /\ req[r].pc = "delete_row"
      BY AtWork DEF NotesInv, DeleteRow, Pcs, At
    <2>2. req' = [req EXCEPT ![r] = req'[r]] /\ req'[r] = [req[r] EXCEPT !.pc = "delete_body"]
      BY <1>2 DEF Goto, NotesInv, HandlersInv
    <2>3. /\ req'[r] \in Handlers /\ req'[r].pc = "delete_body"
          /\ req'[r].user = req[r].user /\ req'[r].note = req[r].note
      BY <2>1, <2>2 DEF Handlers, Pcs
    <2>4. req[r].note \in NoteIds \cap minted' /\ notes'[req[r].note] = Null
      BY <1>2 DEF DeleteRow, OwnsNote, NotesInv, TablesInv
    <2>5. HandlerOK(r)'
      BY <2>3, <2>4 DEF HandlerOK, Own
    <2> QED
      BY <2>2, <2>3, <2>5, OneHandler
  <1> QED
    BY <1>1, <1>2 DEF DeleteRow

----------------------------------------------------------------------------
(* The steps, whoever takes them.                                          *)

LEMMA TablesStep ==
  ASSUME NotesInv, [Next]_vars
  PROVE  TablesInv' /\ Steady
  <1>1. ASSUME NEW r \in Reqs, Request(r) \/ Handle(r) \/ Fail(r)
        PROVE  TablesInv' /\ Steady
    <2>1. CASE Request(r)
      BY <2>1, SameTables DEF Request, Create, Update, Delete
    <2>2. CASE CreateRow(r) \/ UpdateRow(r) \/ DeleteRow(r)
      BY <2>2, CreateRowTables, UpdateRowTables, DeleteRowTables
    <2>3. CASE Handle(r) /\ ~(CreateRow(r) \/ UpdateRow(r) \/ DeleteRow(r))
      BY <2>3, SameTables DEF Handle, CreateFolderCheck, WriteTmp, Rename, UpdateRead,
         UpdateFolderCheck, DeleteBody
    <2>4. CASE Fail(r)
      BY <2>4, SameTables DEF Fail
    <2> QED
      BY <1>1, <2>1, <2>2, <2>3, <2>4
  <1>2. CASE Sweep \/ SweepSkipped \/ Crash \/ UNCHANGED vars
    BY <1>2, SameTables DEF Sweep, KeepSets, SweepList, SweepVisit, SweepDone, SweepSkipped,
       Crash, vars
  <1> QED
    BY <1>1, <1>2, FolderTables DEF Next

LEMMA HandlersStep ==
  ASSUME NotesInv, [Next]_vars, Steady
  PROVE  HandlersInv'
  <1>1. ASSUME NEW r \in Reqs, Request(r)
        PROVE  HandlersInv'
    BY <1>1, CreateHandlers, ArriveHandlers DEF Request
  <1>2. ASSUME NEW r \in Reqs, Handle(r)
        PROVE  HandlersInv'
    <2>1. CASE UpdateRow(r) \/ DeleteBody(r)
      BY <2>1, Ended DEF UpdateRow, DeleteBody
    <2> QED
      BY <1>2, <2>1, CreateFolderCheckHandlers, CreateRowHandlers, WriteTmpHandlers,
         RenameHandlers, UpdateReadHandlers, UpdateFolderCheckHandlers, DeleteRowHandlers
         DEF Handle
  <1>3. ASSUME NEW r \in Reqs, Fail(r)
        PROVE  HandlersInv'
    BY <1>3, Ended DEF Fail
  <1>4. CASE Crash
    BY <1>4 DEF Crash, HandlersInv
  <1>5. CASE UNCHANGED req
    BY <1>5, StillOK DEF NotesInv, HandlersInv
  <1>6. (\E u \in Users, f \in Folders : CreateFolder(u, f) \/ DeleteFolder(u, f))
          \/ Sweep \/ SweepSkipped \/ UNCHANGED vars => UNCHANGED req
    BY DEF CreateFolder, DeleteFolder, Sweep, KeepSets, SweepList, SweepVisit, SweepDone,
       SweepSkipped, vars
  <1> QED
    BY <1>1, <1>2, <1>3, <1>4, <1>5, <1>6 DEF Next

(* Who writes bodies, and who writes rows.                                 *)
LEMMA BodyWriters ==
  ASSUME [Next]_vars
  PROVE  \/ UNCHANGED disk
         \/ \E r \in Reqs : Rename(r) \/ DeleteBody(r)
         \/ \E e : SweepVisit(e)
  <1>1. ASSUME NEW r \in Reqs, Request(r) \/ Fail(r)
        PROVE  UNCHANGED disk
    BY <1>1 DEF Request, Create, Update, Delete, Fail
  <1>2. ASSUME NEW r \in Reqs, Handle(r)
        PROVE  UNCHANGED disk \/ Rename(r) \/ DeleteBody(r)
    BY <1>2 DEF Handle, CreateFolderCheck, CreateRow, WriteTmp, UpdateRead, UpdateFolderCheck,
       UpdateRow, DeleteRow
  <1>3. ASSUME NEW u \in Users, NEW f \in Folders, CreateFolder(u, f) \/ DeleteFolder(u, f)
        PROVE  UNCHANGED disk
    BY <1>3 DEF CreateFolder, DeleteFolder
  <1>4. Sweep => UNCHANGED disk \/ \E e : SweepVisit(e)
    BY DEF Sweep, KeepSets, SweepList, SweepDone
  <1>5. SweepSkipped \/ Crash \/ UNCHANGED vars => UNCHANGED disk
    BY DEF SweepSkipped, Crash, vars
  <1> QED
    BY <1>1, <1>2, <1>3, <1>4, <1>5 DEF Next

LEMMA RowWriters ==
  ASSUME [Next]_vars
  PROVE  \/ UNCHANGED notes
         \/ \E r \in Reqs : UpdateRow(r) \/ DeleteRow(r) \/ CreateRow(r)
         \/ \E u \in Users, f \in Folders : DeleteFolder(u, f)
  <1>1. ASSUME NEW r \in Reqs, Request(r) \/ Fail(r)
        PROVE  UNCHANGED notes
    BY <1>1 DEF Request, Create, Update, Delete, Fail
  <1>2. ASSUME NEW r \in Reqs, Handle(r)
        PROVE  UNCHANGED notes \/ UpdateRow(r) \/ DeleteRow(r) \/ CreateRow(r)
    BY <1>2 DEF Handle, CreateFolderCheck, WriteTmp, Rename, UpdateRead, UpdateFolderCheck,
       DeleteBody
  <1>3. ASSUME NEW u \in Users, NEW f \in Folders, CreateFolder(u, f)
        PROVE  UNCHANGED notes
    BY <1>3 DEF CreateFolder
  <1>4. Sweep => UNCHANGED notes
    BY DEF Sweep, KeepSets, SweepList, SweepVisit, SweepDone
  <1>5. SweepSkipped \/ Crash \/ UNCHANGED vars => UNCHANGED notes
    BY DEF SweepSkipped, Crash, vars
  <1> QED
    BY <1>1, <1>2, <1>3, <1>4, <1>5 DEF Next

(* A body is written by the handler of a note of its user, and a row made  *)
(* is of a note that has no body yet.                                      *)
LEMMA BodiesStep ==
  ASSUME NotesInv, [Next]_vars, Steady
  PROVE  BodiesInv'
  <1>1. ASSUME UNCHANGED disk
        PROVE  BodiesInv'
    BY <1>1 DEF NotesInv, BodiesInv, BodyHasOwner, Steady
  <1>2. ASSUME NEW k \in Keys, disk' = [disk EXCEPT ![k] = Null]
        PROVE  BodiesInv'
    BY <1>2 DEF NotesInv, BodiesInv, BodyHasOwner, Steady, Keys
  <1>3. ASSUME NEW r \in Reqs, Rename(r)
        PROVE  BodiesInv'
    <2>1. req[r] \in Handlers /\ HandlerOK(r) /\ req[r].pc \in {"create_rename", "update_rename"}
      BY <1>3, AtWork DEF NotesInv, Rename, Pcs, At
    <2>2. Own(req[r].user, req[r].note) /\ req[r].body \in Bodies /\ req[r].user \in Users
      BY <2>1 DEF HandlerOK, Handlers
    <2>3. CASE disk' = [disk EXCEPT ![<<req[r].user, req[r].note>>] = req[r].body]
      <3>1. disk' \in [Keys -> Bodies \cup {Null}]
        BY <2>2, <2>3 DEF NotesInv, BodiesInv
      <3>2. \A u \in Users, i \in NoteIds : <<u, i>> \in Keys
              /\ (<<u, i>> = <<req[r].user, req[r].note>> => u = req[r].user /\ i = req[r].note)
        BY DEF Keys
      <3>3. UNCHANGED <<notes, minted>>
        BY <1>3 DEF Rename
      <3>4. BodyHasOwner'
        BY <2>2, <2>3, <3>2, <3>3 DEF NotesInv, BodiesInv, BodyHasOwner, Own
      <3> QED
        BY <3>1, <3>4 DEF BodiesInv
    <2> QED
      BY <1>1, <1>3, <2>3 DEF Rename
  <1>4. ASSUME NEW r \in Reqs, DeleteBody(r)
        PROVE  BodiesInv'
    <2>1. req[r] \in Handlers /\ HandlerOK(r) /\ req[r].pc = "delete_body"
      BY <1>4, AtWork DEF NotesInv, DeleteBody, Pcs, At
    <2>2. <<req[r].user, req[r].note>> \in Keys
      BY <2>1 DEF HandlerOK, Own, Handlers, Keys
    <2> QED
      BY <1>2, <1>4, <2>2 DEF DeleteBody
  <1>5. ASSUME NEW e, SweepVisit(e)
        PROVE  BodiesInv'
    <2>1. \A k \in Keys : disk'[k] \in {disk[k], Null}
      BY <1>5 DEF SweepVisit
    <2>2. disk' \in [Keys -> Bodies \cup {Null}]
      BY <1>5, <2>1 DEF SweepVisit, NotesInv, BodiesInv
    <2>3. UNCHANGED <<notes, minted>>
      BY <1>5 DEF SweepVisit
    <2> QED
      BY <2>1, <2>2, <2>3 DEF NotesInv, BodiesInv, BodyHasOwner, Keys
  <1> QED
    BY <1>1, <1>3, <1>4, <1>5, BodyWriters

(* A note that was there when the process started is in the keep set.      *)
LEMMA SweepStep ==
  ASSUME NotesInv, [Next]_vars, Steady
  PROVE  SweepInv'
  <1>1. \A i \in atBoot : i \in NoteIds \cap minted
          /\ (notes'[i] # Null => notes[i] # Null /\ notes'[i].user = notes[i].user)
    BY DEF NotesInv, SweepInv, Steady
  <1>2. ASSUME UNCHANGED <<sweep, atBoot>>
        PROVE  SweepInv'
    BY <1>1, <1>2 DEF NotesInv, SweepInv, Steady
  <1>3. CASE KeepSets
    <2>1. \A i \in atBoot : notes[i] # Null => <<notes[i].user, i>> \in Kept
      BY <1>1 DEF Kept, OwnsNote, Keys, NotesInv, TablesInv, Rows
    <2>2. sweep' = [phase |-> "walk", keep |-> Kept, dirs |-> Users, todo |-> {}]
      BY <1>3 DEF KeepSets
    <2>3. Kept \subseteq Keys
      BY DEF Kept
    <2> QED
      BY <1>3, <2>1, <2>2, <2>3 DEF KeepSets, NotesInv, SweepInv, Phases
  <1>4. ASSUME NEW u \in Users, SweepList(u)
        PROVE  SweepInv'
    <2>1. /\ sweep'.keep = sweep.keep /\ sweep'.phase = sweep.phase
          /\ sweep' \in [phase : Phases, keep : SUBSET Keys, dirs : SUBSET Users,
                         todo : SUBSET (Keys \cup Reqs \cup Litter)]
      BY <1>4 DEF SweepList, NotesInv, SweepInv, RestInv
    <2> QED
      BY <1>4, <2>1 DEF SweepList, NotesInv, SweepInv
  <1>5. ASSUME NEW e, SweepVisit(e)
        PROVE  SweepInv'
    <2>1. /\ sweep'.keep = sweep.keep /\ sweep'.phase = sweep.phase
          /\ sweep' \in [phase : Phases, keep : SUBSET Keys, dirs : SUBSET Users,
                         todo : SUBSET (Keys \cup Reqs \cup Litter)]
      BY <1>5 DEF SweepVisit, NotesInv, SweepInv
    <2> QED
      BY <1>5, <2>1 DEF SweepVisit, NotesInv, SweepInv
  <1>6. CASE SweepDone \/ SweepSkipped
    <2>1. PICK p \in {"done", "skipped"} : sweep' = [sweep EXCEPT !.phase = p]
      BY <1>6 DEF SweepDone, SweepSkipped
    <2>2. /\ sweep'.phase # "walk"
          /\ sweep' \in [phase : Phases, keep : SUBSET Keys, dirs : SUBSET Users,
                         todo : SUBSET (Keys \cup Reqs \cup Litter)]
      BY <2>1 DEF NotesInv, SweepInv, Phases
    <2> QED
      BY <1>6, <2>2 DEF SweepDone, SweepSkipped, NotesInv, SweepInv
  <1>7. CASE Crash
    <2>1. sweep' = BootSweep /\ atBoot' = {i \in NoteIds : notes[i] # Null} /\ minted' = minted
      BY <1>7 DEF Crash
    <2> QED
      BY <2>1 DEF BootSweep, Phases, NotesInv, TablesInv, SweepInv
  <1>8. \/ UNCHANGED <<sweep, atBoot>>
        \/ KeepSets \/ SweepDone \/ SweepSkipped \/ Crash
        \/ (\E u \in Users : SweepList(u)) \/ (\E e : SweepVisit(e))
    <2>1. ASSUME NEW r \in Reqs, Request(r) \/ Fail(r)
          PROVE  UNCHANGED <<sweep, atBoot>>
      BY <2>1 DEF Request, Create, Update, Delete, Fail
    <2>2. ASSUME NEW r \in Reqs, Handle(r)
          PROVE  UNCHANGED <<sweep, atBoot>>
      BY <2>2 DEF Handle, CreateFolderCheck, CreateRow, WriteTmp, Rename, UpdateRead,
         UpdateFolderCheck, UpdateRow, DeleteRow, DeleteBody
    <2>3. ASSUME NEW u \in Users, NEW f \in Folders, CreateFolder(u, f) \/ DeleteFolder(u, f)
          PROVE  UNCHANGED <<sweep, atBoot>>
      BY <2>3 DEF CreateFolder, DeleteFolder
    <2>4. CASE UNCHANGED vars
      BY <2>4 DEF vars
    <2> QED
      BY <2>1, <2>2, <2>3, <2>4 DEF Next, Sweep
  <1> QED
    BY <1>2, <1>3, <1>4, <1>5, <1>6, <1>7, <1>8

LEMMA TmpsStep ==
  ASSUME NotesInv, [Next]_vars
  PROVE  /\ tmps' \subseteq Reqs
         /\ \A r \in tmps' : req'[r].pc \in {"create_rename", "update_rename"}
  <1>1. ASSUME NEW r \in Reqs, req' = [req EXCEPT ![r] = req'[r]], tmps' \subseteq tmps \ {r}
        PROVE  /\ tmps' \subseteq Reqs
               /\ \A s \in tmps' : req'[s].pc \in {"create_rename", "update_rename"}
    BY <1>1 DEF NotesInv, HandlersInv, RestInv
  <1>2. ASSUME NEW r \in Reqs, Request(r)
        PROVE  r \notin tmps /\ tmps' = tmps /\ req' = [req EXCEPT ![r] = req'[r]]
    <2>1. req[r] = Idle /\ tmps' = tmps /\ req' = [req EXCEPT ![r] = req'[r]]
      BY <1>2 DEF Request, Create, Update, Delete, NotesInv, HandlersInv
    <2> QED
      BY <2>1 DEF Idle, NotesInv, RestInv
  <1>3. ASSUME NEW r \in Reqs, WriteTmp(r)
        PROVE  /\ tmps' \subseteq Reqs
               /\ \A s \in tmps' : req'[s].pc \in {"create_rename", "update_rename"}
    <2>1. req[r] \in Handlers
      BY <1>3, AtWork DEF WriteTmp, Pcs, NotesInv
    <2>2. /\ req'[r].pc \in {"create_rename", "update_rename"}
          /\ \A s \in Reqs \ {r} : req'[s] = req[s]
      BY <1>3, <2>1 DEF WriteTmp, Goto, NotesInv, HandlersInv, Handlers
    <2> QED
      BY <1>3, <2>2 DEF WriteTmp, NotesInv, RestInv
  <1>4. ASSUME NEW r \in Reqs, Rename(r) \/ Fail(r)
        PROVE  tmps' = tmps \ {r} /\ req' = [req EXCEPT ![r] = req'[r]]
    BY <1>4 DEF Rename, Fail, Respond, NotesInv, HandlersInv
  <1>5. ASSUME NEW r \in Reqs, Handle(r), ~WriteTmp(r), ~Rename(r)
        PROVE  r \notin tmps /\ tmps' = tmps /\ req' = [req EXCEPT ![r] = req'[r]]
    <2>1. tmps' = tmps
      BY <1>5 DEF Handle, CreateFolderCheck, CreateRow, UpdateRead, UpdateFolderCheck, UpdateRow,
         DeleteRow, DeleteBody
    <2>2. r \notin tmps
      BY <1>5 DEF Handle, CreateFolderCheck, CreateRow, UpdateRead, UpdateFolderCheck, UpdateRow,
         DeleteRow, DeleteBody, At, NotesInv, RestInv
    <2>3. req' = [req EXCEPT ![r] = req'[r]]
      BY <1>5 DEF Handle, CreateFolderCheck, CreateRow, UpdateRead, UpdateFolderCheck, UpdateRow,
         DeleteRow, DeleteBody, Goto, Respond, NotesInv, HandlersInv
    <2> QED
      BY <2>1, <2>2, <2>3
  <1>6. CASE (UNCHANGED req /\ tmps' \subseteq tmps) \/ tmps' = {}
    BY <1>6 DEF NotesInv, RestInv
  <1>7. (\E u \in Users, f \in Folders : CreateFolder(u, f) \/ DeleteFolder(u, f))
          \/ Sweep \/ SweepSkipped \/ Crash \/ UNCHANGED vars
          => (UNCHANGED req /\ tmps' \subseteq tmps) \/ tmps' = {}
    BY DEF CreateFolder, DeleteFolder, Sweep, KeepSets, SweepList, SweepVisit, SweepDone,
       SweepSkipped, Crash, vars
  <1> QED
    BY <1>1, <1>2, <1>3, <1>4, <1>5, <1>6, <1>7 DEF Next

LEMMA RestStep ==
  ASSUME NotesInv, [Next]_vars
  PROVE  RestInv'
  <1>1. ASSUME NEW r \in Reqs, Request(r) \/ Handle(r)
        PROVE  litter' = litter /\ clean' \subseteq clean /\ faults' = faults
    BY <1>1 DEF Request, Create, Update, Arrives, Delete, Handle, CreateFolderCheck, CreateRow,
       WriteTmp, Rename, UpdateRead, UpdateFolderCheck, UpdateRow, DeleteRow, DeleteBody,
       NotesInv, RestInv
  <1>2. faults < MaxFaults => faults + 1 \in 1..MaxFaults
    BY FaultsAssumption DEF NotesInv, RestInv
  <1>3. ASSUME NEW r \in Reqs, Fail(r)
        PROVE  RestInv'
    <2>1. req[r].user \in Users
      BY <1>3 DEF Fail, NotesInv, HandlersInv, Handlers
    <2> QED
      BY <1>2, <1>3, <2>1, TmpsStep DEF Fail, NotesInv, RestInv, Litter
  <1>4. CASE Crash
    <2>1. \A r \in tmps : req[r] # Idle
      BY DEF Idle, NotesInv, RestInv
    <2>2. \A r \in tmps : req[r].user \in Users
      BY <2>1 DEF NotesInv, RestInv, HandlersInv, Handlers
    <2> QED
      BY <1>2, <1>4, <2>2, TmpsStep DEF Crash, NotesInv, RestInv, Litter
  <1>5. CASE SweepSkipped
    BY <1>2, <1>5, TmpsStep DEF SweepSkipped, NotesInv, RestInv
  <1>6. CASE Sweep \/ UNCHANGED vars
    BY <1>6, TmpsStep DEF Sweep, KeepSets, SweepList, SweepVisit, SweepDone, vars, NotesInv, RestInv
  <1>7. ASSUME NEW u \in Users, NEW f \in Folders, CreateFolder(u, f) \/ DeleteFolder(u, f)
        PROVE  RestInv'
    BY <1>7, TmpsStep DEF CreateFolder, DeleteFolder, NotesInv, RestInv
  <1> QED
    BY <1>1, <1>3, <1>4, <1>5, <1>6, <1>7, TmpsStep DEF Next, NotesInv, RestInv

----------------------------------------------------------------------------
(* What follows.                                                           *)

LEMMA Invariance == Spec => []NotesInv
  <1>1. Init => NotesInv
    <2> SUFFICES ASSUME Init
                 PROVE  NotesInv
      OBVIOUS
    <2>1. TablesInv
      BY DEF Init, TablesInv, FolderOwnership
    <2>2. HandlersInv /\ BodiesInv
      BY DEF Init, HandlersInv, BodiesInv, BodyHasOwner, Keys
    <2>3. SweepInv
      BY DEF Init, SweepInv, BootSweep, Phases
    <2>4. RestInv
      BY FaultsAssumption DEF Init, RestInv
    <2> QED
      BY <2>1, <2>2, <2>3, <2>4 DEF NotesInv
  <1>2. NotesInv /\ [Next]_vars => NotesInv'
    BY TablesStep, HandlersStep, BodiesStep, SweepStep, RestStep DEF NotesInv
  <1> QED
    BY <1>1, <1>2, PTL DEF Spec

(* Every variable stays within its type.                                   *)
THEOREM TypeCorrect == Spec => []TypeOK
  <1>1. NotesInv => TypeOK
    BY DEF NotesInv, TablesInv, HandlersInv, BodiesInv, SweepInv, RestInv, TypeOK
  <1> QED
    BY <1>1, Invariance, PTL

(* A filed note is in a folder of its own user, though ownership is checked*)
(* steps before the row is written and SQLite asks for existence only.     *)
THEOREM FiledAtHome == Spec => []FolderOwnership
  <1>1. NotesInv => FolderOwnership
    BY DEF NotesInv, TablesInv
  <1> QED
    BY <1>1, Invariance, PTL

(* A file on disk belongs to an identifier that has had a row, and lies    *)
(* with that row's user.                                                   *)
THEOREM BodiesHaveOwners == Spec => []BodyHasOwner
  <1>1. NotesInv => BodyHasOwner
    BY DEF NotesInv, BodiesInv
  <1> QED
    BY <1>1, Invariance, PTL

(* A deleted note never comes back.                                        *)
THEOREM DeletedStaysDeleted == Spec => NoResurrection
  <1>1. NotesInv /\ [Next]_vars =>
          \A i \in minted \cap NoteIds : notes[i] = Null => notes'[i] = Null
    BY TablesStep DEF Steady
  <1> QED
    BY <1>1, Invariance, PTL DEF Spec, NoResurrection

(* The body of a note that keeps its row is removed by the sweep only, and *)
(* then the note is younger than the process: DeleteBody removes those of  *)
(* rows that are gone, and the keep set has every note found at the start. *)
THEOREM LiveBodiesStay == Spec => LiveBodiesKept
  <1> DEFINE Kept1 == \A u \in Users, i \in NoteIds :
                        /\ notes[i] # Null /\ notes[i].user = u /\ notes'[i] # Null
                        /\ disk[<<u, i>>] # Null /\ disk'[<<u, i>>] = Null
                        => sweep.phase = "walk" /\ i \notin atBoot
  <1>1. ASSUME UNCHANGED disk
        PROVE  Kept1
    BY <1>1
  <1>2. ASSUME NotesInv, NEW r \in Reqs, Rename(r)
        PROVE  Kept1
    <2>1. req[r] \in Handlers /\ HandlerOK(r) /\ req[r].pc \in {"create_rename", "update_rename"}
      BY <1>2, AtWork DEF NotesInv, Rename, Pcs, At
    <2>2. req[r].body # Null
      BY <2>1, NullAssumption DEF HandlerOK
    <2>3. \A k \in Keys : disk[k] # Null => disk'[k] # Null
      BY <1>2, <2>2 DEF Rename, NotesInv, BodiesInv
    <2> QED
      BY <2>3 DEF Keys
  <1>3. ASSUME NotesInv, NEW r \in Reqs, DeleteBody(r)
        PROVE  Kept1
    <2>1. req[r] \in Handlers /\ HandlerOK(r) /\ req[r].pc = "delete_body"
      BY <1>3, AtWork DEF NotesInv, DeleteBody, Pcs, At
    <2>2. notes[req[r].note] = Null
      BY <2>1 DEF HandlerOK
    <2>3. \A u \in Users, i \in NoteIds : <<u, i>> \in Keys
            /\ (<<u, i>> = <<req[r].user, req[r].note>> => i = req[r].note)
      BY DEF Keys
    <2> QED
      BY <1>3, <2>2, <2>3 DEF DeleteBody, NotesInv, BodiesInv
  <1>4. ASSUME NotesInv, NEW e, SweepVisit(e)
        PROVE  Kept1
    <2>1. \A k \in Keys : disk[k] # Null /\ disk'[k] = Null => k \notin sweep.keep
      BY <1>4 DEF SweepVisit
    <2>2. sweep.phase = "walk"
      BY <1>4 DEF SweepVisit
    <2> QED
      BY <1>4, <2>1, <2>2 DEF NotesInv, SweepInv, Keys
  <1>5. [Next]_vars => \/ UNCHANGED disk
                       \/ \E r \in Reqs : Rename(r) \/ DeleteBody(r)
                       \/ \E e : SweepVisit(e)
    BY DEF Next, vars, Request, Create, Update, Delete, Handle, CreateFolderCheck, CreateRow,
       WriteTmp, UpdateRead, UpdateFolderCheck, UpdateRow, DeleteRow, Fail, CreateFolder,
       DeleteFolder, Sweep, KeepSets, SweepList, SweepDone, SweepSkipped, Crash
  <1>6. NotesInv /\ [Next]_vars => Kept1
    <2> HIDE DEF Kept1
    <2> QED
      BY <1>1, <1>2, <1>3, <1>4, <1>5
  <1> QED
    BY <1>6, Invariance, PTL DEF Spec, LiveBodiesKept

(* Nobody but its user changes a note: a row changes by a request of that  *)
(* user or with a folder of that user, which FolderOwnership says it is; a *)
(* body by a request of that user or the sweep.                            *)
THEOREM UsersApart == Spec => Isolation
  <1> DEFINE RowApart  == \A i \in NoteIds :
                            notes[i] # Null /\ notes'[i] # notes[i] =>
                              ActsFor(notes[i].user) \/ DeletesFolderOf(notes[i].user)
             BodyApart == \A u \in Users, i \in NoteIds :
                            disk'[<<u, i>>] # disk[<<u, i>>] => ActsFor(u) \/ sweep' # sweep
  <1>1. ASSUME NotesInv, NEW r \in Reqs, NEW pc \in Pcs, At(r, pc), req'[r] # req[r]
        PROVE  ActsFor(req[r].user)
    BY <1>1, AtWork DEF NotesInv, ActsFor
  <1>2. ASSUME NotesInv, NEW r \in Reqs, UpdateRow(r) \/ DeleteRow(r)
        PROVE  RowApart
    <2>1. PICK pc \in {"update_row", "delete_row"} : At(r, pc)
      BY <1>2 DEF UpdateRow, DeleteRow
    <2>2. req'[r].pc # pc
      <3>1. req \in [Reqs -> Handlers \cup {Idle}] /\ req[r] \in Handlers
        BY <1>2, <2>1, AtWork DEF NotesInv, HandlersInv, Pcs
      <3>2. CASE Respond(r)
        BY <2>1, <3>1, <3>2 DEF Respond, Idle
      <3>3. CASE Goto(r, "delete_body")
        BY <2>1, <3>1, <3>3 DEF Goto, Handlers
      <3> QED
        BY <1>2, <3>2, <3>3 DEF UpdateRow, DeleteRow
    <2>3. ActsFor(req[r].user)
      BY <1>1, <1>2, <2>1, <2>2 DEF At, Pcs
    <2>4. \A i \in NoteIds : notes[i] # Null /\ notes'[i] # notes[i] => notes[i].user = req[r].user
      BY <1>2 DEF UpdateRow, DeleteRow, UpdateSucceeds, OwnsNote, NotesInv, TablesInv
    <2> QED
      BY <2>3, <2>4
  <1>3. ASSUME NotesInv, NEW r \in Reqs, CreateRow(r)
        PROVE  RowApart
    BY <1>3 DEF CreateRow, NotesInv, TablesInv
  <1>4. ASSUME NotesInv, NEW u \in Users, NEW f \in Folders, DeleteFolder(u, f)
        PROVE  RowApart
    <2>1. folders[f] = u /\ folders'[f] = Null
      BY <1>4 DEF DeleteFolder, FolderOwned, NotesInv, TablesInv
    <2>2. \A i \in NoteIds : notes[i] # Null /\ notes'[i] # notes[i] => notes[i].folder = f
      BY <1>4 DEF DeleteFolder
    <2>3. f # Null
      BY NullAssumption
    <2>4. \A i \in NoteIds : notes[i] # Null /\ notes[i].folder = f => notes[i].user = u
      BY <1>4, <2>1, <2>3 DEF NotesInv, TablesInv, FolderOwnership
    <2> QED
      BY <2>1, <2>2, <2>4 DEF DeletesFolderOf
  <1>5. ASSUME NotesInv, NEW r \in Reqs, Rename(r) \/ DeleteBody(r)
        PROVE  BodyApart
    <2>1. PICK pc \in {"create_rename", "update_rename", "delete_body"} : At(r, pc)
      BY <1>5 DEF Rename, DeleteBody
    <2>2. req'[r].pc # pc
      <3>1. req \in [Reqs -> Handlers \cup {Idle}] /\ req[r] \in Handlers
        BY <1>5, <2>1, AtWork DEF NotesInv, HandlersInv, Pcs
      <3>2. CASE Respond(r)
        BY <2>1, <3>1, <3>2 DEF Respond, Idle
      <3>3. CASE req' = [req EXCEPT ![r].pc = "update_row",
                                    ![r].row = Sized(req[r].row, req[r].body)]
        BY <2>1, <3>1, <3>3 DEF Handlers
      <3> QED
        BY <1>5, <3>2, <3>3 DEF Rename, DeleteBody
    <2>3. ActsFor(req[r].user)
      BY <1>1, <1>5, <2>1, <2>2 DEF At, Pcs
    <2>4. \A k \in Keys : disk'[k] # disk[k] => k = <<req[r].user, req[r].note>>
      BY <1>5 DEF Rename, DeleteBody, NotesInv, BodiesInv
    <2>5. \A u \in Users, i \in NoteIds : disk'[<<u, i>>] # disk[<<u, i>>] => u = req[r].user
      BY <2>4 DEF Keys
    <2> QED
      BY <2>3, <2>5
  <1>6. ASSUME NotesInv, NEW e, SweepVisit(e)
        PROVE  BodyApart
    <2>1. sweep'.todo # sweep.todo
      BY <1>6 DEF SweepVisit, NotesInv, SweepInv
    <2> QED
      BY <2>1
  <1>7. ASSUME UNCHANGED notes PROVE RowApart
    BY <1>7
  <1>8. ASSUME UNCHANGED disk PROVE BodyApart
    BY <1>8
  <1>9. NotesInv /\ [Next]_vars => RowApart /\ BodyApart
    <2> HIDE DEF RowApart, BodyApart
    <2> QED
      BY <1>2, <1>3, <1>4, <1>5, <1>6, <1>7, <1>8, RowWriters, BodyWriters
  <1> QED
    BY <1>9, Invariance, PTL DEF Spec, Isolation

----------------------------------------------------------------------------
(* Notes whose requests came one after the other.                          *)

Bodiless(i) == \A u \in Users : disk[<<u, i>>] = Null

(* The body of i that its user u has is one of length n.                   *)
Fits(u, i, n) == disk[<<u, i>>] # Null /\ BodyLen[disk[<<u, i>>]] = n

Whole(i) == IF notes[i] = Null THEN Bodiless(i) ELSE Fits(notes[i].user, i, notes[i].size)

(* The row createNote stores, and the steps at which updateNote has in     *)
(* hand the row it read.                                                   *)
RowMade(h) == [user |-> h.user, folder |-> FolderOf(h.folder), title |-> h.title,
               size |-> BodyLen[h.body]]

RowRead(h) == \/ h.pc \in {"update_folder", "update_tmp", "update_rename"}
              \/ h.pc = "update_row" /\ h.body = Null

(* What row, body, folders and temp file are while the only request of a   *)
(* note is at each step: whole, or in between two writes.  The folders it  *)
(* will refer to are there: its row will not be refused.                   *)
InHand(r) ==
    LET h == req[r]
        i == h.note
    IN
    /\ h.pc \in {"update_read", "delete_row", "update_folder", "update_tmp", "update_rename"}
         => Whole(i)
    /\ h.pc \in {"create_tmp", "create_rename"} =>
         Bodiless(i) /\ notes[i] # Null /\ notes[i] = RowMade(h)
    /\ h.pc \in {"create_rename", "update_rename"} => r \in tmps
    /\ h.pc \in {"update_folder", "update_tmp", "update_rename", "update_row"} =>
         notes[i] # Null /\ (h.row.folder # Null => folders[h.row.folder] # Null)
    /\ h.pc \in {"update_tmp", "update_rename", "update_row"} =>
         (h.folder \in Folders => folders[h.folder] # Null)
    /\ RowRead(h) => h.row = Retitled(notes[i], h.title)
    /\ h.pc = "update_folder" => h.row.size = notes[i].size
    /\ h.pc = "update_row" => Fits(h.user, i, h.row.size)
    /\ h.pc = "delete_body" => \A v \in Users \ {h.user} : disk[<<v, i>>] = Null

(* A clean note has one request at work on it, or is whole.                *)
Serial(i) ==
    /\ \A r, s \in Busy(i) : r = s
    /\ Busy(i) = {} => Whole(i)
    /\ \A r \in Busy(i) : InHand(r)

SerialInv == \A i \in clean : Serial(i)

(* A step that leaves alone what a clean note and its request hold.        *)
LEMMA Untouched ==
  ASSUME NotesInv, NEW i \in NoteIds, Serial(i), Busy(i)' = Busy(i),
         \A s \in Busy(i) : req'[s] = req[s] /\ (s \in tmps => s \in tmps'),
         notes'[i] = notes[i], \A u \in Users : disk'[<<u, i>>] = disk[<<u, i>>],
         \A f \in Folders : folders[f] # Null => folders'[f] # Null
  PROVE  Serial(i)'
  <1>1. notes[i] # Null => notes[i].user \in Users
    BY DEF NotesInv, TablesInv, Rows
  <1>2. (Bodiless(i)' <=> Bodiless(i)) /\ (Whole(i)' <=> Whole(i))
    BY <1>1 DEF Bodiless, Whole, Fits
  <1>3. ASSUME NEW r \in Busy(i)
        PROVE  InHand(r)'
    <2>1. r \in Reqs /\ req[r] # Idle /\ req[r].note = i /\ req'[r] = req[r] /\ InHand(r)
          /\ (r \in tmps => r \in tmps')
      BY <1>3 DEF Busy, Serial
    <2>2. HandlerOK(r) /\ req[r].user \in Users
      BY <2>1 DEF NotesInv, HandlersInv, Handlers
    <2>3. req[r].pc \in {"update_folder", "update_tmp", "update_rename", "update_row"} =>
            req[r].row.folder \in Folders \cup {Null}
      BY <2>2 DEF HandlerOK, Rows
    <2> QED
      BY <1>2, <2>1, <2>2, <2>3 DEF InHand, Fits
  <1> QED
    BY <1>2, <1>3 DEF Serial

(* A step of one request, at note i before or after it.                    *)
LEMMA OneNote ==
  ASSUME NotesInv, SerialInv, NEW r \in Reqs, NEW i \in NoteIds,
         req[r] # Idle => req[r].note \in {i, Null},
         req' = [req EXCEPT ![r] = req'[r]], req'[r] # Idle => req'[r].note = i,
         \A j \in NoteIds \ {i} :
           notes'[j] = notes[j] /\ \A u \in Users : disk'[<<u, j>>] = disk[<<u, j>>],
         \A s \in Reqs \ {r} : s \in tmps => s \in tmps', UNCHANGED folders,
         clean' \subseteq clean,
         i \in clean' => /\ Busy(i) \subseteq {r}
                        /\ IF req'[r] = Idle THEN Whole(i)' ELSE InHand(r)'
  PROVE  SerialInv'
  <1>1. \A s \in Reqs \ {r} : req'[s] = req[s]
    BY DEF NotesInv, HandlersInv
  <1>2. ASSUME NEW j \in clean', j # i
        PROVE  Serial(j)'
    <2>1. j \in NoteIds /\ Serial(j) /\ j # Null
      BY <1>2, NullAssumption DEF NotesInv, RestInv, SerialInv
    <2>2. Busy(j)' = Busy(j) /\ r \notin Busy(j)
      BY <1>1, <1>2, <2>1 DEF Busy
    <2>3. \A s \in Busy(j) : req'[s] = req[s] /\ (s \in tmps => s \in tmps')
      BY <1>1, <2>2 DEF Busy
    <2> QED
      BY <1>2, <2>1, <2>2, <2>3, Untouched
  <1>3. ASSUME i \in clean'
        PROVE  Serial(i)'
    <2>1. Busy(i)' = IF req'[r] = Idle THEN {} ELSE {r}
      BY <1>1, <1>3 DEF Busy
    <2> QED
      BY <1>3, <2>1 DEF Serial
  <1> QED
    BY <1>2, <1>3 DEF SerialInv

(* A step of a request that has no note yet, or had none when it ended.    *)
LEMMA NoNote ==
  ASSUME NotesInv, SerialInv, NEW r \in Reqs,
         req[r] # Idle => req[r].note = Null, req'[r] # Idle => req'[r].note = Null,
         req' = [req EXCEPT ![r] = req'[r]], UNCHANGED <<notes, folders, disk, tmps, clean>>
  PROVE  SerialInv'
  <1>1. \A s \in Reqs \ {r} : req'[s] = req[s]
    BY DEF NotesInv, HandlersInv
  <1>2. ASSUME NEW i \in clean
        PROVE  Serial(i)'
    <2>1. i \in NoteIds /\ i # Null /\ Serial(i)
      BY NullAssumption DEF NotesInv, RestInv, SerialInv
    <2>2. Busy(i)' = Busy(i) /\ r \notin Busy(i)
      BY <1>1, <2>1 DEF Busy
    <2>3. \A s \in Busy(i) : req'[s] = req[s]
      BY <1>1, <2>2 DEF Busy
    <2> QED
      BY <2>1, <2>2, <2>3, Untouched
  <1> QED
    BY <1>2 DEF SerialInv

(* A step of a request that has its note already, which may rely on what   *)
(* it has in hand.                                                         *)
LEMMA OwnNote ==
  ASSUME NotesInv, SerialInv, NEW r \in Reqs, req[r] # Idle, NEW i \in NoteIds, req[r].note = i,
         req' = [req EXCEPT ![r] = req'[r]], req'[r] # Idle => req'[r].note = i,
         \A j \in NoteIds \ {i} :
           notes'[j] = notes[j] /\ \A u \in Users : disk'[<<u, j>>] = disk[<<u, j>>],
         \A s \in Reqs \ {r} : s \in tmps => s \in tmps', UNCHANGED <<folders, clean>>,
         InHand(r) => IF req'[r] = Idle THEN Whole(i)' ELSE InHand(r)'
  PROVE  SerialInv'
  <1>1. i \in clean => InHand(r) /\ Busy(i) = {r}
    BY DEF SerialInv, Serial, Busy
  <1> QED
    BY <1>1, OneNote

LEMMA SameWhole ==
  ASSUME NEW i, UNCHANGED <<notes, disk>>
  PROVE  (Whole(i)' <=> Whole(i)) /\ (Bodiless(i)' <=> Bodiless(i))
  BY DEF Whole, Bodiless, Fits

LEMMA EndedAt ==
  ASSUME NotesInv, NEW r \in Reqs, Respond(r)
  PROVE  req'[r] = Idle /\ req' = [req EXCEPT ![r] = req'[r]]
  BY DEF Respond, NotesInv, HandlersInv

(* A request that ends without a write, its note whole or out of account.  *)
LEMMA EndsWhole ==
  ASSUME NotesInv, SerialInv, NEW r \in Reqs, req[r] # Idle, NEW i \in NoteIds, req[r].note = i,
         Respond(r), UNCHANGED <<notes, folders, disk, clean>>,
         \A s \in Reqs \ {r} : s \in tmps => s \in tmps', InHand(r) => Whole(i)
  PROVE  SerialInv'
  BY EndedAt, SameWhole, OwnNote

LEMMA RequestSerial ==
  ASSUME NotesInv, SerialInv, NEW r \in Reqs, Request(r)
  PROVE  SerialInv'
  <1>1. ASSUME NEW u \in Users, NEW t \in Titles, NEW b \in Bodies, NEW f \in FolderArgs,
               Create(r, u, t, b, f)
        PROVE  SerialInv'
    <2>1. req[r] = Idle /\ UNCHANGED <<notes, folders, disk, tmps, clean>>
          /\ req' = [req EXCEPT ![r] = req'[r]] /\ req'[r].note = Null
      BY <1>1 DEF Create, NotesInv, HandlersInv
    <2> QED
      BY <2>1, NoNote
  <1>2. ASSUME NEW i \in NoteIds, NEW pc \in {"update_read", "delete_row"},
               req[r] = Idle, req'[r].pc = pc, req'[r].note = i,
               req' = [req EXCEPT ![r] = req'[r]], Arrives(i),
               UNCHANGED <<notes, folders, disk, tmps>>
        PROVE  SerialInv'
    <2>1. clean' \subseteq clean /\ (i \in clean' => i \in clean /\ Busy(i) = {})
      BY <1>2 DEF Arrives
    <2>2. i \in clean' => Whole(i)'
      BY <1>2, <2>1, SameWhole DEF SerialInv, Serial
    <2>3. i \in clean' => InHand(r)'
      BY <1>2, <2>2 DEF InHand, RowRead
    <2>4. req'[r] # Idle
      BY <1>2 DEF Idle
    <2>5. i \in clean' => Busy(i) \subseteq {r} /\ IF req'[r] = Idle THEN Whole(i)' ELSE InHand(r)'
      BY <2>1, <2>3, <2>4
    <2> QED
      BY <1>2, <2>1, <2>5, OneNote
  <1>3. ASSUME NEW u \in Users, NEW i \in NoteIds, NEW t \in Titles \cup {Null},
               NEW b \in Bodies \cup {Null}, NEW f \in FolderArgs, Update(r, u, i, t, b, f)
        PROVE  SerialInv'
    <2>1. /\ req[r] = Idle /\ req'[r].pc = "update_read" /\ req'[r].note = i
          /\ req' = [req EXCEPT ![r] = req'[r]] /\ Arrives(i)
          /\ UNCHANGED <<notes, folders, disk, tmps>>
      BY <1>3 DEF Update, NotesInv, HandlersInv
    <2> QED
      BY <1>2, <2>1
  <1>4. ASSUME NEW u \in Users, NEW i \in NoteIds, Delete(r, u, i)
        PROVE  SerialInv'
    <2>1. /\ req[r] = Idle /\ req'[r].pc = "delete_row" /\ req'[r].note = i
          /\ req' = [req EXCEPT ![r] = req'[r]] /\ Arrives(i)
          /\ UNCHANGED <<notes, folders, disk, tmps>>
      BY <1>4 DEF Delete, NotesInv, HandlersInv
    <2> QED
      BY <1>2, <2>1
  <1> QED
    BY <1>1, <1>3, <1>4 DEF Request

LEMMA CreateFolderCheckSerial ==
  ASSUME NotesInv, SerialInv, NEW r \in Reqs, CreateFolderCheck(r)
  PROVE  SerialInv'
  <1>1. req[r] \in Handlers /\ HandlerOK(r) /\ req[r].pc = "create_folder"
    BY AtWork DEF NotesInv, CreateFolderCheck, Pcs, At
  <1>2. req[r].note = Null
    BY <1>1 DEF HandlerOK
  <1>3. UNCHANGED <<notes, folders, disk, tmps, clean>>
    BY DEF CreateFolderCheck
  <1>4. CASE Respond(r)
    BY <1>2, <1>3, <1>4, EndedAt, NoNote
  <1>5. CASE Goto(r, "create_row")
    <2>1. req' = [req EXCEPT ![r] = req'[r]] /\ req'[r] = [req[r] EXCEPT !.pc = "create_row"]
      BY <1>5 DEF Goto, NotesInv, HandlersInv
    <2>2. req'[r].note = Null
      BY <1>1, <1>2, <2>1 DEF Handlers
    <2> QED
      BY <1>2, <1>3, <2>1, <2>2, NoNote
  <1> QED
    BY <1>4, <1>5 DEF CreateFolderCheck

LEMMA CreateRowSerial ==
  ASSUME NotesInv, SerialInv, NEW r \in Reqs, CreateRow(r)
  PROVE  SerialInv'
  <1>1. req[r] \in Handlers /\ req[r] # Idle /\ HandlerOK(r) /\ req[r].pc = "create_row"
    BY AtWork DEF NotesInv, CreateRow, Pcs, At
  <1>2. req[r].note = Null /\ req[r].body \in Bodies
    BY <1>1 DEF HandlerOK
  <1>3. UNCHANGED <<folders, disk, tmps, clean>>
    BY DEF CreateRow
  <1>4. CASE Respond(r) /\ UNCHANGED notes
    BY <1>2, <1>3, <1>4, EndedAt, NoNote
  <1>5. ASSUME NEW i \in NoteIds \ minted, NEW row,
               row = [user |-> req[r].user, folder |-> FolderOf(req[r].folder),
                      title |-> req[r].title, size |-> BodyLen[req[r].body]],
               notes' = [notes EXCEPT ![i] = row],
               req' = [req EXCEPT ![r].pc = "create_tmp", ![r].note = i]
        PROVE  SerialInv'
    <2>1. /\ req' = [req EXCEPT ![r] = req'[r]]
          /\ req'[r] = [req[r] EXCEPT !.pc = "create_tmp", !.note = i]
      BY <1>5 DEF NotesInv, HandlersInv
    <2>2. /\ req'[r].pc = "create_tmp" /\ req'[r].note = i /\ req'[r] # Idle
          /\ row = RowMade(req'[r])
      <3>1. /\ req'[r].pc = "create_tmp" /\ req'[r].note = i
            /\ req'[r].user = req[r].user /\ req'[r].folder = req[r].folder
            /\ req'[r].title = req[r].title /\ req'[r].body = req[r].body
        BY <1>1, <2>1 DEF Handlers
      <3>2. row = RowMade(req'[r])
        BY <1>5, <3>1 DEF RowMade
      <3> QED
        BY <3>1, <3>2 DEF Idle
    <2>3. row # Null
      <3>1. req[r].user \in Users /\ req[r].title \in Titles /\ BodyLen[req[r].body] \in Nat
            /\ FolderOf(req[r].folder) \in Folders \cup {Null}
        BY <1>1, <1>2, BodyLenAssumption DEF HandlerOK, Handlers, FolderOf
      <3>2. row \in Rows
        BY <1>5, <3>1 DEF Rows
      <3> QED
        BY <3>2, NullAssumption
    <2>4. notes'[i] = row /\ \A j \in NoteIds \ {i} : notes'[j] = notes[j]
      BY <1>5 DEF NotesInv, TablesInv
    <2>5. Busy(i) = {}
      <3>1. \A s \in Reqs : req[s] # Idle => req[s].note # i
        BY <1>5, NullAssumption DEF NotesInv, HandlersInv, HandlerOK, Handlers, Pcs, Own
      <3> QED
        BY <3>1 DEF Busy
    <2>6. Bodiless(i)'
      BY <1>3, <1>5 DEF NotesInv, BodiesInv, BodyHasOwner, Bodiless
    <2>7. InHand(r)'
      BY <2>2, <2>3, <2>4, <2>6 DEF InHand, RowRead
    <2> QED
      BY <1>2, <1>3, <1>5, <2>1, <2>2, <2>4, <2>5, <2>7, OneNote
  <1> QED
    BY <1>4, <1>5 DEF CreateRow

LEMMA WriteTmpSerial ==
  ASSUME NotesInv, SerialInv, NEW r \in Reqs, WriteTmp(r)
  PROVE  SerialInv'
  <1>1. /\ req[r] \in Handlers /\ req[r] # Idle /\ HandlerOK(r)
        /\ req[r].pc \in {"create_tmp", "update_tmp"}
    BY AtWork DEF NotesInv, WriteTmp, Pcs, At
  <1>2. PICK i \in NoteIds : i = req[r].note
    BY <1>1 DEF HandlerOK, Own
  <1>3. UNCHANGED <<notes, folders, disk, clean>> /\ tmps' = tmps \cup {r}
    BY DEF WriteTmp
  <1>4. PICK pc \in {"create_rename", "update_rename"} :
          /\ req' = [req EXCEPT ![r] = req'[r]] /\ req'[r] = [req[r] EXCEPT !.pc = pc]
          /\ req[r].pc = IF pc = "create_rename" THEN "create_tmp" ELSE "update_tmp"
    BY DEF WriteTmp, At, Goto, NotesInv, HandlersInv
  <1>5. /\ req'[r].pc = pc /\ req'[r].note = i /\ req'[r].body = req[r].body
        /\ req'[r].folder = req[r].folder /\ req'[r].row = req[r].row /\ req'[r] # Idle
        /\ req'[r].user = req[r].user /\ req'[r].title = req[r].title
    BY <1>1, <1>2, <1>4 DEF Handlers, Idle
  <1>6. InHand(r) => InHand(r)'
    BY <1>2, <1>3, <1>4, <1>5, SameWhole DEF InHand, RowRead, RowMade
  <1> QED
    BY <1>1, <1>2, <1>3, <1>4, <1>5, <1>6, OwnNote

LEMMA RenameSerial ==
  ASSUME NotesInv, SerialInv, NEW r \in Reqs, Rename(r)
  PROVE  SerialInv'
  <1>1. /\ req[r] \in Handlers /\ req[r] # Idle /\ HandlerOK(r)
        /\ req[r].pc \in {"create_rename", "update_rename"}
    BY AtWork DEF NotesInv, Rename, Pcs, At
  <1>2. PICK i \in NoteIds, u \in Users : i = req[r].note /\ u = req[r].user
    BY <1>1 DEF HandlerOK, Own, Handlers
  <1>3. UNCHANGED <<notes, folders, clean>> /\ \A s \in Reqs \ {r} : s \in tmps => s \in tmps'
    BY DEF Rename
  <1>4. CASE r \notin tmps
    <2>1. Respond(r) /\ UNCHANGED disk
      BY <1>4 DEF Rename
    <2>2. ~InHand(r)
      BY <1>1, <1>4 DEF InHand
    <2> QED
      BY <1>1, <1>2, <1>3, <2>1, <2>2, EndsWhole
  <1>5. CASE r \in tmps
    <2>1. req[r].body \in Bodies /\ req[r].body # Null /\ Own(u, i)
      BY <1>1, <1>2, NullAssumption DEF HandlerOK
    <2>2. disk' = [disk EXCEPT ![<<u, i>>] = req[r].body]
      BY <1>2, <1>5 DEF Rename
    <2>3. \A v \in Users, j \in NoteIds :
            <<v, j>> \in Keys /\ (<<v, j>> = <<u, i>> => v = u /\ j = i)
      BY DEF Keys
    <2>4. /\ disk'[<<u, i>>] = req[r].body
          /\ \A v \in Users, j \in NoteIds : v # u \/ j # i => disk'[<<v, j>>] = disk[<<v, j>>]
      BY <2>2, <2>3 DEF NotesInv, BodiesInv
    <2>5. \A j \in NoteIds \ {i} :
            notes'[j] = notes[j] /\ \A v \in Users : disk'[<<v, j>>] = disk[<<v, j>>]
      BY <1>3, <2>4
    <2>6. CASE req[r].pc = "create_rename"
      <3>1. Respond(r)
        BY <1>5, <2>6 DEF Rename
      <3>2. InHand(r) => notes[i] # Null /\ notes[i].user = u
                         /\ notes[i].size = BodyLen[req[r].body]
        BY <1>2, <2>1, <2>6 DEF InHand, Own, RowMade
      <3>3. InHand(r) => Whole(i)'
        BY <1>3, <2>1, <2>4, <3>2 DEF Whole, Fits
      <3> QED
        BY <1>1, <1>2, <1>3, <2>5, <3>1, <3>3, EndedAt, OwnNote
    <2>7. CASE req[r].pc = "update_rename"
      <3> DEFINE row == Sized(req[r].row, req[r].body)
      <3>1. req[r].row \in Rows /\ row.size = BodyLen[req[r].body] /\ row.folder = req[r].row.folder
        BY <1>1, <2>7 DEF HandlerOK, Sized, Rows
      <3> HIDE DEF row
      <3>2. /\ req' = [req EXCEPT ![r] = req'[r]]
            /\ req'[r] = [req[r] EXCEPT !.pc = "update_row", !.row = row]
        BY <1>5, <2>7 DEF Rename, NotesInv, HandlersInv, row
      <3>3. /\ req'[r].pc = "update_row" /\ req'[r].row = row /\ req'[r].note = i
            /\ req'[r].user = u /\ req'[r].folder = req[r].folder /\ req'[r] # Idle
            /\ req'[r].body = req[r].body
        BY <1>1, <1>2, <3>2 DEF Handlers, Idle
      <3>4. InHand(r) => InHand(r)'
        BY <1>2, <1>3, <2>1, <2>4, <2>7, <3>1, <3>3 DEF InHand, Fits, RowRead
      <3>5. req' = [req EXCEPT ![r] = req'[r]]
        BY <3>2
      <3> QED
        BY <1>1, <1>2, <1>3, <2>5, <3>3, <3>4, <3>5, OwnNote
    <2> QED
      BY <1>1, <2>6, <2>7
  <1> QED
    BY <1>4, <1>5

LEMMA UpdateReadSerial ==
  ASSUME NotesInv, SerialInv, NEW r \in Reqs, UpdateRead(r)
  PROVE  SerialInv'
  <1>1. /\ req[r] \in Handlers /\ req[r] # Idle /\ HandlerOK(r) /\ req[r].pc = "update_read"
    BY AtWork DEF NotesInv, UpdateRead, Pcs, At
  <1>2. PICK i \in NoteIds : i = req[r].note
    BY <1>1 DEF HandlerOK
  <1>3. UNCHANGED <<notes, folders, disk, tmps, clean>>
    BY DEF UpdateRead
  <1>4. InHand(r) => Whole(i)
    BY <1>1, <1>2 DEF InHand
  <1>5. CASE Respond(r)
    BY <1>1, <1>2, <1>3, <1>4, <1>5, EndsWhole
  <1>6. CASE /\ OwnsNote(req[r].user, req[r].note)
             /\ req' = [req EXCEPT
                  ![r].pc  = IF KeepsFolder(req[r].folder) THEN AfterFolder(req[r])
                                                           ELSE "update_folder",
                  ![r].row = Retitled(notes[req[r].note], req[r].title)]
    <2> DEFINE row == Retitled(notes[req[r].note], req[r].title)
               pc  == IF KeepsFolder(req[r].folder) THEN AfterFolder(req[r]) ELSE "update_folder"
    <2>1. notes[i] \in Rows /\ notes[i] # Null /\ notes[i].user = req[r].user
      BY <1>2, <1>6 DEF OwnsNote, NotesInv, TablesInv
    <2>2. row.folder = notes[i].folder /\ row.size = notes[i].size
      BY <1>2, <2>1 DEF Retitled, Rows
    <2>3. row.folder # Null => folders[row.folder] # Null
      BY <2>1, <2>2, NullAssumption DEF NotesInv, TablesInv, FolderOwnership, Rows
    <2>4. /\ pc \in {"update_folder", "update_tmp", "update_row"}
          /\ pc # "update_folder" => req[r].folder \notin Folders
          /\ row = Retitled(notes[i], req[r].title)
      BY <1>2, WordsAssumption DEF AfterFolder, KeepsFolder
    <2> HIDE DEF row, pc
    <2>5. req' = [req EXCEPT ![r] = req'[r]] /\ req'[r] = [req[r] EXCEPT !.pc = pc, !.row = row]
      BY <1>6 DEF NotesInv, HandlersInv, row, pc
    <2>6. /\ req'[r].pc = pc /\ req'[r].row = row /\ req'[r].note = i
          /\ req'[r].user = req[r].user /\ req'[r].folder = req[r].folder /\ req'[r] # Idle
          /\ req'[r].title = req[r].title /\ req'[r].body = req[r].body
      BY <1>1, <1>2, <2>4, <2>5 DEF Handlers, Idle
    <2>7. Whole(i) => Fits(req[r].user, i, row.size)
      BY <2>1, <2>2 DEF Whole
    <2>8. InHand(r) => InHand(r)'
      BY <1>3, <1>4, <2>1, <2>2, <2>3, <2>4, <2>6, <2>7, SameWhole DEF InHand, Fits, RowRead
    <2>9. req' = [req EXCEPT ![r] = req'[r]]
      BY <2>5
    <2> QED
      BY <1>1, <1>2, <1>3, <2>6, <2>8, <2>9, OwnNote
  <1> QED
    BY <1>5, <1>6 DEF UpdateRead

LEMMA UpdateFolderCheckSerial ==
  ASSUME NotesInv, SerialInv, NEW r \in Reqs, UpdateFolderCheck(r)
  PROVE  SerialInv'
  <1>1. /\ req[r] \in Handlers /\ req[r] # Idle /\ HandlerOK(r) /\ req[r].pc = "update_folder"
    BY AtWork DEF NotesInv, UpdateFolderCheck, Pcs, At
  <1>2. PICK i \in NoteIds : i = req[r].note
    BY <1>1 DEF HandlerOK, Own
  <1>3. UNCHANGED <<notes, folders, disk, tmps, clean>>
    BY DEF UpdateFolderCheck
  <1>4. InHand(r) => /\ Whole(i) /\ notes[i] # Null /\ req[r].row.size = notes[i].size
                     /\ (req[r].row.folder # Null => folders[req[r].row.folder] # Null)
                     /\ req[r].row = Retitled(notes[i], req[r].title)
    BY <1>1, <1>2 DEF InHand, RowRead
  <1>5. CASE Respond(r)
    BY <1>1, <1>2, <1>3, <1>4, <1>5, EndsWhole
  <1>6. CASE FolderOwned(req[r].user, req[r].folder) /\ Goto(r, AfterFolder(req[r]))
    <2> DEFINE pc == AfterFolder(req[r])
    <2>1. pc \in {"update_tmp", "update_row"}
      BY DEF AfterFolder
    <2> HIDE DEF pc
    <2>2. req' = [req EXCEPT ![r] = req'[r]] /\ req'[r] = [req[r] EXCEPT !.pc = pc]
      BY <1>6 DEF Goto, NotesInv, HandlersInv, pc
    <2>3. /\ req'[r].pc = pc /\ req'[r].row = req[r].row /\ req'[r].note = i
          /\ req'[r].user = req[r].user /\ req'[r].folder = req[r].folder /\ req'[r] # Idle
          /\ req'[r].title = req[r].title /\ req'[r].body = req[r].body
      BY <1>1, <1>2, <2>1, <2>2 DEF Handlers, Idle
    <2>4. folders[req[r].folder] # Null
      BY <1>1, <1>6, NullAssumption DEF FolderOwned, Handlers
    <2>5. notes[i] # Null => notes[i].user = req[r].user
      BY <1>1, <1>2 DEF HandlerOK, Own
    <2>6. InHand(r) => Fits(req[r].user, i, req[r].row.size)
      BY <1>4, <2>5 DEF Whole
    <2>7. InHand(r) => InHand(r)'
      BY <1>3, <1>4, <2>1, <2>3, <2>4, <2>6, SameWhole DEF InHand, Fits, RowRead
    <2>8. req' = [req EXCEPT ![r] = req'[r]]
      BY <2>2
    <2> QED
      BY <1>1, <1>2, <1>3, <2>3, <2>7, <2>8, OwnNote
  <1> QED
    BY <1>5, <1>6 DEF UpdateFolderCheck

(* The one request of a clean note does not find its row refused.          *)
LEMMA StoreSucceeds ==
  ASSUME NotesInv, NEW r \in Reqs, At(r, "update_row"), InHand(r)
  PROVE  UpdateSucceeds(req[r])
  <1>1. /\ req[r] \in Handlers /\ HandlerOK(r) /\ req[r].pc = "update_row"
    BY AtWork DEF NotesInv, Pcs, At
  <1>2. PICK i \in NoteIds, u \in Users : i = req[r].note /\ u = req[r].user
    BY <1>1 DEF HandlerOK, Own, Handlers
  <1>3. /\ req[r].row \in Rows /\ (notes[i] # Null => notes[i].user = u)
    BY <1>1, <1>2 DEF HandlerOK, Own
  <1>4. NewRow(req[r]).folder \in {req[r].row.folder, FolderOf(req[r].folder)}
    BY <1>3 DEF NewRow, Rows
  <1>5. /\ notes[i] # Null
        /\ (req[r].row.folder # Null => folders[req[r].row.folder] # Null)
        /\ (req[r].folder \in Folders => folders[req[r].folder] # Null)
    BY <1>1, <1>2 DEF InHand
  <1>6. FolderRefOK(NewRow(req[r]).folder)
    BY <1>4, <1>5 DEF FolderRefOK, FolderOf
  <1>7. OwnsNote(req[r].user, req[r].note)
    BY <1>2, <1>3, <1>5 DEF OwnsNote
  <1> QED
    BY <1>6, <1>7 DEF UpdateSucceeds

LEMMA UpdateRowSerial ==
  ASSUME NotesInv, SerialInv, NEW r \in Reqs, UpdateRow(r)
  PROVE  SerialInv'
  <1>1. /\ req[r] \in Handlers /\ req[r] # Idle /\ HandlerOK(r) /\ req[r].pc = "update_row"
    BY AtWork DEF NotesInv, UpdateRow, Pcs, At
  <1>2. PICK i \in NoteIds, u \in Users : i = req[r].note /\ u = req[r].user
    BY <1>1 DEF HandlerOK, Own, Handlers
  <1>3. UNCHANGED <<folders, disk, tmps, clean>> /\ Respond(r)
    BY DEF UpdateRow
  <1> DEFINE row == NewRow(req[r])
  <1>4. req[r].row \in Rows /\ req[r].row.user = u /\ (notes[i] # Null => notes[i].user = u)
    BY <1>1, <1>2 DEF HandlerOK, Own
  <1>5. /\ row \in Rows /\ row.user = u /\ row.size = req[r].row.size
        /\ row.folder \in {req[r].row.folder, FolderOf(req[r].folder)}
    BY <1>4 DEF NewRow, Rows, FolderOf
  <1>6. InHand(r) => UpdateSucceeds(req[r]) /\ Fits(u, i, row.size)
    <2>1. InHand(r) => Fits(u, i, req[r].row.size)
      BY <1>1, <1>2 DEF InHand
    <2> QED
      BY <1>1, <1>5, <2>1, StoreSucceeds DEF At
  <1>7. notes' = IF UpdateSucceeds(req[r]) THEN [notes EXCEPT ![i] = row] ELSE notes
    BY <1>2 DEF UpdateRow
  <1> HIDE DEF row
  <1>8. \A j \in NoteIds \ {i} : notes'[j] = notes[j]
    BY <1>7 DEF NotesInv, TablesInv
  <1>9. UpdateSucceeds(req[r]) => notes'[i] = row /\ row # Null
    BY <1>5, <1>7, NullAssumption DEF NotesInv, TablesInv
  <1>10. InHand(r) => Whole(i)'
    BY <1>3, <1>5, <1>6, <1>9 DEF Whole, Fits
  <1>11. \A j \in NoteIds \ {i} :
            notes'[j] = notes[j] /\ \A v \in Users : disk'[<<v, j>>] = disk[<<v, j>>]
    BY <1>3, <1>8
  <1> QED
    BY <1>1, <1>2, <1>3, <1>10, <1>11, EndedAt, OwnNote

(* The row goes first: the body is then the only thing left of the note.  *)
LEMMA DeleteRowSerial ==
  ASSUME NotesInv, SerialInv, NEW r \in Reqs, DeleteRow(r)
  PROVE  SerialInv'
  <1>1. /\ req[r] \in Handlers /\ req[r] # Idle /\ HandlerOK(r) /\ req[r].pc = "delete_row"
    BY AtWork DEF NotesInv, DeleteRow, Pcs, At
  <1>2. PICK i \in NoteIds, u \in Users : i = req[r].note /\ u = req[r].user
    BY <1>1 DEF HandlerOK, Handlers
  <1>3. UNCHANGED <<folders, disk, tmps, clean>>
    BY DEF DeleteRow
  <1>4. CASE Respond(r) /\ UNCHANGED notes
    <2>1. InHand(r) => Whole(i)
      BY <1>1, <1>2 DEF InHand
    <2> QED
      BY <1>1, <1>2, <1>3, <1>4, <2>1, EndsWhole
  <1>5. CASE OwnsNote(u, i) /\ notes' = [notes EXCEPT ![i] = Null] /\ Goto(r, "delete_body")
    <2>1. req' = [req EXCEPT ![r] = req'[r]] /\ req'[r] = [req[r] EXCEPT !.pc = "delete_body"]
      BY <1>5 DEF Goto, NotesInv, HandlersInv
    <2>2. /\ req'[r].pc = "delete_body" /\ req'[r].note = i /\ req'[r].user = u
          /\ req'[r] # Idle
      BY <1>1, <1>2, <2>1 DEF Handlers, Idle
    <2>3. \A v \in Users \ {u} : disk[<<v, i>>] = Null
      BY <1>5 DEF OwnsNote, NotesInv, BodiesInv, BodyHasOwner
    <2>4. InHand(r)'
      BY <1>3, <2>2, <2>3 DEF InHand, RowRead
    <2>5. \A j \in NoteIds \ {i} :
            notes'[j] = notes[j] /\ \A v \in Users : disk'[<<v, j>>] = disk[<<v, j>>]
      BY <1>3, <1>5 DEF NotesInv, TablesInv
    <2>6. req' = [req EXCEPT ![r] = req'[r]]
      BY <2>1
    <2> QED
      BY <1>1, <1>2, <1>3, <2>2, <2>4, <2>5, <2>6, OwnNote
  <1> QED
    BY <1>2, <1>4, <1>5 DEF DeleteRow

LEMMA DeleteBodySerial ==
  ASSUME NotesInv, SerialInv, NEW r \in Reqs, DeleteBody(r)
  PROVE  SerialInv'
  <1>1. /\ req[r] \in Handlers /\ req[r] # Idle /\ HandlerOK(r) /\ req[r].pc = "delete_body"
    BY AtWork DEF NotesInv, DeleteBody, Pcs, At
  <1>2. PICK i \in NoteIds, u \in Users : i = req[r].note /\ u = req[r].user
    BY <1>1 DEF HandlerOK, Own, Handlers
  <1>3. UNCHANGED <<notes, folders, tmps, clean>> /\ Respond(r)
    BY DEF DeleteBody
  <1>4. disk' = [disk EXCEPT ![<<u, i>>] = Null]
    BY <1>2 DEF DeleteBody
  <1>5. \A v \in Users, j \in NoteIds :
          <<v, j>> \in Keys /\ (<<v, j>> = <<u, i>> => v = u /\ j = i)
    BY DEF Keys
  <1>6. /\ disk'[<<u, i>>] = Null
        /\ \A v \in Users, j \in NoteIds : v # u \/ j # i => disk'[<<v, j>>] = disk[<<v, j>>]
    BY <1>4, <1>5 DEF NotesInv, BodiesInv
  <1>7. InHand(r) => Whole(i)'
    <2>1. notes'[i] = Null
      BY <1>1, <1>2, <1>3 DEF HandlerOK
    <2>2. InHand(r) => \A v \in Users \ {u} : disk[<<v, i>>] = Null
      BY <1>1, <1>2 DEF InHand
    <2> QED
      BY <1>6, <2>1, <2>2 DEF Whole, Bodiless
  <1>8. \A j \in NoteIds \ {i} :
          notes'[j] = notes[j] /\ \A v \in Users : disk'[<<v, j>>] = disk[<<v, j>>]
    BY <1>3, <1>6
  <1> QED
    BY <1>1, <1>2, <1>3, <1>7, <1>8, EndedAt, OwnNote

LEMMA HandleSerial ==
  ASSUME NotesInv, SerialInv, NEW r \in Reqs, Handle(r)
  PROVE  SerialInv'
  BY CreateFolderCheckSerial, CreateRowSerial, WriteTmpSerial, RenameSerial, UpdateReadSerial,
     UpdateFolderCheckSerial, UpdateRowSerial, DeleteRowSerial, DeleteBodySerial DEF Handle

(* A deleted folder unfiles notes: it leaves in account those that nobody  *)
(* is at work on, whose owner and size stay.                               *)
LEMMA FoldersSerial ==
  ASSUME NotesInv, SerialInv, NEW u \in Users, NEW f \in Folders,
         CreateFolder(u, f) \/ DeleteFolder(u, f)
  PROVE  SerialInv'
  <1>1. CASE CreateFolder(u, f)
    <2>1. /\ UNCHANGED <<notes, disk, tmps, req, clean>>
          /\ \A g \in Folders : folders[g] # Null => folders'[g] # Null
      BY <1>1, NullAssumption DEF CreateFolder, NotesInv, TablesInv
    <2>2. ASSUME NEW i \in clean
          PROVE  Serial(i)'
      <3>1. i \in NoteIds /\ Serial(i) /\ Busy(i)' = Busy(i)
        BY <2>1 DEF NotesInv, RestInv, SerialInv, Busy
      <3> QED
        BY <2>1, <3>1, Untouched
    <2> QED
      BY <2>1, <2>2 DEF SerialInv
  <1>2. CASE DeleteFolder(u, f)
    <2>1. UNCHANGED <<disk, req>> /\ clean' = {i \in clean : Busy(i) = {}}
      BY <1>2 DEF DeleteFolder
    <2>2. ASSUME NEW i \in clean'
          PROVE  Serial(i)'
      <3>1. i \in NoteIds /\ Whole(i) /\ Busy(i)' = {}
        BY <2>1, <2>2 DEF NotesInv, RestInv, SerialInv, Serial, Busy
      <3>2. notes'[i] = IF notes[i] # Null /\ notes[i].folder = f
                        THEN [notes[i] EXCEPT !.folder = Null] ELSE notes[i]
        BY <1>2, <3>1 DEF DeleteFolder
      <3>3. CASE notes[i] = Null
        BY <2>1, <3>1, <3>2, <3>3 DEF Serial, Whole, Bodiless
      <3>4. CASE notes[i] # Null
        <4>1. notes[i] \in Rows
          BY <3>1, <3>4 DEF NotesInv, TablesInv
        <4>2. [notes[i] EXCEPT !.folder = Null] \in Rows
          BY <4>1 DEF Rows
        <4>3. notes'[i].user = notes[i].user /\ notes'[i].size = notes[i].size /\ notes'[i] # Null
          BY <3>2, <3>4, <4>1, <4>2, NullAssumption DEF Rows
        <4> QED
          BY <2>1, <3>1, <3>4, <4>3 DEF Serial, Whole, Fits
      <3> QED
        BY <3>3, <3>4
    <2> QED
      BY <2>2 DEF SerialInv
  <1> QED
    BY <1>1, <1>2

(* What the sweep removes it takes out of account; it touches nothing else *)
(* of a note.                                                              *)
LEMMA VisitSerial ==
  ASSUME NotesInv, SerialInv, NEW e, SweepVisit(e)
  PROVE  SerialInv'
  <1>1. /\ UNCHANGED <<notes, folders, req>> /\ tmps' = tmps \ {e}
        /\ disk' = [k \in Keys |-> IF k = e /\ k \notin sweep.keep THEN Null ELSE disk[k]]
        /\ clean' = {i \in clean : \A u \in Users : e = <<u, i>> => e \in sweep.keep}
                       \ {req[r].note : r \in {e} \cap tmps}
    BY DEF SweepVisit
  <1>2. ASSUME NEW i \in clean'
        PROVE  Serial(i)'
    <2>1. /\ i \in NoteIds /\ Serial(i) /\ Busy(i)' = Busy(i)
          /\ \A u \in Users : e = <<u, i>> => e \in sweep.keep
      BY <1>1, <1>2 DEF NotesInv, RestInv, SerialInv, Busy
    <2>2. \A u \in Users : disk'[<<u, i>>] = disk[<<u, i>>]
      <3> TAKE u \in Users
      <3>1. <<u, i>> \in Keys
        BY <2>1 DEF Keys
      <3> QED
        BY <1>1, <2>1, <3>1
    <2>3. \A s \in Busy(i) : s \in tmps => s \in tmps'
      BY <1>1, <1>2 DEF Busy
    <2> QED
      BY <1>1, <2>1, <2>2, <2>3, Untouched
  <1> QED
    BY <1>2 DEF SerialInv

LEMMA FailSerial ==
  ASSUME NotesInv, SerialInv, NEW r \in Reqs, Fail(r)
  PROVE  SerialInv'
  <1>1. /\ req[r] # Idle /\ Respond(r) /\ UNCHANGED <<notes, folders, disk>>
        /\ tmps' = tmps \ {r} /\ clean' = clean \ {req[r].note}
    BY DEF Fail
  <1>2. req'[r] = Idle /\ \A s \in Reqs \ {r} : req'[s] = req[s]
    BY <1>1, EndedAt DEF NotesInv, HandlersInv
  <1>3. ASSUME NEW i \in clean'
        PROVE  Serial(i)'
    <2>1. i \in NoteIds /\ Serial(i) /\ i # req[r].note
      BY <1>1, <1>3 DEF NotesInv, RestInv, SerialInv
    <2>2. Busy(i)' = Busy(i) /\ r \notin Busy(i)
      BY <1>2, <2>1 DEF Busy
    <2>3. \A s \in Busy(i) : req'[s] = req[s] /\ (s \in tmps => s \in tmps')
      BY <1>1, <1>2, <2>2 DEF Busy
    <2> QED
      BY <1>1, <2>1, <2>2, <2>3, Untouched
  <1> QED
    BY <1>3 DEF SerialInv

(* What a crash leaves in account had no request at work on it.            *)
LEMMA CrashSerial ==
  ASSUME NotesInv, SerialInv, Crash
  PROVE  SerialInv'
  <1>1. /\ req' = [r \in Reqs |-> Idle] /\ UNCHANGED <<notes, disk>>
        /\ clean' = {i \in clean : Busy(i) = {}}
    BY DEF Crash
  <1>2. \A i : Busy(i)' = {}
    BY <1>1 DEF Busy
  <1>3. \A i \in clean' : Whole(i)'
    BY <1>1, SameWhole DEF SerialInv, Serial
  <1> QED
    BY <1>2, <1>3 DEF SerialInv, Serial

LEMMA SerialStep ==
  ASSUME NotesInv, SerialInv, [Next]_vars
  PROVE  SerialInv'
  <1>1. ASSUME UNCHANGED <<notes, folders, disk, tmps, req, clean>>
        PROVE  SerialInv'
    <2>1. ASSUME NEW i \in clean
          PROVE  Serial(i)'
      <3>1. i \in NoteIds /\ Serial(i) /\ Busy(i)' = Busy(i)
        BY <1>1 DEF NotesInv, RestInv, SerialInv, Busy
      <3> QED
        BY <1>1, <3>1, Untouched
    <2> QED
      BY <1>1, <2>1 DEF SerialInv
  <1>2. SweepSkipped \/ UNCHANGED vars => UNCHANGED <<notes, folders, disk, tmps, req, clean>>
    BY DEF SweepSkipped, vars
  <1>3. Sweep => \/ UNCHANGED <<notes, folders, disk, tmps, req, clean>>
                 \/ \E e : SweepVisit(e)
    BY DEF Sweep, KeepSets, SweepList, SweepDone
  <1> QED
    BY <1>1, <1>2, <1>3, RequestSerial, HandleSerial, FailSerial, FoldersSerial, VisitSerial,
       CrashSerial DEF Next

LEMMA SerialInvariance == Spec => []SerialInv
  <1>1. Init => SerialInv
    <2> SUFFICES ASSUME Init
                 PROVE  SerialInv
      OBVIOUS
    <2>1. \A i \in NoteIds : Busy(i) = {} /\ Whole(i)
      BY DEF Init, Busy, Whole, Bodiless, Keys
    <2> QED
      BY <2>1 DEF Init, SerialInv, Serial
  <1>2. NotesInv /\ SerialInv /\ [Next]_vars => SerialInv'
    BY SerialStep
  <1> QED
    BY <1>1, <1>2, Invariance, PTL DEF Spec

(* A note whose requests came one after the other, without a fault and     *)
(* without the sweep, is whole once the last of them was answered: its size*)
(* is the length of its one body, and a deleted note has no body.          *)
THEOREM SerialRequestsWhole == Spec => []SerialNotesWhole
  <1>1. NotesInv /\ SerialInv => SerialNotesWhole
    <2> SUFFICES ASSUME NotesInv, SerialInv, NEW i \in clean \cap minted, Busy(i) = {}
                 PROVE  LET bodies == {disk[<<u, i>>] : u \in Users} \ {Null}
                        IN  IF notes[i] = Null THEN bodies = {}
                            ELSE \E b \in bodies : bodies = {b} /\ BodyLen[b] = notes[i].size
      BY DEF SerialNotesWhole
    <2>1. i \in NoteIds /\ Whole(i)
      BY DEF NotesInv, RestInv, SerialInv, Serial
    <2>2. CASE notes[i] = Null
      BY <2>1, <2>2 DEF Whole, Bodiless
    <2>3. CASE notes[i] # Null
      <3>1. notes[i].user \in Users /\ Fits(notes[i].user, i, notes[i].size)
        BY <2>1, <2>3 DEF NotesInv, TablesInv, Rows, Whole
      <3>2. \A u \in Users : disk[<<u, i>>] # Null => u = notes[i].user
        BY <2>1, <2>3 DEF NotesInv, BodiesInv, BodyHasOwner
      <3> DEFINE b == disk[<<notes[i].user, i>>]
      <3>3. {disk[<<u, i>>] : u \in Users} \ {Null} = {b} /\ BodyLen[b] = notes[i].size
        BY <3>1, <3>2 DEF Fits
      <3> QED
        BY <2>3, <3>3
    <2> QED
      BY <2>2, <2>3
  <1> QED
    BY <1>1, Invariance, SerialInvariance, PTL

----------------------------------------------------------------------------
(* The sweep reaches what it has to.  OrphansSwept needs fairness and is   *)
(* left to TLC; what it rests on besides is proved.                        *)

Waits       == sweep.phase \in {"boot", "skipped"}
Ahead(u, e) == sweep.phase = "walk" /\ (u \in sweep.dirs \/ e \in sweep.todo)

(* A body without a row, or a temp file left behind, that is yet to be     *)
(* reached, by this walk or, when there is none, by that of the next start.*)
BodyDue(k) ==
    /\ disk[k] # Null /\ notes[k[2]] = Null
    /\ Waits \/ (k \notin sweep.keep /\ Ahead(k[1], k))

LitterDue(l) == l \in litter /\ (Waits \/ Ahead(l[1], l))

BodiesNotPassed == \A k \in Keys : BodyDue(k) => BodyDue(k)' \/ disk'[k] = Null
LitterNotPassed == \A l \in Litter : LitterDue(l) => LitterDue(l)' \/ l \notin litter'

WalkShrinks ==
    sweep.phase = "walk" /\ sweep' # sweep =>
        \/ sweep' = [sweep EXCEPT !.phase = "done"] /\ Walked
        \/ sweep' = BootSweep
        \/ /\ sweep' = [sweep EXCEPT !.dirs = sweep'.dirs, !.todo = sweep'.todo]
           /\ \/ sweep'.dirs \subseteq sweep.dirs /\ sweep'.dirs # sweep.dirs
              \/ /\ sweep'.dirs = sweep.dirs
                 /\ sweep'.todo \subseteq sweep.todo /\ sweep'.todo # sweep.todo

(* Nothing due is passed over: it stays due until it is gone, so the walk  *)
(* does not end before (SweepDone).  And a step of the walk leaves fewer   *)
(* directories, or as many and fewer files of the one being walked, unless *)
(* it is the last or the process dies: the walk is as long as the listing. *)
SweepMissesNothing == [][BodiesNotPassed /\ LitterNotPassed /\ WalkShrinks]_vars

LEMMA SweepMoves ==
  [Next]_vars => \/ UNCHANGED sweep /\ litter \subseteq litter'
                 \/ KeepSets \/ SweepDone \/ SweepSkipped \/ Crash
                 \/ (\E u \in Users : SweepList(u)) \/ (\E e : SweepVisit(e))
  <1>1. ASSUME NEW r \in Reqs, Request(r) \/ Fail(r)
        PROVE  UNCHANGED sweep /\ litter \subseteq litter'
    BY <1>1 DEF Request, Create, Update, Delete, Fail
  <1>2. ASSUME NEW r \in Reqs, Handle(r)
        PROVE  UNCHANGED <<sweep, litter>>
    BY <1>2 DEF Handle, CreateFolderCheck, CreateRow, WriteTmp, Rename, UpdateRead,
       UpdateFolderCheck, UpdateRow, DeleteRow, DeleteBody
  <1>3. ASSUME NEW u \in Users, NEW f \in Folders, CreateFolder(u, f) \/ DeleteFolder(u, f)
        PROVE  UNCHANGED <<sweep, litter>>
    BY <1>3 DEF CreateFolder, DeleteFolder
  <1>4. UNCHANGED vars => UNCHANGED <<sweep, litter>>
    BY DEF vars
  <1> QED
    BY <1>1, <1>2, <1>3, <1>4 DEF Next, Sweep

(* The sweep's own steps.                                                  *)
LEMMA ListStep ==
  ASSUME NotesInv, NEW u \in Users, SweepList(u)
  PROVE  BodiesNotPassed /\ LitterNotPassed /\ WalkShrinks
  <1> DEFINE listed == {k \in Keys : k[1] = u /\ disk[k] # Null}
                         \cup {r \in tmps : req[r].user = u} \cup {l \in litter : l[1] = u}
  <1>1. /\ sweep.phase = "walk" /\ sweep.todo = {} /\ u \in sweep.dirs
        /\ sweep' = [sweep EXCEPT !.dirs = @ \ {u}, !.todo = listed]
        /\ UNCHANGED <<notes, disk, litter>>
    BY DEF SweepList
  <1>2. /\ \A k \in Keys : k[1] = u /\ disk[k] # Null => k \in listed
        /\ \A l \in litter : l[1] = u => l \in listed
    OBVIOUS
  <1> HIDE DEF listed
  <1>3. /\ sweep'.phase = "walk" /\ sweep'.keep = sweep.keep
        /\ sweep'.dirs = sweep.dirs \ {u} /\ sweep'.todo = listed
    BY <1>1 DEF NotesInv, SweepInv
  <1>4. BodiesNotPassed
    BY <1>1, <1>2, <1>3 DEF BodiesNotPassed, BodyDue, Waits, Ahead
  <1>5. LitterNotPassed
    BY <1>1, <1>2, <1>3 DEF LitterNotPassed, LitterDue, Waits, Ahead
  <1>6. sweep' = [sweep EXCEPT !.dirs = sweep'.dirs, !.todo = sweep'.todo]
    BY <1>1, <1>3 DEF NotesInv, SweepInv
  <1>7. WalkShrinks
    BY <1>1, <1>3, <1>6 DEF WalkShrinks
  <1> QED
    BY <1>4, <1>5, <1>7

LEMMA VisitStep ==
  ASSUME NotesInv, NEW e, SweepVisit(e)
  PROVE  BodiesNotPassed /\ LitterNotPassed /\ WalkShrinks
  <1>1. /\ sweep.phase = "walk" /\ e \in sweep.todo /\ sweep' = [sweep EXCEPT !.todo = @ \ {e}]
        /\ disk' = [k \in Keys |-> IF k = e /\ k \notin sweep.keep THEN Null ELSE disk[k]]
        /\ litter' = litter \ {e} /\ UNCHANGED notes
    BY DEF SweepVisit
  <1>2. /\ sweep'.phase = "walk" /\ sweep'.keep = sweep.keep /\ sweep'.dirs = sweep.dirs
        /\ sweep'.todo = sweep.todo \ {e}
    BY <1>1 DEF NotesInv, SweepInv
  <1>3. ASSUME NEW k \in Keys, BodyDue(k), disk'[k] # Null
        PROVE  BodyDue(k)'
    <2>1. disk[k] # Null /\ notes[k[2]] = Null /\ k \notin sweep.keep /\ Ahead(k[1], k)
      BY <1>1, <1>3 DEF BodyDue, Waits
    <2>2. k # e
      BY <1>1, <1>3, <2>1
    <2> QED
      BY <1>1, <1>2, <1>3, <2>1, <2>2 DEF BodyDue, Ahead
  <1>4. BodiesNotPassed
    BY <1>3 DEF BodiesNotPassed
  <1>5. LitterNotPassed
    BY <1>1, <1>2 DEF LitterNotPassed, LitterDue, Waits, Ahead
  <1>6. sweep' = [sweep EXCEPT !.dirs = sweep'.dirs, !.todo = sweep'.todo]
    BY <1>1, <1>2 DEF NotesInv, SweepInv
  <1>7. WalkShrinks
    BY <1>1, <1>2, <1>6 DEF WalkShrinks
  <1> QED
    BY <1>4, <1>5, <1>7

(* Nothing due is passed over by any step: by the others because a deleted *)
(* row stays deleted and they leave the sweep alone, by KeepSets because a *)
(* body without a row is not in the keep set, by SweepDone because the     *)
(* walk is over with nothing left.                                         *)
THEOREM SweepReachesAll == Spec => SweepMissesNothing
  <1>1. ASSUME NotesInv, [Next]_vars
        PROVE  BodiesNotPassed /\ LitterNotPassed /\ WalkShrinks
    <2>1. ASSUME NEW k \in Keys, disk[k] # Null, notes[k[2]] = Null
          PROVE  notes'[k[2]] = Null
      <3>1. k[1] \in Users /\ k[2] \in NoteIds /\ k = <<k[1], k[2]>>
        BY DEF Keys
      <3>2. k[2] \in minted
        BY <1>1, <2>1, <3>1 DEF NotesInv, BodiesInv, BodyHasOwner
      <3> QED
        BY <1>1, <2>1, <3>1, <3>2, TablesStep DEF Steady
    <2>2. CASE UNCHANGED sweep /\ litter \subseteq litter'
      BY <2>1, <2>2 DEF BodiesNotPassed, LitterNotPassed, WalkShrinks, BodyDue, LitterDue,
         Waits, Ahead
    <2>3. CASE KeepSets
      <3>1. /\ sweep.phase = "boot" /\ sweep'.phase = "walk" /\ sweep'.keep = Kept
            /\ sweep'.dirs = Users /\ UNCHANGED <<notes, disk, litter>>
        BY <2>3 DEF KeepSets
      <3>2. \A k \in Keys : k[1] \in Users /\ (notes[k[2]] = Null => k \notin Kept)
        BY DEF Keys, Kept, OwnsNote
      <3>3. \A l \in Litter : l[1] \in Users
        BY DEF Litter
      <3> QED
        BY <3>1, <3>2, <3>3 DEF BodiesNotPassed, LitterNotPassed, WalkShrinks, BodyDue, LitterDue,
           Waits, Ahead
    <2>4. CASE SweepDone
      <3>1. sweep.phase = "walk" /\ Walked /\ sweep' = [sweep EXCEPT !.phase = "done"]
        BY <2>4 DEF SweepDone
      <3>2. (\A k \in Keys : ~BodyDue(k)) /\ (\A l \in Litter : ~LitterDue(l))
        BY <3>1 DEF Walked, BodyDue, LitterDue, Waits, Ahead
      <3> QED
        BY <3>1, <3>2 DEF BodiesNotPassed, LitterNotPassed, WalkShrinks
    <2>5. CASE SweepSkipped
      <3>1. sweep.phase = "boot" /\ sweep'.phase = "skipped" /\ UNCHANGED <<notes, disk, litter>>
        BY <1>1, <2>5 DEF SweepSkipped, NotesInv, SweepInv
      <3> QED
        BY <3>1 DEF BodiesNotPassed, LitterNotPassed, WalkShrinks, BodyDue, LitterDue, Waits
    <2>6. CASE Crash
      <3>1. /\ sweep' = BootSweep /\ sweep'.phase = "boot" /\ UNCHANGED <<notes, disk>>
            /\ litter \subseteq litter'
        BY <2>6 DEF Crash, BootSweep
      <3> QED
        BY <3>1 DEF BodiesNotPassed, LitterNotPassed, WalkShrinks, BodyDue, LitterDue, Waits
    <2> QED
      BY <1>1, <2>2, <2>3, <2>4, <2>5, <2>6, SweepMoves, ListStep, VisitStep
  <1> QED
    BY <1>1, Invariance, PTL DEF Spec, SweepMissesNothing
----------------------------------------------------------------------------
(* The Vault.                                                              *)


LEMMA Taken ==
  ASSUME NotesInv, NEW i \in NoteIds, NEW r \in Busy(i)
  PROVE  i \in minted
  <1>1. r \in Reqs /\ req[r] # Idle /\ req[r].note = i
    BY DEF Busy
  <1>2. HandlerOK(r) /\ req[r].pc \in Pcs
    BY <1>1 DEF NotesInv, HandlersInv, Handlers
  <1> QED
    BY <1>1, <1>2, NullAssumption DEF HandlerOK, Own, Pcs

(* What the Vault has of a note that is there, and of one whose row would  *)
(* be this.                                                                *)
View(i, row) ==
    IF notes[i] = Null THEN Promise!Deleted ELSE Promise!Note(row, disk[<<notes[i].user, i>>])

RowAt(r) == IF Stored(r) THEN NewRow(req[r]) ELSE notes[req[r].note]

Viewed(i) ==
    /\ i \notin clean => AsOne(i) = Promise!Lost
    /\ i \in clean \ minted => AsOne(i) = Promise!Unborn
    /\ i \in clean \cap minted /\ Busy(i) = {} => AsOne(i) = View(i, notes[i])
    /\ i \in clean => \A r \in Busy(i) :
         AsOne(i) = IF req[r].pc \in CreatePcs THEN Promise!Unborn ELSE View(i, RowAt(r))

Views == \A i \in NoteIds : Viewed(i)

LEMMA InView == NotesInv /\ SerialInv => Views
  <1> SUFFICES ASSUME NotesInv, SerialInv, NEW i \in NoteIds
               PROVE  Viewed(i)
    BY DEF Views
  <1>1. i \notin clean => AsOne(i) = Promise!Lost
    BY DEF AsOne, Promise!Lost
  <1>2. i \in clean \ minted => AsOne(i) = Promise!Unborn
    BY DEF AsOne, Promise!Unborn
  <1>3. ASSUME i \in clean \cap minted, Busy(i) = {}
        PROVE  AsOne(i) = View(i, notes[i])
    <2>1. RowOf(i) = notes[i]
      BY <1>3 DEF RowOf
    <2> QED
      BY <1>3, <2>1 DEF AsOne, View, Promise!Deleted, Promise!Note
  <1>4. ASSUME i \in clean, NEW r \in Busy(i)
        PROVE  AsOne(i) = IF req[r].pc \in CreatePcs THEN Promise!Unborn ELSE View(i, RowAt(r))
    <2>1. Busy(i) = {r}
      BY <1>4 DEF SerialInv, Serial
    <2>2. r \in Reqs /\ req[r] # Idle /\ req[r].note = i
      BY <1>4 DEF Busy
    <2>3. i \in minted
      BY <1>4, Taken
    <2>4. RowOf(i) = RowAt(r)
      <3>1. CASE Stored(r)
        <4>1. (CHOOSE s \in Busy(i) : Stored(s)) = r
          BY <2>1, <3>1
        <4> QED
          BY <1>4, <3>1, <4>1 DEF RowOf, RowAt
      <3>2. CASE ~Stored(r)
        BY <2>1, <2>2, <3>2 DEF RowOf, RowAt
      <3> QED
        BY <3>1, <3>2
    <2> QED
      BY <1>4, <2>1, <2>3, <2>4 DEF AsOne, View, Promise!Unborn, Promise!Deleted, Promise!Note
  <1> QED
    BY <1>1, <1>2, <1>3, <1>4 DEF Viewed

(* A note a step leaves alone, but that it may take it out of account.     *)
LEMMA SameNote ==
  ASSUME Views, Views', NotesInv, NEW i \in NoteIds,
         clean' \subseteq clean, i \in minted' <=> i \in minted,
         i \in clean' => /\ Busy(i)' = Busy(i) /\ \A r \in Busy(i) : req'[r] = req[r]
                         /\ notes'[i] = notes[i]
                         /\ \A u \in Users : disk'[<<u, i>>] = disk[<<u, i>>]
  PROVE  /\ AsOne(i)' \in {AsOne(i), Promise!Lost}
         /\ clean' = clean => AsOne(i)' = AsOne(i)
  <1>1. Viewed(i) /\ Viewed(i)'
    BY DEF Views
  <1>2. CASE i \notin clean'
    BY <1>1, <1>2 DEF Viewed
  <1>3. CASE i \in clean' /\ i \notin minted
    BY <1>1, <1>3 DEF Viewed
  <1>4. CASE i \in clean' /\ i \in minted
    <2>1. \A row : View(i, row)' = View(i, row)
      <3>1. notes[i] # Null => notes[i].user \in Users
        BY DEF NotesInv, TablesInv, Rows
      <3> QED
        BY <1>4, <3>1 DEF View
    <2>2. CASE Busy(i) = {}
      BY <1>1, <1>4, <2>1, <2>2 DEF Viewed
    <2>3. ASSUME NEW r \in Busy(i)
          PROVE  AsOne(i)' = AsOne(i)
      <3>1. req'[r] = req[r] /\ r \in Busy(i)' /\ req[r].note = i
        BY <1>4, <2>3 DEF Busy
      <3>2. RowAt(r)' = RowAt(r)
        BY <1>4, <3>1 DEF RowAt, Stored, At
      <3>3. View(i, RowAt(r))' = View(i, RowAt(r))
        BY <2>1, <3>2
      <3> QED
        BY <1>1, <1>4, <3>1, <3>3 DEF Viewed
    <2> QED
      BY <2>2, <2>3
  <1> QED
    BY <1>2, <1>3, <1>4

(* A step is one of the Vault's when it is so note by note and request by  *)
(* request.                                                                *)
LEMMA GivesUp ==
  ASSUME \A i \in NoteIds : AsOne(i)' \in {AsOne(i), Promise!Lost},
         \A r \in Reqs : Pending(r)' \in {Pending(r), Promise!Nothing}
  PROVE  Promise!Next
  <1>1. Promise!GiveUp
    BY DEF Promise!GiveUp, Promise!Becomes
  <1> QED
    BY <1>1 DEF Promise!Next

LEMMA Asks ==
  ASSUME NEW r \in Reqs, Pending(r) = Promise!Nothing, Pending(r)' \in Promise!Questions,
         \A s \in Reqs \ {r} : Pending(s)' = Pending(s),
         \A i \in NoteIds : AsOne(i)' \in {AsOne(i), Promise!Lost}
  PROVE  Promise!Next
  <1>1. Promise!Ask(r)
    BY DEF Promise!Ask, Promise!Becomes
  <1> QED
    BY <1>1 DEF Promise!Next

(* The request r takes effect on the note i and on no other.               *)
OthersAsTheyWere(r, i) ==
    /\ \A j \in NoteIds \ {i} : AsOne(j)' = AsOne(j)
    /\ \A s \in Reqs \ {r} : Pending(s)' = Pending(s)
    /\ Pending(r)' = Promise!Nothing

LEMMA TakesEffect ==
  ASSUME NEW r \in Reqs, NEW i \in NoteIds, OthersAsTheyWere(r, i)
  PROVE  /\ Pending(r).op = "create" /\ AsOne(i) = Promise!Unborn
            /\ AsOne(i)' = Promise!Created(Pending(r)) => Promise!Next
         /\ Pending(r).op = "update" /\ Pending(r).note = i
            /\ AsOne(i).state = "note" /\ AsOne(i).row.user = Pending(r).user
            /\ AsOne(i)' = Promise!Updated(AsOne(i), Pending(r)) => Promise!Next
         /\ Pending(r).op = "delete" /\ Pending(r).note = i
            /\ AsOne(i).state = "note" /\ AsOne(i).row.user = Pending(r).user
            /\ AsOne(i)' = Promise!Deleted => Promise!Next
  <1>1. ASSUME NEW v, AsOne(i)' = v
        PROVE  [j \in NoteIds |-> AsOne(j)]' = [[j \in NoteIds |-> AsOne(j)] EXCEPT ![i] = v]
    BY <1>1 DEF OthersAsTheyWere
  <1>2. [s \in Reqs |-> Pending(s)]' =
          [[s \in Reqs |-> Pending(s)] EXCEPT ![r] = Promise!Nothing]
    BY DEF OthersAsTheyWere
  <1>3. ASSUME Pending(r).op = "create", AsOne(i) = Promise!Unborn,
               AsOne(i)' = Promise!Created(Pending(r))
        PROVE  Promise!Next
    <2>1. Promise!Create(r, i)
      BY <1>1, <1>2, <1>3 DEF Promise!Create, Promise!Answered
    <2> QED
      BY <2>1 DEF Promise!Next
  <1>4. ASSUME Pending(r).op = "update", Pending(r).note = i, AsOne(i).state = "note",
               AsOne(i).row.user = Pending(r).user,
               AsOne(i)' = Promise!Updated(AsOne(i), Pending(r))
        PROVE  Promise!Next
    <2>1. Promise!Update(r, i)
      BY <1>1, <1>2, <1>4 DEF Promise!Update, Promise!Answered, Promise!Own
    <2> QED
      BY <2>1 DEF Promise!Next
  <1>5. ASSUME Pending(r).op = "delete", Pending(r).note = i, AsOne(i).state = "note",
               AsOne(i).row.user = Pending(r).user, AsOne(i)' = Promise!Deleted
        PROVE  Promise!Next
    <2>1. Promise!Delete(r, i)
      BY <1>1, <1>2, <1>5 DEF Promise!Delete, Promise!Answered, Promise!Own
    <2> QED
      BY <2>1 DEF Promise!Next
  <1> QED
    BY <1>3, <1>4, <1>5

(* A step of one request, at note i before and after it, if at any.        *)
LEMMA Elsewhere ==
  ASSUME Views, Views', NotesInv, NEW r \in Reqs, NEW i \in NoteIds \cup {Null},
         req' = [req EXCEPT ![r] = req'[r]],
         req[r] # Idle => req[r].note \in {i, Null}, req'[r] # Idle => req'[r].note \in {i, Null},
         \A j \in NoteIds \ {i} :
           /\ notes'[j] = notes[j] /\ (j \in minted' <=> j \in minted)
           /\ \A u \in Users : disk'[<<u, j>>] = disk[<<u, j>>],
         clean' \subseteq clean
  PROVE  /\ \A j \in NoteIds \ {i} : AsOne(j)' \in {AsOne(j), Promise!Lost}
         /\ clean' = clean => \A j \in NoteIds \ {i} : AsOne(j)' = AsOne(j)
         /\ \A s \in Reqs \ {r} : Pending(s)' = Pending(s)
  <1>1. \A s \in Reqs \ {r} : req'[s] = req[s]
    BY DEF NotesInv, HandlersInv
  <1>2. ASSUME NEW j \in NoteIds \ {i}
        PROVE  /\ AsOne(j)' \in {AsOne(j), Promise!Lost}
               /\ clean' = clean => AsOne(j)' = AsOne(j)
    <2>1. j # Null
      BY NullAssumption
    <2>2. Busy(j)' = Busy(j) /\ \A s \in Busy(j) : req'[s] = req[s]
      BY <1>1, <1>2, <2>1 DEF Busy
    <2> QED
      BY <2>2, SameNote
  <1>3. ASSUME NEW s \in Reqs \ {r}
        PROVE  Pending(s)' = Pending(s)
    BY <1>1 DEF Pending, Stored, At
  <1> QED
    BY <1>2, <1>3

Ready == NotesInv /\ SerialInv /\ Views /\ Views'

(* A step of a request that has its note.                                  *)
LEMMA OnNote ==
  ASSUME Ready, NEW r \in Reqs, NEW i \in NoteIds, req[r] # Idle, req[r].note = i,
         req' = [req EXCEPT ![r] = req'[r]], req'[r] # Idle => req'[r].note = i,
         \A j \in NoteIds \ {i} :
           notes'[j] = notes[j] /\ \A u \in Users : disk'[<<u, j>>] = disk[<<u, j>>],
         UNCHANGED <<minted, clean>>
  PROVE  /\ Pending(r)' = Promise!Nothing => OthersAsTheyWere(r, i)
         /\ AsOne(i)' = AsOne(i) \/ i \notin clean =>
              (Pending(r)' \in {Pending(r), Promise!Nothing} => Promise!Next)
         /\ i \in clean =>
              /\ InHand(r)
              /\ AsOne(i) = IF req[r].pc \in CreatePcs THEN Promise!Unborn ELSE View(i, RowAt(r))
              /\ AsOne(i)' = IF req'[r] = Idle THEN View(i, notes[i])'
                             ELSE IF req'[r].pc \in CreatePcs THEN Promise!Unborn
                             ELSE View(i, RowAt(r))'
  <1>1. r \in Busy(i) /\ i \in minted /\ Viewed(i) /\ Viewed(i)'
    BY Taken DEF Busy, Ready, Views
  <1>2. /\ \A j \in NoteIds \ {i} : AsOne(j)' = AsOne(j)
        /\ \A s \in Reqs \ {r} : Pending(s)' = Pending(s)
    BY Elsewhere DEF Ready
  <1>3. i \notin clean => AsOne(i)' = AsOne(i)
    BY <1>1 DEF Viewed
  <1>4. ASSUME AsOne(i)' = AsOne(i), Pending(r)' \in {Pending(r), Promise!Nothing}
        PROVE  Promise!Next
    BY <1>2, <1>4, GivesUp
  <1>5. ASSUME i \in clean
        PROVE  /\ InHand(r)
               /\ AsOne(i) = IF req[r].pc \in CreatePcs THEN Promise!Unborn
                                                        ELSE View(i, RowAt(r))
               /\ AsOne(i)' = IF req'[r] = Idle THEN View(i, notes[i])'
                              ELSE IF req'[r].pc \in CreatePcs THEN Promise!Unborn
                              ELSE View(i, RowAt(r))'
    <2>1. InHand(r) /\ Busy(i) = {r}
      BY <1>1, <1>5 DEF Ready, SerialInv, Serial
    <2>2. Busy(i)' = IF req'[r] = Idle THEN {} ELSE {r}
      <3>1. \A s \in Reqs \ {r} : req'[s] = req[s]
        BY DEF Ready, NotesInv, HandlersInv
      <3> QED
        BY <2>1, <3>1 DEF Busy
    <2>3. i \in clean' \cap minted'
      BY <1>1, <1>5
    <2> QED
      BY <1>1, <1>5, <2>1, <2>2, <2>3 DEF Viewed
  <1> QED
    BY <1>2, <1>3, <1>4, <1>5 DEF OthersAsTheyWere

LEMMA NothingWanted ==
  ASSUME NEW r
  PROVE  /\ req[r] = Idle \/ req[r].pc = "delete_body" \/ Stored(r)
              => Pending(r) = Promise!Nothing
         /\ req'[r] = Idle \/ req'[r].pc = "delete_body" \/ Stored(r)'
              => Pending(r)' = Promise!Nothing
  BY DEF Pending, Promise!Nothing

LEMMA Wanted ==
  ASSUME NEW r, req[r] # Idle, req[r].pc # "delete_body", ~Stored(r)
  PROVE  /\ Pending(r).op = IF req[r].pc \in CreatePcs THEN "create"
                            ELSE IF req[r].pc \in DeletePcs THEN "delete" ELSE "update"
         /\ Pending(r).note = IF req[r].pc \in CreatePcs THEN Null ELSE req[r].note
         /\ Pending(r).user = req[r].user /\ Pending(r).title = req[r].title
         /\ Pending(r).body = req[r].body /\ Pending(r).folder = req[r].folder
  BY DEF Pending

----------------------------------------------------------------------------
(* The arrivals.                                                           *)

LEMMA CreateAsked ==
  ASSUME Ready, NEW r \in Reqs, NEW u \in Users, NEW t \in Titles, NEW b \in Bodies,
         NEW f \in FolderArgs, Create(r, u, t, b, f)
  PROVE  Promise!Next
  <1>1. req[r] = Idle /\ UNCHANGED <<notes, minted, disk, clean>>
    BY DEF Create
  <1>2. /\ req' = [req EXCEPT ![r] = req'[r]]
        /\ req'[r] = [pc |-> IF f \in Folders THEN "create_folder" ELSE "create_row", user |-> u,
                      note |-> Null, title |-> t, body |-> b, folder |-> f, row |-> Null]
    BY DEF Create, Ready, NotesInv, HandlersInv
  <1>3. /\ \A j \in NoteIds \ {Null} : AsOne(j)' \in {AsOne(j), Promise!Lost}
        /\ \A s \in Reqs \ {r} : Pending(s)' = Pending(s)
    <2>1. req'[r].note = Null
      BY <1>2
    <2> QED
      BY <1>1, <1>2, <2>1, Elsewhere DEF Ready
  <1>4. Pending(r) = Promise!Nothing
    BY <1>1, NothingWanted
  <1>5. Pending(r)' \in Promise!Questions
    <2>1. /\ req'[r] # Idle /\ req'[r].pc \in {"create_folder", "create_row"}
          /\ req'[r].user = u /\ req'[r].title = t /\ req'[r].body = b /\ req'[r].folder = f
      BY <1>2 DEF Idle
    <2>2. Pending(r)' = [op |-> "create", note |-> Null, user |-> u, title |-> t, body |-> b,
                         folder |-> f]
      BY <2>1 DEF Pending, Stored, At, CreatePcs
    <2> QED
      BY <2>2 DEF Promise!Questions, FolderArgs
  <1>6. \A i \in NoteIds : AsOne(i)' \in {AsOne(i), Promise!Lost}
    BY <1>3, NullAssumption
  <1> QED
    BY <1>3, <1>4, <1>5, <1>6, Asks

(* A request for a note that is there: one that finds another at work on it*)
(* takes it out of account.                                                *)
LEMMA OnNoteAsked ==
  ASSUME Ready, NEW r \in Reqs, NEW i \in NoteIds \cap minted, req[r] = Idle,
         req'[r].pc \in {"update_read", "delete_row"}, req'[r].note = i, req'[r] \in Handlers,
         req' = [req EXCEPT ![r] = req'[r]], Arrives(i), UNCHANGED <<notes, minted, disk>>
  PROVE  Promise!Next
  <1>1. clean' \subseteq clean
    BY DEF Arrives
  <1>2. /\ \A j \in NoteIds \ {i} : AsOne(j)' \in {AsOne(j), Promise!Lost}
        /\ \A s \in Reqs \ {r} : Pending(s)' = Pending(s)
    BY <1>1, Elsewhere DEF Ready
  <1>3. Viewed(i) /\ Viewed(i)'
    BY DEF Ready, Views
  <1>4. AsOne(i)' \in {AsOne(i), Promise!Lost}
    <2>1. CASE i \notin clean'
      BY <1>3, <2>1 DEF Viewed
    <2>2. CASE i \in clean'
      <3>1. i \in clean /\ Busy(i) = {}
        BY <2>2 DEF Arrives
      <3>2. r \in Busy(i)' /\ req'[r].pc \notin CreatePcs /\ ~Stored(r)'
        BY DEF Busy, Idle, Handlers, CreatePcs, Stored, At
      <3>3. RowAt(r)' = notes[i]
        BY <3>2 DEF RowAt
      <3>4. View(i, notes[i])' = View(i, notes[i])
        BY DEF View
      <3> QED
        BY <1>3, <2>2, <3>1, <3>2, <3>3, <3>4 DEF Viewed
    <2> QED
      BY <2>1, <2>2
  <1>5. Pending(r) = Promise!Nothing
    BY NothingWanted
  <1>6. Pending(r)' \in Promise!Questions
    <2>1. req'[r] # Idle /\ req'[r].pc \notin CreatePcs
      BY DEF Idle, Handlers, CreatePcs
    <2>2. PICK op \in {"update", "delete"} :
            Pending(r)' = [op |-> op, note |-> i, user |-> req'[r].user, title |-> req'[r].title,
                           body |-> req'[r].body, folder |-> req'[r].folder]
      BY <2>1 DEF Pending, Stored, At
    <2>3. /\ req'[r].user \in Users /\ req'[r].title \in Titles \cup {Null}
          /\ req'[r].body \in Bodies \cup {Null} /\ req'[r].folder \in FolderArgs \cup {Null}
      BY DEF Handlers
    <2> QED
      BY <2>2, <2>3 DEF Promise!Questions, FolderArgs
  <1> QED
    BY <1>2, <1>4, <1>5, <1>6, Asks

LEMMA RequestKept ==
  ASSUME Ready, NEW r \in Reqs, Request(r)
  PROVE  Promise!Next
  <1>1. ASSUME NEW u \in Users, NEW i \in NoteIds \cap minted, NEW t \in Titles \cup {Null},
               NEW b \in Bodies \cup {Null}, NEW f \in FolderArgs, Update(r, u, i, t, b, f)
        PROVE  Promise!Next
    <2>1. /\ req' = [req EXCEPT ![r] = req'[r]]
          /\ req'[r] = [pc |-> "update_read", user |-> u, note |-> i, title |-> t, body |-> b,
                        folder |-> f, row |-> Null]
      BY <1>1 DEF Update, Ready, NotesInv, HandlersInv
    <2>2. req'[r] \in Handlers /\ req'[r].pc = "update_read" /\ req'[r].note = i
      BY <2>1 DEF Handlers, Pcs
    <2>3. req[r] = Idle /\ Arrives(i) /\ UNCHANGED <<notes, minted, disk>>
      BY <1>1 DEF Update
    <2> QED
      BY <2>1, <2>2, <2>3, OnNoteAsked
  <1>2. ASSUME NEW u \in Users, NEW i \in NoteIds \cap minted, Delete(r, u, i)
        PROVE  Promise!Next
    <2>1. /\ req' = [req EXCEPT ![r] = req'[r]]
          /\ req'[r] = [pc |-> "delete_row", user |-> u, note |-> i, title |-> Null,
                        body |-> Null, folder |-> Null, row |-> Null]
      BY <1>2 DEF Delete, Ready, NotesInv, HandlersInv
    <2>2. req'[r] \in Handlers /\ req'[r].pc = "delete_row" /\ req'[r].note = i
      BY <2>1 DEF Handlers, Pcs
    <2>3. req[r] = Idle /\ Arrives(i) /\ UNCHANGED <<notes, minted, disk>>
      BY <1>2 DEF Delete
    <2> QED
      BY <2>1, <2>2, <2>3, OnNoteAsked
  <1> QED
    BY <1>1, <1>2, CreateAsked DEF Request

----------------------------------------------------------------------------
(* The steps of a handler.                                                 *)

LEMMA CreateFolderCheckKept ==
  ASSUME Ready, NEW r \in Reqs, CreateFolderCheck(r)
  PROVE  Promise!Next
  <1>1. req[r] \in Handlers /\ req[r] # Idle /\ HandlerOK(r) /\ req[r].pc = "create_folder"
    BY AtWork DEF Ready, NotesInv, CreateFolderCheck, Pcs, At
  <1>2. req[r].note = Null /\ UNCHANGED <<notes, minted, disk, clean>>
    BY <1>1 DEF HandlerOK, CreateFolderCheck
  <1>3. /\ req' = [req EXCEPT ![r] = req'[r]]
        /\ req'[r] = Idle \/ req'[r] = [req[r] EXCEPT !.pc = "create_row"]
    BY DEF CreateFolderCheck, Respond, Goto, Ready, NotesInv, HandlersInv
  <1>4. req'[r] # Idle =>
          /\ req'[r].pc = "create_row" /\ req'[r].note = Null /\ req'[r].user = req[r].user
          /\ req'[r].title = req[r].title /\ req'[r].body = req[r].body
          /\ req'[r].folder = req[r].folder
    BY <1>1, <1>2, <1>3 DEF Handlers
  <1>5. /\ \A j \in NoteIds \ {Null} : AsOne(j)' \in {AsOne(j), Promise!Lost}
        /\ \A s \in Reqs \ {r} : Pending(s)' = Pending(s)
    BY <1>2, <1>3, <1>4, Elsewhere DEF Ready
  <1>6. Pending(r)' \in {Pending(r), Promise!Nothing}
    BY <1>1, <1>2, <1>4, NothingWanted DEF Pending, Stored, At, CreatePcs
  <1> QED
    BY <1>5, <1>6, NullAssumption, GivesUp

LEMMA CreateRowKept ==
  ASSUME Ready, NEW r \in Reqs, CreateRow(r)
  PROVE  Promise!Next
  <1>1. req[r] \in Handlers /\ req[r] # Idle /\ HandlerOK(r) /\ req[r].pc = "create_row"
    BY AtWork DEF Ready, NotesInv, CreateRow, Pcs, At
  <1>2. req[r].note = Null /\ UNCHANGED <<disk, clean>>
    BY <1>1 DEF HandlerOK, CreateRow
  <1>3. CASE Respond(r) /\ UNCHANGED <<notes, minted>>
    <2>1. req'[r] = Idle /\ req' = [req EXCEPT ![r] = req'[r]]
      BY <1>3, EndedAt DEF Ready
    <2>2. /\ \A j \in NoteIds \ {Null} : AsOne(j)' \in {AsOne(j), Promise!Lost}
          /\ \A s \in Reqs \ {r} : Pending(s)' = Pending(s)
      BY <1>2, <1>3, <2>1, Elsewhere DEF Ready
    <2>3. Pending(r)' = Promise!Nothing
      BY <2>1, NothingWanted
    <2> QED
      BY <2>2, <2>3, NullAssumption, GivesUp
  <1>4. ASSUME NEW i \in NoteIds \ minted, NEW row, notes' = [notes EXCEPT ![i] = row],
               minted' = minted \cup {i},
               req' = [req EXCEPT ![r].pc = "create_tmp", ![r].note = i]
        PROVE  Promise!Next
    <2>1. /\ req' = [req EXCEPT ![r] = req'[r]]
          /\ req'[r] = [req[r] EXCEPT !.pc = "create_tmp", !.note = i]
      BY <1>4 DEF Ready, NotesInv, HandlersInv
    <2>2. /\ req'[r].pc = "create_tmp" /\ req'[r].note = i /\ req'[r].user = req[r].user
          /\ req'[r].title = req[r].title /\ req'[r].body = req[r].body
          /\ req'[r].folder = req[r].folder /\ req'[r] # Idle
      BY <1>1, <2>1 DEF Handlers, Idle
    <2>3. \A j \in NoteIds \ {i} : notes'[j] = notes[j] /\ (j \in minted' <=> j \in minted)
      BY <1>4 DEF Ready, NotesInv, TablesInv
    <2>4. /\ \A j \in NoteIds \ {i} : AsOne(j)' \in {AsOne(j), Promise!Lost}
          /\ \A s \in Reqs \ {r} : Pending(s)' = Pending(s)
      <3>1. /\ req' = [req EXCEPT ![r] = req'[r]] /\ req[r].note = Null /\ req'[r].note = i
            /\ clean' \subseteq clean /\ Views /\ Views' /\ NotesInv
            /\ \A j \in NoteIds \ {i} : \A u \in Users : disk'[<<u, j>>] = disk[<<u, j>>]
        BY <1>2, <2>1, <2>2 DEF Ready
      <3> QED
        BY <2>3, <3>1, Elsewhere
    <2>5. AsOne(i)' = AsOne(i)
      <3>1. Viewed(i) /\ Viewed(i)' /\ r \in Busy(i)'
        BY <2>2 DEF Ready, Views, Busy
      <3> QED
        BY <1>2, <1>4, <2>2, <3>1 DEF Viewed, CreatePcs
    <2>6. Pending(r)' = Pending(r)
      BY <1>1, <1>2, <2>2 DEF Pending, Stored, At, CreatePcs
    <2> QED
      BY <2>4, <2>5, <2>6, GivesUp
  <1> QED
    BY <1>3, <1>4 DEF CreateRow

LEMMA WriteTmpKept ==
  ASSUME Ready, NEW r \in Reqs, WriteTmp(r)
  PROVE  Promise!Next
  <1>1. /\ req[r] \in Handlers /\ req[r] # Idle /\ HandlerOK(r)
        /\ req[r].pc \in {"create_tmp", "update_tmp"}
    BY AtWork DEF Ready, NotesInv, WriteTmp, Pcs, At
  <1>2. PICK i \in NoteIds : i = req[r].note
    BY <1>1 DEF HandlerOK, Own
  <1>3. PICK pc \in {"create_rename", "update_rename"} :
          /\ req' = [req EXCEPT ![r] = req'[r]] /\ req'[r] = [req[r] EXCEPT !.pc = pc]
          /\ req[r].pc = IF pc = "create_rename" THEN "create_tmp" ELSE "update_tmp"
    BY DEF WriteTmp, At, Goto, Ready, NotesInv, HandlersInv
  <1>4. /\ req'[r].pc = pc /\ req'[r].note = i /\ req'[r].user = req[r].user
        /\ req'[r].title = req[r].title /\ req'[r].body = req[r].body
        /\ req'[r].folder = req[r].folder /\ req'[r] # Idle
    BY <1>1, <1>2, <1>3 DEF Handlers, Idle
  <1>5. UNCHANGED <<notes, disk, minted, clean>>
    BY DEF WriteTmp
  <1>6. /\ AsOne(i)' = AsOne(i) \/ i \notin clean =>
             (Pending(r)' \in {Pending(r), Promise!Nothing} => Promise!Next)
        /\ i \in clean =>
             /\ AsOne(i) = IF req[r].pc \in CreatePcs THEN Promise!Unborn ELSE View(i, RowAt(r))
             /\ AsOne(i)' = IF req'[r].pc \in CreatePcs THEN Promise!Unborn
                                                        ELSE View(i, RowAt(r))'
    BY <1>1, <1>2, <1>3, <1>4, <1>5, OnNote
  <1>7. i \in clean => AsOne(i)' = AsOne(i)
    <2>1. RowAt(r)' = RowAt(r)
      BY <1>1, <1>2, <1>3, <1>4, <1>5 DEF RowAt, Stored, At
    <2>2. View(i, RowAt(r))' = View(i, RowAt(r))
      BY <1>5, <2>1 DEF View
    <2> QED
      BY <1>3, <1>4, <1>6, <2>2 DEF CreatePcs
  <1>8. Pending(r)' = Pending(r)
    BY <1>1, <1>2, <1>3, <1>4 DEF Pending, Stored, At, CreatePcs, DeletePcs
  <1> QED
    BY <1>6, <1>7, <1>8

(* An update or a deletion of a note that is not its user's ends without a *)
(* trace, and so does one that is refused.                                 *)
LEMMA Refused ==
  ASSUME Ready, NEW r \in Reqs, NEW i \in NoteIds, req[r] # Idle, req[r].note = i,
         req[r].pc \notin CreatePcs, i \in clean => ~Stored(r), Respond(r),
         UNCHANGED <<notes, minted, disk, clean>>
  PROVE  Promise!Next
  <1>1. req'[r] = Idle /\ req' = [req EXCEPT ![r] = req'[r]]
    BY EndedAt DEF Ready
  <1>2. /\ AsOne(i)' = AsOne(i) \/ i \notin clean =>
             (Pending(r)' \in {Pending(r), Promise!Nothing} => Promise!Next)
        /\ i \in clean => AsOne(i) = View(i, RowAt(r)) /\ AsOne(i)' = View(i, notes[i])'
    BY <1>1, OnNote
  <1>3. i \in clean => AsOne(i)' = AsOne(i)
    BY <1>2 DEF RowAt, View
  <1>4. Pending(r)' = Promise!Nothing
    BY <1>1, NothingWanted
  <1> QED
    BY <1>2, <1>3, <1>4

(* updateNote goes on to a step before its first write.                    *)
LEMMA GoesOn ==
  ASSUME Ready, NEW r \in Reqs, NEW i \in NoteIds, req[r] # Idle, req[r].note = i,
         req[r].pc \in {"update_read", "update_folder"}, req' = [req EXCEPT ![r] = req'[r]],
         req'[r].pc \in {"update_tmp", "update_row", "update_folder"},
         req'[r].pc = "update_row" => req[r].body = Null,
         req'[r].note = i, req'[r].user = req[r].user, req'[r].title = req[r].title,
         req'[r].body = req[r].body, req'[r].folder = req[r].folder,
         UNCHANGED <<notes, minted, disk, clean>>
  PROVE  Promise!Next
  <1>1. req[r].pc \notin CreatePcs /\ ~Stored(r)
    BY DEF CreatePcs, Stored, At
  <1>2. req'[r] # Idle /\ req'[r].pc \notin CreatePcs /\ ~Stored(r)'
    BY DEF Idle, CreatePcs, Stored, At
  <1>3. /\ AsOne(i)' = AsOne(i) \/ i \notin clean =>
             (Pending(r)' \in {Pending(r), Promise!Nothing} => Promise!Next)
        /\ i \in clean => AsOne(i) = View(i, RowAt(r)) /\ AsOne(i)' = View(i, RowAt(r))'
    BY <1>1, <1>2, OnNote
  <1>4. i \in clean => AsOne(i)' = AsOne(i)
    BY <1>1, <1>2, <1>3 DEF RowAt, View
  <1>5. Pending(r)' = Pending(r)
    BY <1>1, <1>2 DEF Pending, DeletePcs
  <1> QED
    BY <1>3, <1>4, <1>5

LEMMA UpdateReadKept ==
  ASSUME Ready, NEW r \in Reqs, UpdateRead(r)
  PROVE  Promise!Next
  <1>1. /\ req[r] \in Handlers /\ req[r] # Idle /\ HandlerOK(r) /\ req[r].pc = "update_read"
    BY AtWork DEF Ready, NotesInv, UpdateRead, Pcs, At
  <1>2. PICK i \in NoteIds : i = req[r].note
    BY <1>1 DEF HandlerOK
  <1>3. UNCHANGED <<notes, minted, disk, clean>>
    BY DEF UpdateRead
  <1>4. CASE Respond(r)
    <2>1. ~Stored(r) /\ req[r].pc \notin CreatePcs
      BY <1>1 DEF Stored, At, CreatePcs
    <2> QED
      BY <1>1, <1>2, <1>3, <1>4, <2>1, Refused
  <1>5. ASSUME NEW pc, NEW row,
               pc = IF KeepsFolder(req[r].folder) THEN AfterFolder(req[r]) ELSE "update_folder",
               req' = [req EXCEPT ![r].pc = pc, ![r].row = row]
        PROVE  Promise!Next
    <2>1. /\ req' = [req EXCEPT ![r] = req'[r]]
          /\ req'[r] = [req[r] EXCEPT !.pc = pc, !.row = row]
      BY <1>5 DEF Ready, NotesInv, HandlersInv
    <2>2. /\ req'[r].pc = pc /\ req'[r].note = i /\ req'[r].user = req[r].user
          /\ req'[r].title = req[r].title /\ req'[r].body = req[r].body
          /\ req'[r].folder = req[r].folder
      BY <1>1, <1>2, <2>1 DEF Handlers
    <2>3. pc \in {"update_tmp", "update_row", "update_folder"}
          /\ (pc = "update_row" => req[r].body = Null)
      BY <1>5 DEF AfterFolder
    <2> QED
      BY <1>1, <1>2, <1>3, <2>1, <2>2, <2>3, GoesOn
  <1> QED
    BY <1>4, <1>5 DEF UpdateRead

LEMMA UpdateFolderCheckKept ==
  ASSUME Ready, NEW r \in Reqs, UpdateFolderCheck(r)
  PROVE  Promise!Next
  <1>1. /\ req[r] \in Handlers /\ req[r] # Idle /\ HandlerOK(r) /\ req[r].pc = "update_folder"
    BY AtWork DEF Ready, NotesInv, UpdateFolderCheck, Pcs, At
  <1>2. PICK i \in NoteIds : i = req[r].note
    BY <1>1 DEF HandlerOK, Own
  <1>3. UNCHANGED <<notes, minted, disk, clean>>
    BY DEF UpdateFolderCheck
  <1>4. CASE Respond(r)
    <2>1. ~Stored(r) /\ req[r].pc \notin CreatePcs
      BY <1>1 DEF Stored, At, CreatePcs
    <2> QED
      BY <1>1, <1>2, <1>3, <1>4, <2>1, Refused
  <1>5. ASSUME NEW pc, pc = AfterFolder(req[r]), Goto(r, pc)
        PROVE  Promise!Next
    <2>1. req' = [req EXCEPT ![r] = req'[r]] /\ req'[r] = [req[r] EXCEPT !.pc = pc]
      BY <1>5 DEF Goto, Ready, NotesInv, HandlersInv
    <2>2. /\ req'[r].pc = pc /\ req'[r].note = i /\ req'[r].user = req[r].user
          /\ req'[r].title = req[r].title /\ req'[r].body = req[r].body
          /\ req'[r].folder = req[r].folder
      BY <1>1, <1>2, <2>1 DEF Handlers
    <2>3. pc \in {"update_tmp", "update_row"} /\ (pc = "update_row" => req[r].body = Null)
      BY <1>5 DEF AfterFolder
    <2> QED
      BY <1>1, <1>2, <1>3, <2>1, <2>2, <2>3, GoesOn
  <1> QED
    BY <1>4, <1>5 DEF UpdateFolderCheck

LEMMA DeleteBodyKept ==
  ASSUME Ready, NEW r \in Reqs, DeleteBody(r)
  PROVE  Promise!Next
  <1>1. /\ req[r] \in Handlers /\ req[r] # Idle /\ HandlerOK(r) /\ req[r].pc = "delete_body"
    BY AtWork DEF Ready, NotesInv, DeleteBody, Pcs, At
  <1>2. PICK i \in NoteIds : i = req[r].note /\ notes[i] = Null
    BY <1>1 DEF HandlerOK, Own
  <1>3. /\ UNCHANGED <<notes, minted, clean>> /\ Respond(r)
        /\ disk' = [disk EXCEPT ![<<req[r].user, i>>] = Null]
    BY <1>2 DEF DeleteBody
  <1>4. req'[r] = Idle /\ req' = [req EXCEPT ![r] = req'[r]]
    BY <1>3, EndedAt DEF Ready
  <1>5. \A j \in NoteIds \ {i}, u \in Users : disk'[<<u, j>>] = disk[<<u, j>>]
    BY <1>3 DEF Ready, NotesInv, BodiesInv, Keys
  <1>6. /\ AsOne(i)' = AsOne(i) \/ i \notin clean =>
             (Pending(r)' \in {Pending(r), Promise!Nothing} => Promise!Next)
        /\ i \in clean => AsOne(i) = View(i, RowAt(r)) /\ AsOne(i)' = View(i, notes[i])'
    <2>1. req[r].pc \notin CreatePcs
      BY <1>1 DEF CreatePcs
    <2> QED
      BY <1>1, <1>2, <1>3, <1>4, <1>5, <2>1, OnNote
  <1>7. i \in clean => AsOne(i)' = AsOne(i)
    BY <1>2, <1>3, <1>6 DEF View
  <1>8. Pending(r)' = Promise!Nothing
    BY <1>4, NothingWanted
  <1> QED
    BY <1>6, <1>7, <1>8

(* A note of a user, as the Vault has it.                                  *)
LEMMA ViewOf ==
  ASSUME NEW i, NEW row
  PROVE  /\ notes[i] # Null => View(i, row) = Promise!Note(row, disk[<<notes[i].user, i>>])
         /\ notes'[i] # Null => View(i, row)' = Promise!Note(row, disk'[<<notes'[i].user, i>>])
         /\ notes'[i] = Null => View(i, row)' = Promise!Deleted
  BY DEF View

LEMMA DeleteRowKept ==
  ASSUME Ready, NEW r \in Reqs, DeleteRow(r)
  PROVE  Promise!Next
  <1>1. /\ req[r] \in Handlers /\ req[r] # Idle /\ HandlerOK(r) /\ req[r].pc = "delete_row"
    BY AtWork DEF Ready, NotesInv, DeleteRow, Pcs, At
  <1>2. PICK i \in NoteIds : i = req[r].note
    BY <1>1 DEF HandlerOK
  <1>3. UNCHANGED <<minted, disk, clean>> /\ ~Stored(r) /\ req[r].pc \notin CreatePcs
    BY <1>1 DEF DeleteRow, Stored, At, CreatePcs
  <1>4. CASE Respond(r) /\ UNCHANGED notes
    BY <1>1, <1>2, <1>3, <1>4, Refused
  <1>5. CASE /\ OwnsNote(req[r].user, i) /\ notes' = [notes EXCEPT ![i] = Null]
             /\ Goto(r, "delete_body")
    <2>1. req' = [req EXCEPT ![r] = req'[r]] /\ req'[r] = [req[r] EXCEPT !.pc = "delete_body"]
      BY <1>5 DEF Goto, Ready, NotesInv, HandlersInv
    <2>2. /\ req'[r].pc = "delete_body" /\ req'[r].note = i /\ req'[r] # Idle
          /\ req'[r].pc \notin CreatePcs
      BY <1>1, <1>2, <2>1 DEF Handlers, Idle, CreatePcs
    <2>3. notes'[i] = Null /\ \A j \in NoteIds \ {i} : notes'[j] = notes[j]
      BY <1>5 DEF Ready, NotesInv, TablesInv
    <2>4. Pending(r)' = Promise!Nothing
      BY <2>2, NothingWanted
    <2>5. /\ OthersAsTheyWere(r, i) /\ (i \notin clean => Promise!Next)
          /\ i \in clean => AsOne(i) = View(i, RowAt(r)) /\ AsOne(i)' = View(i, RowAt(r))'
      BY <1>1, <1>2, <1>3, <2>1, <2>2, <2>3, <2>4, OnNote
    <2>6. CASE i \in clean
      <3>1. /\ AsOne(i) = Promise!Note(notes[i], disk[<<notes[i].user, i>>])
            /\ notes[i].user = req[r].user
        BY <1>2, <1>3, <1>5, <2>5, <2>6, ViewOf DEF RowAt, OwnsNote
      <3>2. AsOne(i).state = "note" /\ AsOne(i).row.user = req[r].user
        BY <3>1 DEF Promise!Note
      <3>3. AsOne(i)' = Promise!Deleted
        BY <2>3, <2>5, <2>6, ViewOf
      <3>4. Pending(r).op = "delete" /\ Pending(r).note = i /\ Pending(r).user = req[r].user
        BY <1>1, <1>2, <1>3, Wanted DEF DeletePcs
      <3> QED
        BY <2>5, <3>2, <3>3, <3>4, TakesEffect
    <2> QED
      BY <2>5, <2>6
  <1> QED
    BY <1>2, <1>4, <1>5 DEF DeleteRow

LEMMA RetitledIs ==
  ASSUME NEW n \in Rows, NEW t
  PROVE  Retitled(n, t) = [user |-> n.user, folder |-> n.folder,
                           title |-> IF t = Null THEN n.title ELSE t, size |-> n.size]
  BY DEF Retitled, Rows

LEMMA NewRowIs ==
  ASSUME NEW h, NEW u, NEW f, NEW t, NEW s,
         h.row = [user |-> u, folder |-> f, title |-> t, size |-> s]
  PROVE  NewRow(h) = [user |-> u, folder |-> Promise!Filed(h.folder, f), title |-> t, size |-> s]
  BY WordsAssumption DEF NewRow, KeepsFolder, FolderOf, Promise!Filed

LEMMA UpdateRowKept ==
  ASSUME Ready, NEW r \in Reqs, UpdateRow(r)
  PROVE  Promise!Next
  <1>1. /\ req[r] \in Handlers /\ req[r] # Idle /\ HandlerOK(r) /\ At(r, "update_row")
        /\ req[r].pc = "update_row"
    BY AtWork DEF Ready, NotesInv, UpdateRow, Pcs, At
  <1>2. PICK i \in NoteIds, u \in Users : i = req[r].note /\ u = req[r].user
    BY <1>1 DEF HandlerOK, Own, Handlers
  <1>3. UNCHANGED <<minted, disk, clean>> /\ Respond(r) /\ req[r].pc \notin CreatePcs
    BY <1>1 DEF UpdateRow, CreatePcs
  <1>4. req'[r] = Idle /\ req' = [req EXCEPT ![r] = req'[r]]
    BY <1>3, EndedAt DEF Ready
  <1>5. notes' = IF UpdateSucceeds(req[r]) THEN [notes EXCEPT ![i] = NewRow(req[r])] ELSE notes
    BY <1>2 DEF UpdateRow
  <1>6. \A j \in NoteIds \ {i} : notes'[j] = notes[j]
    BY <1>5 DEF Ready, NotesInv, TablesInv
  <1>7. Pending(r)' = Promise!Nothing
    BY <1>4, NothingWanted
  <1>8. /\ OthersAsTheyWere(r, i) /\ (AsOne(i)' = AsOne(i) \/ i \notin clean => Promise!Next)
        /\ i \in clean =>
             InHand(r) /\ AsOne(i) = View(i, RowAt(r)) /\ AsOne(i)' = View(i, notes[i])'
    BY <1>1, <1>2, <1>3, <1>4, <1>6, <1>7, OnNote
  <1>9. CASE i \in clean
    <2> DEFINE row == NewRow(req[r])
    <2>1. req[r].row \in Rows /\ req[r].row.user = u /\ (notes[i] # Null => notes[i].user = u)
      BY <1>1, <1>2 DEF HandlerOK, Own
    <2>2. notes[i] # Null /\ notes[i] \in Rows /\ notes[i].user = u
          /\ (req[r].body = Null => req[r].row = Retitled(notes[i], req[r].title))
      BY <1>1, <1>2, <1>8, <1>9, <2>1 DEF InHand, RowRead, Ready, NotesInv, TablesInv
    <2>3. row \in Rows /\ row.user = u /\ row # Null
      BY <2>1, NullAssumption DEF NewRow, Rows, FolderOf
    <2>4. UpdateSucceeds(req[r])
      BY <1>1, <1>8, <1>9, StoreSucceeds DEF Ready
    <2>5. notes'[i] = row
      BY <1>5, <2>4 DEF Ready, NotesInv, TablesInv
    <2> HIDE DEF row
    <2>6. AsOne(i)' = Promise!Note(row, disk[<<u, i>>])
      BY <1>3, <1>8, <1>9, <2>3, <2>5, ViewOf
    <2>7. AsOne(i) = Promise!Note(RowAt(r), disk[<<u, i>>])
      BY <1>8, <1>9, <2>2, ViewOf
    <2>8. CASE Stored(r)
      BY <1>8, <2>6, <2>7, <2>8 DEF RowAt, row
    <2>9. CASE ~Stored(r)
      <3>1. AsOne(i) = Promise!Note(notes[i], disk[<<u, i>>])
        BY <1>2, <2>7, <2>9 DEF RowAt
      <3>2. AsOne(i).state = "note" /\ AsOne(i).row = notes[i] /\ AsOne(i).body = disk[<<u, i>>]
        BY <3>1 DEF Promise!Note
      <3>3. /\ Pending(r).op = "update" /\ Pending(r).note = i /\ Pending(r).user = u
            /\ Pending(r).title = req[r].title /\ Pending(r).body = req[r].body
            /\ Pending(r).folder = req[r].folder
        BY <1>1, <1>2, <1>3, <2>9, Wanted DEF DeletePcs
      <3>4. req[r].body = Null
        BY <1>1, <2>9 DEF Stored
      <3>5. row = [user |-> notes[i].user,
                   folder |-> Promise!Filed(req[r].folder, notes[i].folder),
                   title |-> IF req[r].title = Null THEN notes[i].title ELSE req[r].title,
                   size |-> notes[i].size]
        BY <2>2, <3>4, RetitledIs, NewRowIs DEF row
      <3>6. AsOne(i)' = Promise!Updated(AsOne(i), Pending(r))
        BY <2>6, <3>2, <3>3, <3>4, <3>5 DEF Promise!Updated
      <3> QED
        BY <1>8, <2>2, <3>2, <3>3, <3>6, TakesEffect
    <2> QED
      BY <2>8, <2>9
  <1> QED
    BY <1>8, <1>9

LEMMA RenameKept ==
  ASSUME Ready, NEW r \in Reqs, Rename(r)
  PROVE  Promise!Next
  <1>1. /\ req[r] \in Handlers /\ req[r] # Idle /\ HandlerOK(r) /\ ~Stored(r)
        /\ req[r].pc \in {"create_rename", "update_rename"}
    BY AtWork DEF Ready, NotesInv, Rename, Pcs, At, Stored
  <1>2. PICK i \in NoteIds, u \in Users : i = req[r].note /\ u = req[r].user
    BY <1>1 DEF HandlerOK, Own, Handlers
  <1>3. UNCHANGED <<notes, minted, clean>>
    BY DEF Rename
  <1>4. req[r].body \in Bodies /\ req[r].body # Null
    BY <1>1, NullAssumption DEF HandlerOK
  <1>5. CASE r \notin tmps
    <2>1. Respond(r) /\ UNCHANGED disk
      BY <1>5 DEF Rename
    <2>2. req'[r] = Idle /\ req' = [req EXCEPT ![r] = req'[r]]
      BY <2>1, EndedAt DEF Ready
    <2>3. Pending(r)' = Promise!Nothing
      BY <2>2, NothingWanted
    <2>4. /\ i \notin clean => Promise!Next
          /\ i \in clean => InHand(r)
      BY <1>1, <1>2, <1>3, <2>1, <2>2, <2>3, OnNote
    <2>5. i \notin clean
      BY <1>1, <1>5, <2>4 DEF InHand
    <2> QED
      BY <2>4, <2>5
  <1>6. CASE r \in tmps
    <2>1. disk' = [disk EXCEPT ![<<u, i>>] = req[r].body]
      BY <1>2, <1>6 DEF Rename
    <2>2. /\ disk'[<<u, i>>] = req[r].body
          /\ \A j \in NoteIds \ {i}, v \in Users : disk'[<<v, j>>] = disk[<<v, j>>]
      BY <2>1 DEF Ready, NotesInv, BodiesInv, Keys
    <2>3. CASE req[r].pc = "create_rename"
      <3>1. req'[r] = Idle /\ req' = [req EXCEPT ![r] = req'[r]]
        BY <1>6, <2>3, EndedAt DEF Rename, Ready
      <3>2. Pending(r)' = Promise!Nothing
        BY <3>1, NothingWanted
      <3>3. req[r].pc \in CreatePcs
        BY <2>3 DEF CreatePcs
      <3>4. /\ OthersAsTheyWere(r, i) /\ (i \notin clean => Promise!Next)
            /\ i \in clean => /\ InHand(r) /\ AsOne(i) = Promise!Unborn
                              /\ AsOne(i)' = View(i, notes[i])'
        BY <1>1, <1>2, <1>3, <2>2, <3>1, <3>2, <3>3, OnNote
      <3>5. CASE i \in clean
        <4>1. notes[i] # Null /\ notes[i] = RowMade(req[r]) /\ notes[i].user = u
          BY <1>2, <2>3, <3>4, <3>5 DEF InHand, RowMade
        <4>2. AsOne(i)' = Promise!Note(notes[i], req[r].body)
          BY <1>3, <2>2, <3>4, <3>5, <4>1, ViewOf
        <4>3. /\ Pending(r).op = "create" /\ Pending(r).user = req[r].user
              /\ Pending(r).title = req[r].title /\ Pending(r).body = req[r].body
              /\ Pending(r).folder = req[r].folder
          BY <1>1, <2>3, <3>3, Wanted
        <4>4. Promise!Filed(req[r].folder, Null) = FolderOf(req[r].folder)
          BY DEF Promise!Filed, FolderOf
        <4>5. AsOne(i)' = Promise!Created(Pending(r))
          BY <4>1, <4>2, <4>3, <4>4 DEF RowMade, Promise!Created
        <4> QED
          BY <3>4, <3>5, <4>3, <4>5, TakesEffect
      <3> QED
        BY <3>4, <3>5
    <2>4. CASE req[r].pc = "update_rename"
      <3>1. req' = [req EXCEPT ![r].pc = "update_row", ![r].row = Sized(req[r].row, req[r].body)]
        BY <1>6, <2>4 DEF Rename
      <3>2. /\ req' = [req EXCEPT ![r] = req'[r]]
            /\ req'[r] = [req[r] EXCEPT !.pc = "update_row",
                                        !.row = Sized(req[r].row, req[r].body)]
        BY <3>1 DEF Ready, NotesInv, HandlersInv
      <3>3. /\ req'[r].pc = "update_row" /\ req'[r].note = i /\ req'[r].body = req[r].body
            /\ req'[r].folder = req[r].folder /\ req'[r].row = Sized(req[r].row, req[r].body)
        BY <1>1, <1>2, <3>2 DEF Handlers
      <3>4. /\ req'[r] # Idle /\ Stored(r)' /\ req'[r].pc \notin CreatePcs
            /\ req[r].pc \notin CreatePcs
        BY <1>4, <2>4, <3>3 DEF Idle, Stored, At, CreatePcs
      <3>5. Pending(r)' = Promise!Nothing
        BY <3>4, NothingWanted
      <3>6. /\ OthersAsTheyWere(r, i) /\ (i \notin clean => Promise!Next)
            /\ i \in clean => /\ InHand(r) /\ AsOne(i) = View(i, RowAt(r))
                              /\ AsOne(i)' = View(i, RowAt(r))'
        BY <1>1, <1>2, <1>3, <2>2, <3>2, <3>3, <3>4, <3>5, OnNote
      <3>7. CASE i \in clean
        <4>1. notes[i] # Null /\ notes[i] \in Rows /\ notes[i].user = u
              /\ req[r].row = Retitled(notes[i], req[r].title)
          BY <1>1, <1>2, <2>4, <3>6, <3>7
             DEF InHand, RowRead, HandlerOK, Own, Ready, NotesInv, TablesInv
        <4>2. AsOne(i) = Promise!Note(notes[i], disk[<<u, i>>])
          BY <1>1, <1>2, <3>6, <3>7, <4>1, ViewOf DEF RowAt
        <4>3. AsOne(i)' = Promise!Note(NewRow(req'[r]), req[r].body)
          BY <1>3, <2>2, <3>4, <3>6, <3>7, <4>1, ViewOf DEF RowAt
        <4>4. /\ Pending(r).op = "update" /\ Pending(r).note = i /\ Pending(r).user = u
              /\ Pending(r).title = req[r].title /\ Pending(r).body = req[r].body
              /\ Pending(r).folder = req[r].folder
          BY <1>1, <1>2, <2>4, <3>4, Wanted DEF DeletePcs
        <4>5. req'[r].row =
                [user |-> notes[i].user, folder |-> notes[i].folder,
                 title |-> IF req[r].title = Null THEN notes[i].title ELSE req[r].title,
                 size |-> BodyLen[req[r].body]]
          BY <3>3, <4>1, RetitledIs DEF Sized
        <4>6. NewRow(req'[r]) =
                [user |-> notes[i].user,
                 folder |-> Promise!Filed(req[r].folder, notes[i].folder),
                 title |-> IF req[r].title = Null THEN notes[i].title ELSE req[r].title,
                 size |-> BodyLen[req[r].body]]
          BY <3>3, <4>5, NewRowIs
        <4>7. /\ AsOne(i).state = "note" /\ AsOne(i).row = notes[i]
          BY <4>2 DEF Promise!Note
        <4>8. AsOne(i)' = Promise!Updated(AsOne(i), Pending(r))
          BY <1>4, <4>3, <4>4, <4>6, <4>7 DEF Promise!Updated
        <4> QED
          BY <3>6, <4>1, <4>4, <4>7, <4>8, TakesEffect
      <3> QED
        BY <3>6, <3>7
    <2> QED
      BY <1>1, <2>3, <2>4
  <1> QED
    BY <1>5, <1>6

LEMMA HandleKept ==
  ASSUME Ready, NEW r \in Reqs, Handle(r)
  PROVE  Promise!Next
  BY CreateFolderCheckKept, CreateRowKept, WriteTmpKept, RenameKept, UpdateReadKept,
     UpdateFolderCheckKept, UpdateRowKept, DeleteRowKept, DeleteBodyKept DEF Handle

----------------------------------------------------------------------------
(* The folders, the sweep and the faults.                                  *)

(* A step that at most takes notes out of account and ends requests.       *)
LEMMA NoneTheWorse ==
  ASSUME Ready, clean' \subseteq clean, minted' \cap NoteIds = minted \cap NoteIds,
         \A i \in clean' : /\ Busy(i)' = Busy(i) /\ \A r \in Busy(i) : req'[r] = req[r]
                           /\ notes'[i] = notes[i]
                           /\ \A u \in Users : disk'[<<u, i>>] = disk[<<u, i>>],
         \A r \in Reqs : req'[r] \in {req[r], Idle}
  PROVE  Promise!Next
  <1>1. \A i \in NoteIds : AsOne(i)' \in {AsOne(i), Promise!Lost}
    BY SameNote DEF Ready
  <1>2. ASSUME NEW r \in Reqs
        PROVE  Pending(r)' \in {Pending(r), Promise!Nothing}
    <2>1. CASE req'[r] = Idle
      BY <2>1, NothingWanted
    <2>2. CASE req'[r] = req[r]
      BY <2>2 DEF Pending, Stored, At
    <2> QED
      BY <2>1, <2>2
  <1> QED
    BY <1>1, <1>2, GivesUp

LEMMA CreateFolderKept ==
  ASSUME Ready, NEW u \in Users, NEW f \in Folders, CreateFolder(u, f)
  PROVE  Promise!Next
  <1>1. minted' \cap NoteIds = minted \cap NoteIds
    BY IdsAssumption DEF CreateFolder
  <1>2. UNCHANGED <<notes, disk, req, clean>>
    BY DEF CreateFolder
  <1>3. \A i : Busy(i)' = Busy(i)
    BY <1>2 DEF Busy
  <1> QED
    BY <1>1, <1>2, <1>3, NoneTheWorse

(* The notes of a folder that is deleted, and no others, are in none.      *)
LEMMA DeleteFolderKept ==
  ASSUME Ready, NEW u \in Users, NEW f \in Folders, DeleteFolder(u, f)
  PROVE  Promise!Next
  <1> DEFINE row(j) == IF notes[j] # Null /\ notes[j].folder = f
                       THEN [notes[j] EXCEPT !.folder = Null] ELSE notes[j]
  <1>1. UNCHANGED <<minted, disk, req>> /\ clean' = {i \in clean : Busy(i) = {}}
        /\ \A i \in NoteIds : notes'[i] = row(i)
    BY DEF DeleteFolder
  <1>2. ASSUME NEW i \in NoteIds
        PROVE  AsOne(i)' \in {Promise!Unfiled(AsOne(i), f), Promise!Lost}
    <2>1. Viewed(i) /\ Viewed(i)'
      BY DEF Ready, Views
    <2>2. CASE i \notin clean'
      BY <2>1, <2>2 DEF Viewed
    <2>3. CASE i \in clean'
      <3>1. i \in clean /\ Busy(i) = {} /\ Busy(i)' = {}
        BY <1>1, <2>3 DEF Busy
      <3>2. CASE i \notin minted
        <4>1. AsOne(i) = Promise!Unborn /\ AsOne(i)' = Promise!Unborn
          BY <1>1, <2>1, <2>3, <3>1, <3>2 DEF Viewed
        <4> QED
          BY <4>1 DEF Promise!Unfiled, Promise!Unborn
      <3>3. CASE i \in minted
        <4>1. AsOne(i) = View(i, notes[i]) /\ AsOne(i)' = View(i, notes[i])'
          BY <1>1, <2>1, <2>3, <3>1, <3>3 DEF Viewed
        <4>2. CASE notes[i] = Null
          <5>1. notes'[i] = Null
            BY <1>1, <4>2
          <5>2. AsOne(i) = Promise!Deleted /\ AsOne(i)' = Promise!Deleted
            BY <4>1, <4>2, <5>1 DEF View
          <5> QED
            BY <5>2 DEF Promise!Unfiled, Promise!Deleted
        <4>3. CASE notes[i] # Null
          <5> DEFINE b == disk[<<notes[i].user, i>>]
          <5>1. notes[i] \in Rows
            BY <4>3 DEF Ready, NotesInv, TablesInv
          <5>2. notes'[i] \in Rows /\ notes'[i].user = notes[i].user /\ notes'[i] # Null
            BY <1>1, <5>1, NullAssumption DEF Rows
          <5>3. /\ AsOne(i) = Promise!Note(notes[i], b)
                /\ AsOne(i)' = Promise!Note(row(i), b)
            BY <1>1, <4>1, <4>3, <5>2, ViewOf
          <5>4. Promise!Unfiled(Promise!Note(notes[i], b), f) = Promise!Note(row(i), b)
            <6> HIDE DEF b
            <6> QED
              BY <4>3 DEF Promise!Unfiled, Promise!Note
          <5> QED
            BY <5>3, <5>4
        <4> QED
          BY <4>2, <4>3
      <3> QED
        BY <3>2, <3>3
    <2> QED
      BY <2>2, <2>3
  <1>3. \A r \in Reqs : Pending(r)' = Pending(r)
    BY <1>1 DEF Pending, Stored, At
  <1>4. Promise!Unfile(f)
    BY <1>2, <1>3 DEF Promise!Unfile, Promise!Becomes
  <1> QED
    BY <1>4 DEF Promise!Next

LEMMA SweepKept ==
  ASSUME Ready, Sweep
  PROVE  Promise!Next
  <1>1. CASE UNCHANGED <<notes, minted, disk, req, clean>>
    <2>1. \A i : Busy(i)' = Busy(i)
      BY <1>1 DEF Busy
    <2> QED
      BY <1>1, <2>1, NoneTheWorse
  <1>2. ASSUME NEW e, SweepVisit(e)
        PROVE  Promise!Next
    <2>1. /\ UNCHANGED <<notes, minted, req>> /\ clean' \subseteq clean
          /\ \A i \in clean' : \A u \in Users : e = <<u, i>> => e \in sweep.keep
      BY <1>2 DEF SweepVisit
    <2>2. \A i : Busy(i)' = Busy(i)
      BY <2>1 DEF Busy
    <2>3. \A i \in clean', u \in Users : disk'[<<u, i>>] = disk[<<u, i>>]
      <3>1. disk' = [k \in Keys |-> IF k = e /\ k \notin sweep.keep THEN Null ELSE disk[k]]
        BY <1>2 DEF SweepVisit
      <3>2. \A i \in clean', u \in Users : <<u, i>> \in Keys
        BY <2>1 DEF Ready, NotesInv, RestInv, Keys
      <3> QED
        BY <2>1, <3>1, <3>2
    <2> QED
      BY <2>1, <2>2, <2>3, NoneTheWorse
  <1> QED
    BY <1>1, <1>2 DEF Sweep, KeepSets, SweepList, SweepDone

LEMMA FailKept ==
  ASSUME Ready, NEW r \in Reqs, Fail(r)
  PROVE  Promise!Next
  <1>1. /\ UNCHANGED <<notes, minted, disk>> /\ clean' = clean \ {req[r].note} /\ Respond(r)
    BY DEF Fail
  <1>2. req'[r] = Idle /\ \A s \in Reqs \ {r} : req'[s] = req[s]
    BY <1>1 DEF Respond, Ready, NotesInv, HandlersInv
  <1>3. \A i \in clean' : Busy(i)' = Busy(i) /\ r \notin Busy(i)
    BY <1>1, <1>2 DEF Busy
  <1>4. \A i \in clean' : \A s \in Busy(i) : req'[s] = req[s]
    BY <1>2, <1>3 DEF Busy
  <1> QED
    BY <1>1, <1>2, <1>3, <1>4, NoneTheWorse

LEMMA CrashKept ==
  ASSUME Ready, Crash
  PROVE  Promise!Next
  <1>1. /\ UNCHANGED <<notes, minted, disk>> /\ clean' = {i \in clean : Busy(i) = {}}
        /\ \A r \in Reqs : req'[r] = Idle
    BY DEF Crash
  <1>2. \A i \in clean' : Busy(i) = {} /\ Busy(i)' = {}
    BY <1>1 DEF Busy
  <1> QED
    BY <1>1, <1>2, NoneTheWorse

LEMMA VaultStep ==
  ASSUME Ready, [Next]_vars
  PROVE  Promise!Next
  <1>1. CASE UNCHANGED vars \/ SweepSkipped
    <2>1. UNCHANGED <<notes, minted, disk, req, clean>>
      BY <1>1 DEF vars, SweepSkipped
    <2>2. \A i : Busy(i)' = Busy(i)
      BY <2>1 DEF Busy
    <2> QED
      BY <2>1, <2>2, NoneTheWorse
  <1>2. CASE Next /\ ~SweepSkipped
    BY <1>2, RequestKept, HandleKept, FailKept, CreateFolderKept, DeleteFolderKept, SweepKept,
       CrashKept DEF Next
  <1> QED
    BY <1>1, <1>2

LEMMA VaultInit ==
  ASSUME Init
  PROVE  Promise!Init
  <1>1. \A i \in NoteIds : AsOne(i) = Promise!Unborn
    BY DEF Init, AsOne, Promise!Unborn
  <1>2. \A r \in Reqs : Pending(r) = Promise!Nothing
    BY NothingWanted DEF Init
  <1> QED
    BY <1>1, <1>2 DEF Promise!Init

(* The handlers, which read a row, write a body and write the row in steps *)
(* of their own, implement the Vault, where a note changes as one, as long *)
(* as the requests for it do not overlap and do not fail.                  *)
THEOREM VaultImplemented == Spec => ImplementsVault
  <1>1. Init => Promise!Init
    BY VaultInit
  <1>2. NotesInv /\ SerialInv => Views
    BY InView
  <1>3. NotesInv /\ SerialInv /\ Views /\ Views' /\ [Next]_vars => [Promise!Next]_(Promise!vars)
    BY VaultStep DEF Ready
  <1> QED
    BY <1>1, <1>2, <1>3, Invariance, SerialInvariance, PTL DEF Spec, ImplementsVault, Promise!Spec
=============================================================================
