------------------------------- MODULE Notes -------------------------------
(***************************************************************************)
(* Notes of the Carseph server: metadata rows in SQLite, bodies as files.  *)
(*                                                                         *)
(* net/http runs every request in its own goroutine and nothing locks a    *)
(* note, so a handler is a sequence of steps and steps of different        *)
(* requests interleave.  SQLite has a single connection, hence one         *)
(* statement or transaction is one step; a blob write is two (temp file,   *)
(* rename).  The startup sweep runs as a goroutine beside the server.      *)
(*                                                                         *)
(* A title is opaque, a body is known by its length only, and tags are     *)
(* left to a module of their own: setTagsTx runs inside the row's          *)
(* transaction, so all it can do here is make that transaction fail (Fail).*)
(***************************************************************************)
EXTENDS Naturals, FiniteSets

CONSTANTS Users, NoteIds, Folders, Titles, Bodies, Reqs,
          Words,       \* forms of folder_id clients send besides a folder's identifier
          BodyLen,     \* length in bytes of each body
          Null,        \* SQL NULL, a missing row, a missing file, a field not sent
          MaxFaults    \* bound on crashes and failing steps, for model checking

FolderArgs == Folders \cup Words

Rows == [user : Users, folder : Folders \cup {Null}, title : Titles, size : Nat]

ASSUME NullAssumption ==
    Null \notin Users \cup NoteIds \cup Folders \cup Titles \cup Bodies \cup Rows
ASSUME WordsAssumption ==
    Words \subseteq {"absent", "null", "empty"} /\ Folders \cap {"absent", "null", "empty"} = {}
ASSUME BodyLenAssumption == BodyLen \in [Bodies -> Nat]
ASSUME IdsAssumption == NoteIds \cap Folders = {}
ASSUME FaultsAssumption == MaxFaults \in Nat

Pcs == {"create_folder", "create_row", "create_tmp", "create_rename",
        "update_read", "update_folder", "update_tmp", "update_rename", "update_row",
        "delete_row", "delete_body"}

(* What a handler holds in its local variables; row is updateNote's n.     *)
Handlers == [pc : Pcs, user : Users, note : NoteIds \cup {Null},
             title : Titles \cup {Null}, body : Bodies \cup {Null},
             folder : FolderArgs \cup {Null}, row : Rows \cup {Null}]

Idle == [pc |-> "idle"]

VARIABLES
    notes,      \* table notes: identifier -> row, or Null
    folders,    \* table folders: identifier -> owner, or Null
    minted,     \* identifiers newID has handed out (random, never repeated)
    disk,       \* notes/{user}/{id}.md: <<user, id>> -> body, or Null
    tmps,       \* requests whose temp file is on disk
    litter,     \* temp files left behind: <<user, number of the fault that left it>>
    req,        \* request -> state of its handler
    sweep,      \* startup sweep: phase, keep set, directories and files left to visit
    atBoot,     \* history: notes whose row existed when this process started
    clean,      \* history: notes no fault, no sweep and no overlap of requests touched
    faults      \* crashes and failed steps so far

vars == <<notes, folders, minted, disk, tmps, litter, req, sweep, atBoot, clean, faults>>

Keys   == Users \X NoteIds
Litter == Users \X (1..MaxFaults)

Phases == {"boot", "walk", "done", "skipped"}

BootSweep == [phase |-> "boot", keep |-> {}, dirs |-> {}, todo |-> {}]

Init ==
    /\ notes = [i \in NoteIds |-> Null]
    /\ folders = [f \in Folders |-> Null]
    /\ minted = {}
    /\ disk = [k \in Keys |-> Null]
    /\ tmps = {}
    /\ litter = {}
    /\ req = [r \in Reqs |-> Idle]
    /\ sweep = BootSweep
    /\ atBoot = {}
    /\ clean = NoteIds
    /\ faults = 0

----------------------------------------------------------------------------
(* Storage layer, as operators over the current tables.  A definition      *)
(* marked "mutant of D" is D with a mistake in it; the specification does  *)
(* not use it.  Put in the place of D, it breaks a property, which shows   *)
(* what the property watches.                                              *)

(* Mutant of OwnsNote: WHERE id = ? without AND user_id = ?.               *)
NoteExists(u, i) == i \in NoteIds /\ notes[i] # Null
OwnsNote(u, i)   == i \in NoteIds /\ notes[i] # Null /\ notes[i].user = u

(* Mutant of FolderOwned: the same for folders.                            *)
FolderExists(u, f) == f \in Folders /\ folders[f] # Null
FolderOwned(u, f)  == f \in Folders /\ folders[f] = u

(* Mutant of FolderRefOK: PRAGMA foreign_keys left off.                    *)
NoFolderRef(f) == TRUE

(* Foreign key notes.folder_id REFERENCES folders(id).                     *)
FolderRefOK(f) == f = Null \/ folders[f] # Null

(* A request for note i overlaps those already at work on it.              *)
Busy(i)    == {r \in Reqs : req[r] # Idle /\ req[r].note = i}
Arrives(i) == clean' = IF Busy(i) = {} THEN clean ELSE clean \ {i}

Goto(r, pc)  == req' = [req EXCEPT ![r].pc = pc]
Respond(r)   == req' = [req EXCEPT ![r] = Idle]
At(r, pc)    == req[r].pc = pc

----------------------------------------------------------------------------
(* createNote: POST /api/notes                                             *)

Create(r, u, t, b, f) ==
    /\ req[r] = Idle
    /\ req' = [req EXCEPT ![r] =
         [pc |-> IF f \in Folders THEN "create_folder" ELSE "create_row",
          user |-> u, note |-> Null, title |-> t, body |-> b, folder |-> f, row |-> Null]]
    /\ UNCHANGED <<notes, folders, minted, disk, tmps, litter, sweep, atBoot, clean, faults>>

CreateFolderCheck(r) ==
    /\ At(r, "create_folder")
    /\ IF FolderOwned(req[r].user, req[r].folder) THEN Goto(r, "create_row")
                                                  ELSE Respond(r)    \* 400 bad_folder
    /\ UNCHANGED <<notes, folders, minted, disk, tmps, litter, sweep, atBoot, clean, faults>>

FolderOf(f) == IF f \in Folders THEN f ELSE Null

CreateRow(r) ==
    /\ At(r, "create_row")
    /\ LET h == req[r]
           f == FolderOf(h.folder)
       IN IF FolderRefOK(f)
          THEN \E i \in NoteIds \ minted :
                 /\ notes' = [notes EXCEPT ![i] =
                      [user |-> h.user, folder |-> f, title |-> h.title,
                       size |-> BodyLen[h.body]]]
                 /\ minted' = minted \cup {i}
                 /\ req' = [req EXCEPT ![r].pc = "create_tmp", ![r].note = i]
          ELSE /\ Respond(r)                                         \* 500, FK
               /\ UNCHANGED <<notes, minted>>
    /\ UNCHANGED <<folders, disk, tmps, litter, sweep, atBoot, clean, faults>>

----------------------------------------------------------------------------
(* writeAtomic: temp file in the same directory, then rename.              *)

WriteTmp(r) ==
    /\ \/ At(r, "create_tmp") /\ Goto(r, "create_rename")
       \/ At(r, "update_tmp") /\ Goto(r, "update_rename")
    /\ tmps' = tmps \cup {r}
    /\ UNCHANGED <<notes, folders, minted, disk, litter, sweep, atBoot, clean, faults>>

(* Mutant of Sized: the size stays what it was.                            *)
SizeKept(row, b) == row
Sized(row, b)    == [row EXCEPT !.size = BodyLen[b]]

(* The rename fails when the temp file is gone: the sweep removes it too.  *)
Rename(r) ==
    /\ At(r, "create_rename") \/ At(r, "update_rename")
    /\ LET h == req[r] IN
         IF r \in tmps
         THEN /\ disk' = [disk EXCEPT ![<<h.user, h.note>>] = h.body]
              /\ IF h.pc = "create_rename" THEN Respond(r)           \* 201
                 ELSE req' = [req EXCEPT ![r].pc = "update_row",
                                         ![r].row = Sized(h.row, h.body)]
         ELSE Respond(r) /\ UNCHANGED disk                           \* 500
    /\ tmps' = tmps \ {r}
    /\ UNCHANGED <<notes, folders, minted, litter, sweep, atBoot, clean, faults>>

----------------------------------------------------------------------------
(* updateNote: PUT /api/notes/{id}.  The row is read, changed in memory    *)
(* and written back as a whole; the body is replaced in between.           *)

Update(r, u, i, t, b, f) ==
    /\ req[r] = Idle
    /\ req' = [req EXCEPT ![r] =
         [pc |-> "update_read", user |-> u, note |-> i, title |-> t, body |-> b,
          folder |-> f, row |-> Null]]
    /\ Arrives(i)
    /\ UNCHANGED <<notes, folders, minted, disk, tmps, litter, sweep, atBoot, faults>>

(* folder_id decodes into **string: null and absent both leave the outer   *)
(* pointer nil ("keep"); every string, "" included, is looked up.          *)
KeepsFolder(f) == f \in {"absent", "null"}

(* Mutant of Retitled: a title not sent blanks the stored one.             *)
TitleOverwritten(row, t) == [row EXCEPT !.title = t]
Retitled(row, t)         == [row EXCEPT !.title = IF t = Null THEN @ ELSE t]

AfterFolder(h) == IF h.body # Null THEN "update_tmp" ELSE "update_row"

UpdateRead(r) ==
    /\ At(r, "update_read")
    /\ LET h == req[r] IN
         IF OwnsNote(h.user, h.note)
         THEN req' = [req EXCEPT
                ![r].pc  = IF KeepsFolder(h.folder) THEN AfterFolder(h) ELSE "update_folder",
                ![r].row = Retitled(notes[h.note], h.title)]
         ELSE Respond(r)                                             \* 404
    /\ UNCHANGED <<notes, folders, minted, disk, tmps, litter, sweep, atBoot, clean, faults>>

UpdateFolderCheck(r) ==
    /\ At(r, "update_folder")
    /\ IF FolderOwned(req[r].user, req[r].folder) THEN Goto(r, AfterFolder(req[r]))
                                                  ELSE Respond(r)    \* 400 bad_folder
    /\ UNCHANGED <<notes, folders, minted, disk, tmps, litter, sweep, atBoot, clean, faults>>

(* The row UpdateNote stores: folder_id is the request's, or the one read. *)
NewRow(h) == [h.row EXCEPT !.folder = IF KeepsFolder(h.folder) THEN @ ELSE FolderOf(h.folder)]

(* Mutant of UpdateSucceeds: INSERT OR REPLACE instead of UPDATE.          *)
UpsertSucceeds(h) == FolderRefOK(NewRow(h).folder)

(* UPDATE ... WHERE id = ? AND user_id = ?: no row and a dangling folder   *)
(* are both errors, answered 500; a body already renamed stays.            *)
UpdateSucceeds(h) == OwnsNote(h.user, h.note) /\ FolderRefOK(NewRow(h).folder)

UpdateRow(r) ==
    /\ At(r, "update_row")
    /\ LET h == req[r] IN
         notes' = IF UpdateSucceeds(h) THEN [notes EXCEPT ![h.note] = NewRow(h)] ELSE notes
    /\ Respond(r)
    /\ UNCHANGED <<folders, minted, disk, tmps, litter, sweep, atBoot, clean, faults>>

----------------------------------------------------------------------------
(* deleteNote: DELETE /api/notes/{id}, row first, body second.             *)

Delete(r, u, i) ==
    /\ req[r] = Idle
    /\ req' = [req EXCEPT ![r] =
         [pc |-> "delete_row", user |-> u, note |-> i, title |-> Null, body |-> Null,
          folder |-> Null, row |-> Null]]
    /\ Arrives(i)
    /\ UNCHANGED <<notes, folders, minted, disk, tmps, litter, sweep, atBoot, faults>>

DeleteRow(r) ==
    /\ At(r, "delete_row")
    /\ LET h == req[r] IN
         IF OwnsNote(h.user, h.note)
         THEN notes' = [notes EXCEPT ![h.note] = Null] /\ Goto(r, "delete_body")
         ELSE Respond(r) /\ UNCHANGED notes                          \* 404
    /\ UNCHANGED <<folders, minted, disk, tmps, litter, sweep, atBoot, clean, faults>>

DeleteBody(r) ==
    /\ At(r, "delete_body")
    /\ disk' = [disk EXCEPT ![<<req[r].user, req[r].note>>] = Null]
    /\ Respond(r)
    /\ UNCHANGED <<notes, folders, minted, tmps, litter, sweep, atBoot, clean, faults>>

----------------------------------------------------------------------------
(* Folders are one statement each.  ON DELETE SET NULL unfiles the notes.  *)
(* Deleting one counts as an overlap with the requests at work on a note.  *)

CreateFolder(u, f) ==
    /\ f \notin minted
    /\ folders' = [folders EXCEPT ![f] = u]
    /\ minted' = minted \cup {f}
    /\ UNCHANGED <<notes, disk, tmps, litter, req, sweep, atBoot, clean, faults>>

DeleteFolder(u, f) ==
    /\ FolderOwned(u, f)
    /\ folders' = [folders EXCEPT ![f] = Null]
    /\ notes' = [i \in NoteIds |->
         IF notes[i] # Null /\ notes[i].folder = f THEN [notes[i] EXCEPT !.folder = Null]
                                                   ELSE notes[i]]
    /\ clean' = {i \in clean : Busy(i) = {}}
    /\ UNCHANGED <<minted, disk, tmps, litter, req, sweep, atBoot, faults>>

----------------------------------------------------------------------------
(* Startup sweep: KeepSets, then a directory walk.  A directory is listed  *)
(* when the walk enters it and its entries are visited one by one; what is *)
(* not in the keep set goes, temp files always.                            *)

(* Mutant of Kept: the query joins folders and so drops unfiled notes.     *)
KeptFiled == {k \in Keys : OwnsNote(k[1], k[2]) /\ notes[k[2]].folder # Null}
Kept      == {k \in Keys : OwnsNote(k[1], k[2])}

KeepSets ==
    /\ sweep.phase = "boot"
    /\ sweep' = [phase |-> "walk", keep |-> Kept, dirs |-> Users, todo |-> {}]
    /\ UNCHANGED <<notes, folders, minted, disk, tmps, litter, req, atBoot, clean, faults>>

(* "orphan sweep skipped": the query failed or took more than a minute.    *)
SweepSkipped ==
    /\ sweep.phase = "boot"
    /\ faults < MaxFaults
    /\ faults' = faults + 1
    /\ sweep' = [sweep EXCEPT !.phase = "skipped"]
    /\ UNCHANGED <<notes, folders, minted, disk, tmps, litter, req, atBoot, clean>>

SweepList(u) ==
    /\ sweep.phase = "walk" /\ sweep.todo = {}
    /\ u \in sweep.dirs
    /\ sweep' = [sweep EXCEPT !.dirs = @ \ {u},
         !.todo = {k \in Keys : k[1] = u /\ disk[k] # Null}
                    \cup {r \in tmps : req[r].user = u}
                    \cup {l \in litter : l[1] = u}]
    /\ UNCHANGED <<notes, folders, minted, disk, tmps, litter, req, atBoot, clean, faults>>

SweepVisit(e) ==
    /\ sweep.phase = "walk" /\ e \in sweep.todo
    /\ sweep' = [sweep EXCEPT !.todo = @ \ {e}]
    /\ disk' = [k \in Keys |-> IF k = e /\ k \notin sweep.keep THEN Null ELSE disk[k]]
    /\ clean' = {i \in clean : \A u \in Users : e = <<u, i>> => e \in sweep.keep}
                   \ {req[r].note : r \in {e} \cap tmps}
    /\ tmps' = tmps \ {e}
    /\ litter' = litter \ {e}
    /\ UNCHANGED <<notes, folders, minted, req, atBoot, faults>>

(* Mutant of Walked: the walk ends with the directory it is in.            *)
DirectoryWalked == sweep.todo = {}
Walked          == sweep.todo = {} /\ sweep.dirs = {}

SweepDone ==
    /\ sweep.phase = "walk" /\ Walked
    /\ sweep' = [sweep EXCEPT !.phase = "done"]
    /\ UNCHANGED <<notes, folders, minted, disk, tmps, litter, req, atBoot, clean, faults>>

----------------------------------------------------------------------------
(* A step returns an error: the client hung up (r.Context is cancelled),   *)
(* the disk is full, a tag list is refused.  The handler answers 500, or   *)
(* only logs in deleteNote; nothing it did before is undone, and a rename  *)
(* that fails leaves its temp file.                                        *)
Fail(r) ==
    /\ req[r] # Idle
    /\ faults < MaxFaults
    /\ faults' = faults + 1
    /\ tmps' = tmps \ {r}
    /\ litter' = IF r \in tmps THEN litter \cup {<<req[r].user, faults + 1>>} ELSE litter
    /\ clean' = clean \ {req[r].note}
    /\ Respond(r)
    /\ UNCHANGED <<notes, folders, minted, disk, sweep, atBoot>>

(* The process dies and systemd starts it again.                           *)
Crash ==
    /\ faults < MaxFaults
    /\ faults' = faults + 1
    /\ req' = [r \in Reqs |-> Idle]
    /\ clean' = {i \in clean : Busy(i) = {}}
    /\ tmps' = {}
    /\ litter' = litter \cup {<<req[r].user, faults + 1>> : r \in tmps}
    /\ sweep' = BootSweep
    /\ atBoot' = {i \in NoteIds : notes[i] # Null}
    /\ UNCHANGED <<notes, folders, minted, disk>>

----------------------------------------------------------------------------
(* Identifiers are random: a client cannot name a note before it is made.  *)
Request(r) ==
    \/ \E u \in Users, t \in Titles, b \in Bodies, f \in FolderArgs : Create(r, u, t, b, f)
    \/ \E u \in Users, i \in NoteIds \cap minted, t \in Titles \cup {Null},
          b \in Bodies \cup {Null}, f \in FolderArgs : Update(r, u, i, t, b, f)
    \/ \E u \in Users, i \in NoteIds \cap minted : Delete(r, u, i)

Handle(r) ==
    \/ CreateFolderCheck(r)
    \/ CreateRow(r)
    \/ WriteTmp(r)
    \/ Rename(r)
    \/ UpdateRead(r)
    \/ UpdateFolderCheck(r)
    \/ UpdateRow(r)
    \/ DeleteRow(r)
    \/ DeleteBody(r)

Sweep ==
    \/ KeepSets
    \/ \E u \in Users : SweepList(u)
    \/ \E e \in Keys \cup Reqs \cup Litter : SweepVisit(e)
    \/ SweepDone

Next ==
    \/ \E r \in Reqs : Request(r) \/ Handle(r) \/ Fail(r)
    \/ \E u \in Users, f \in Folders : CreateFolder(u, f) \/ DeleteFolder(u, f)
    \/ Sweep
    \/ SweepSkipped
    \/ Crash

(* The Go scheduler runs the sweep and every handler to their end; clients *)
(* need not send anything.                                                 *)
Fairness == WF_vars(Sweep) /\ \A r \in Reqs : WF_vars(Handle(r))

Spec     == Init /\ [][Next]_vars
FairSpec == Spec /\ Fairness

----------------------------------------------------------------------------
(* Properties.                                                             *)

(* Every variable stays within its type; identifiers are only ever taken   *)
(* from those minted.                                                      *)
TypeOK ==
    /\ notes \in [NoteIds -> Rows \cup {Null}]
    /\ folders \in [Folders -> Users \cup {Null}]
    /\ minted \subseteq NoteIds \cup Folders
    /\ disk \in [Keys -> Bodies \cup {Null}]
    /\ tmps \subseteq Reqs
    /\ litter \subseteq Litter
    /\ req \in [Reqs -> Handlers \cup {Idle}]
    /\ sweep \in [phase : Phases, keep : SUBSET Keys, dirs : SUBSET Users,
                  todo : SUBSET (Keys \cup Reqs \cup Litter)]
    /\ atBoot \subseteq NoteIds
    /\ clean \subseteq NoteIds
    /\ faults \in 0..MaxFaults

(* A filed note is in a folder of its own user.  The foreign key only asks *)
(* that the folder exists: ownership is checked by FolderOwned several     *)
(* steps before the row is written, or was checked before it was read.     *)
FolderOwnership ==
    \A i \in NoteIds :
        notes[i] # Null /\ notes[i].folder # Null => folders[notes[i].folder] = notes[i].user

(* Row before body: a file on disk belongs to an identifier that has had a *)
(* row, and lies in the directory of that row's user.  This is what lets   *)
(* the sweep take a file without a row for the remains of a deletion.      *)
BodyHasOwner ==
    \A u \in Users, i \in NoteIds :
        disk[<<u, i>>] # Null => i \in minted /\ (notes[i] # Null => notes[i].user = u)

(* A deleted note never comes back, whatever updates of it were in flight: *)
(* UpdateNote is an UPDATE, and identifiers are not reused.                *)
NoResurrection == [][\A i \in minted \cap NoteIds : notes[i] = Null => notes'[i] = Null]_vars

(* Only a request of the note's user, or the deletion of a folder of that  *)
(* user, changes a note's row; only such a request or the sweep its body.  *)
ActsFor(u) == \E r \in Reqs : req[r] # Idle /\ req[r].user = u /\ req'[r] # req[r]

DeletesFolderOf(u) == \E f \in Folders : folders[f] = u /\ folders'[f] = Null

Isolation ==
    [][/\ \A i \in NoteIds :
            notes[i] # Null /\ notes'[i] # notes[i] =>
                ActsFor(notes[i].user) \/ DeletesFolderOf(notes[i].user)
       /\ \A u \in Users, i \in NoteIds :
            disk'[<<u, i>>] # disk[<<u, i>>] => ActsFor(u) \/ sweep' # sweep]_vars

(* The body of a note that keeps its row is never removed, but by the      *)
(* sweep, and by the sweep only if the note is younger than the process.   *)
LiveBodiesKept ==
    [][\A u \in Users, i \in NoteIds :
         /\ notes[i] # Null /\ notes[i].user = u /\ notes'[i] # Null
         /\ disk[<<u, i>>] # Null /\ disk'[<<u, i>>] = Null
         => sweep.phase = "walk" /\ i \notin atBoot]_vars

(* A note whose requests came one after the other, without a fault, is     *)
(* whole: its size is the length of its body, and a deleted one has none.  *)
(* ("Size is maintained by the caller", store/notes.go:122; concurrent     *)
(* updates and an update that fails half-way do not maintain it.)          *)
SerialNotesWhole ==
    \A i \in clean \cap minted :
        LET bodies == {disk[<<u, i>>] : u \in Users} \ {Null} IN
        Busy(i) = {} =>
            IF notes[i] = Null THEN bodies = {}
            ELSE \E b \in bodies : bodies = {b} /\ BodyLen[b] = notes[i].size

(* What a crash leaves is removed by the next start, unless KeepSets       *)
(* failed: a body without a row (deleteNote between its two halves) and a  *)
(* temp file (a write before its rename, or a rename that failed).         *)
OrphansSwept ==
    /\ \A k \in Keys :
         (sweep.phase = "boot" /\ disk[k] # Null /\ notes[k[2]] = Null)
             ~> (disk[k] = Null \/ sweep.phase = "skipped")
    /\ \A l \in Litter :
         (sweep.phase = "boot" /\ l \in litter) ~> (l \notin litter \/ sweep.phase = "skipped")

(* What a request has yet to bring about.  An update with a body takes     *)
(* effect when the body is renamed, one without when its row is stored.    *)
CreatePcs == {"create_folder", "create_row", "create_tmp", "create_rename"}
DeletePcs == {"delete_row", "delete_body"}

Stored(r) == At(r, "update_row") /\ req[r].body # Null

Pending(r) ==
    LET h == req[r] IN
    IF h = Idle \/ h.pc = "delete_body" \/ Stored(r) THEN [op |-> "none"]
    ELSE [op     |-> IF h.pc \in CreatePcs THEN "create"
                     ELSE IF h.pc \in DeletePcs THEN "delete" ELSE "update",
          note   |-> IF h.pc \in CreatePcs THEN Null ELSE h.note,
          user   |-> h.user, title |-> h.title, body |-> h.body, folder |-> h.folder]

(* A note is there once it has its body, and its row is the one a request  *)
(* is about to store if it has stored the body.                            *)
RowOf(i) ==
    IF \E r \in Busy(i) : Stored(r) THEN NewRow(req[CHOOSE r \in Busy(i) : Stored(r)])
                                    ELSE notes[i]

AsOne(i) ==
    IF i \notin clean THEN [state |-> "lost"]
    ELSE IF i \notin minted \/ \E r \in Busy(i) : req[r].pc \in CreatePcs
         THEN [state |-> "unborn"]
    ELSE IF notes[i] = Null THEN [state |-> "deleted"]
    ELSE [state |-> "note", row |-> RowOf(i), body |-> disk[<<notes[i].user, i>>]]

Promise == INSTANCE Vault WITH
    vault <- [i \in NoteIds |-> AsOne(i)], asked <- [r \in Reqs |-> Pending(r)]

(* As long as the requests for a note do not overlap and do not fail, the  *)
(* handlers, which read a row, write a body and write the row in steps of  *)
(* their own, do what Vault promises: each takes effect once, on the row   *)
(* and the body together, as it was asked to.                              *)
ImplementsVault == Promise!Spec

----------------------------------------------------------------------------
(* What comments and documents say, and the code does not keep.            *)

(* notes_handlers.go:141, "null = keep; [null] = unfile; [id] = move": the *)
(* brackets are the pointer, since an id is sent bare.  So an update with  *)
(* JSON null, as the editor sends for "Unfiled" (note.js:153), leaves the  *)
(* note in no folder.                                                      *)
NullUnfiles ==
    [][\A r \in Reqs :
         At(r, "update_row") /\ req[r].folder = "null" /\ UpdateRow(r)
         /\ notes[req[r].note] # Null
         => notes'[req[r].note].folder = Null]_vars

=============================================================================
