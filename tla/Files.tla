------------------------------- MODULE Files -------------------------------
(***************************************************************************)
(* Uploaded files of the Carseph server: metadata rows in SQLite, bytes in *)
(* files/{user}/{id}.{ext}.  PATCH and PUT read the row, write the bytes   *)
(* and write all of the row back; PUT may change the extension, and then   *)
(* removes the blob of the old name.  Nothing locks a file in between.     *)
(*                                                                         *)
(* One user's files: every statement names the user, as in Notes.  Folder, *)
(* name and tags of a PATCH are one opaque label.  A blob write is one     *)
(* step, the rename; temp files are modelled in Notes.  Uploads reach this *)
(* module once sniffAllowed has named their type.                          *)
(***************************************************************************)
EXTENDS Naturals, FiniteSets

CONSTANTS FileIds, Types, Images, Rotatable, Pictures, Labels, Reqs, Null,
          MaxFaults    \* bound on crashes and failing steps, for model checking

(* Bytes of a type: what they show, and whether it was turned around.      *)
Bytes == [type : Types, shows : Pictures, turned : BOOLEAN]

(* ext stands for filename: mimeExt gives each accepted type its own.      *)
(* digest stands for size and sha256.                                      *)
Rows == [kind : {"image", "document"}, mime : Types, ext : Types, digest : Bytes,
         label : Labels]

Blobs == FileIds \X Types

ASSUME TypesAssumption  == Images \subseteq Types /\ Rotatable \subseteq Images
ASSUME NullAssumption   == Null \notin Rows \cup Bytes \cup Labels \cup FileIds \cup Types
ASSUME FaultsAssumption == MaxFaults \in Nat

VARIABLES
    files,      \* table files: identifier -> row, or Null
    minted,     \* identifiers newID has handed out
    disk,       \* <<identifier, extension>> -> bytes, or Null
    req,        \* request -> state of its handler
    sweep,      \* startup sweep: phase, keep set, blobs left to visit
    clean,      \* history: files no fault, no sweep and no overlap of requests touched
    faults      \* crashes and failed steps so far

vars == <<files, minted, disk, req, sweep, clean, faults>>

Pcs == {"create_row", "create_write", "serve_row", "serve_open",
        "patch_read", "patch_check", "patch_open", "patch_write", "patch_row",
        "put_read", "put_write", "put_row", "put_delete",
        "delete_read", "delete_row", "delete_blob"}

(* file and label as sent; data as sent or rotated; row is f, old oldName. *)
Handlers == [pc : Pcs, file : FileIds \cup {Null}, data : Bytes \cup {Null},
             label : Labels \cup {Null}, rotate : BOOLEAN, row : Rows \cup {Null},
             old : Types \cup {Null}]

Idle == [pc |-> "idle"]

Handler(pc, i) == [pc |-> pc, file |-> i, data |-> Null, label |-> Null, rotate |-> FALSE,
                   row |-> Null, old |-> Null]

BootSweep == [phase |-> "boot", keep |-> {}, todo |-> {}]

Init ==
    /\ files = [i \in FileIds |-> Null]
    /\ minted = {}
    /\ disk = [k \in Blobs |-> Null]
    /\ req = [r \in Reqs |-> Idle]
    /\ sweep = BootSweep
    /\ clean = FileIds
    /\ faults = 0

At(r, pc)   == req[r].pc = pc
Goto(r, pc) == req' = [req EXCEPT ![r].pc = pc]
Respond(r)  == req' = [req EXCEPT ![r] = Idle]

Busy(i)    == {r \in Reqs : req[r] # Idle /\ req[r].file = i}
BlobsOf(i) == {t \in Types : disk[<<i, t>>] # Null}

(* A definition marked "mutant of D" is D with a mistake in it, which the  *)
(* specification does not use; in the place of D it breaks a property.     *)

(* A request for file i arrives; it overlaps those already at work on it.  *)
Arrive(r, i, h) ==
    /\ req[r] = Idle
    /\ req' = [req EXCEPT ![r] = h]
    /\ clean' = IF Busy(i) = {} THEN clean ELSE clean \ {i}
    /\ UNCHANGED <<files, minted, disk, sweep, faults>>

(* FileByID, the first statement of every handler but uploadFile's.        *)
Load(r, pc, next) ==
    /\ At(r, pc)
    /\ LET row == files[req[r].file] IN
         IF row # Null THEN req' = [req EXCEPT ![r].pc = next, ![r].row = row]
                       ELSE Respond(r)                               \* 404
    /\ UNCHANGED <<files, minted, disk, sweep, clean, faults>>

Write(r, t, next) ==
    /\ disk' = [disk EXCEPT ![<<req[r].file, t>>] = req[r].data]
    /\ IF next = "idle" THEN Respond(r) ELSE Goto(r, next)
    /\ UNCHANGED <<files, minted, sweep, clean, faults>>

Remove(r, t) ==
    /\ disk' = [disk EXCEPT ![<<req[r].file, t>>] = Null]
    /\ Respond(r)
    /\ UNCHANGED <<files, minted, sweep, clean, faults>>

(* UpdateFile: the whole row, and an error when it is gone.                *)
Store(r, next) ==
    /\ LET h == req[r] IN
         IF files[h.file] # Null
         THEN /\ files' = [files EXCEPT ![h.file] = h.row]
              /\ IF next = "idle" THEN Respond(r) ELSE Goto(r, next)
         ELSE Respond(r) /\ UNCHANGED files                          \* 500
    /\ UNCHANGED <<minted, disk, sweep, clean, faults>>

----------------------------------------------------------------------------
(* uploadFile: POST /api/files, row before blob.                           *)

(* Mutant of Kind: the type is stored in the place of the kind.            *)
TypeAsKind(t) == t
Kind(t) == IF t \in Images THEN "image" ELSE "document"

Upload(r, d, l) ==
    Arrive(r, Null, [Handler("create_row", Null) EXCEPT !.data = d, !.label = l])

CreateRow(r) ==
    /\ At(r, "create_row")
    /\ \E i \in FileIds \ minted :
         LET d == req[r].data IN
         /\ files' = [files EXCEPT ![i] =
              [kind |-> Kind(d.type), mime |-> d.type, ext |-> d.type, digest |-> d,
               label |-> req[r].label]]
         /\ minted' = minted \cup {i}
         /\ req' = [req EXCEPT ![r].pc = "create_write", ![r].file = i]
    /\ UNCHANGED <<disk, sweep, clean, faults>>

CreateWrite(r) == At(r, "create_write") /\ Write(r, req[r].data.type, "idle")

----------------------------------------------------------------------------
(* serveFileRaw: GET /api/files/{id}/raw, the type from the row, the bytes *)
(* from the blob it names.                                                 *)

Serve(r, i) == Arrive(r, i, Handler("serve_row", i))
ServeRow(r) == Load(r, "serve_row", "serve_open")

ServeOpen(r) ==
    /\ At(r, "serve_open")
    /\ Respond(r)                                                    \* 200 or 404
    /\ UNCHANGED <<files, minted, disk, sweep, clean, faults>>

----------------------------------------------------------------------------
(* updateFile: PATCH /api/files/{id}; a rotation is baked into the bytes.  *)

Patch(r, i, l, rotate) ==
    Arrive(r, i, [Handler("patch_read", i) EXCEPT !.label = l, !.rotate = rotate])

PatchRead(r) == Load(r, "patch_read", "patch_check")

(* An unknown folder (400) or an image that cannot be rotated ends it.     *)
PatchCheck(r) ==
    /\ At(r, "patch_check")
    /\ LET h == req[r]
           row == IF h.label = Null THEN h.row ELSE [h.row EXCEPT !.label = h.label]
       IN \/ h.label # Null /\ Respond(r)
          \/ /\ h.rotate
             /\ IF h.row.kind = "image" /\ h.row.mime \in Rotatable
                THEN req' = [req EXCEPT ![r].pc = "patch_open", ![r].row = row]
                ELSE Respond(r)
          \/ ~h.rotate /\ req' = [req EXCEPT ![r].pc = "patch_row", ![r].row = row]
    /\ UNCHANGED <<files, minted, disk, sweep, clean, faults>>

(* rotateFileInPlace decodes by the row's type; a failure is a 500.        *)
PatchOpen(r) ==
    /\ At(r, "patch_open")
    /\ LET h == req[r]
           d == disk[<<h.file, h.row.ext>>]
       IN IF d # Null /\ d.type = h.row.mime
          THEN req' = [req EXCEPT ![r].pc = "patch_write", ![r].data = [d EXCEPT !.turned = ~@]]
          ELSE Respond(r)
    /\ UNCHANGED <<files, minted, disk, sweep, clean, faults>>

(* Mutant of Rotated: size and sha256 are left as they were.               *)
NotRefreshed(h) == h.row
Rotated(h)      == [h.row EXCEPT !.digest = h.data]

PatchWrite(r) ==
    /\ At(r, "patch_write")
    /\ disk' = [disk EXCEPT ![<<req[r].file, req[r].row.ext>>] = req[r].data]
    /\ req' = [req EXCEPT ![r].pc = "patch_row", ![r].row = Rotated(req[r])]
    /\ UNCHANGED <<files, minted, sweep, clean, faults>>

PatchRow(r) == At(r, "patch_row") /\ Store(r, "idle")

----------------------------------------------------------------------------
(* replaceFileBytes: PUT /api/files/{id}/raw, with image bytes.            *)

Put(r, i, d) ==
    /\ d.type \in Images
    /\ Arrive(r, i, [Handler("put_read", i) EXCEPT !.data = d])

PutRead(r) == Load(r, "put_read", "put_write")

(* Mutant of Replaced: the old name is kept.                               *)
ReplacedInPlace(row, d) == [row EXCEPT !.mime = d.type, !.digest = d]
Replaced(row, d) == [row EXCEPT !.mime = d.type, !.ext = d.type, !.digest = d]

PutWrite(r) ==
    /\ At(r, "put_write")
    /\ LET h == req[r]
           row == Replaced(h.row, h.data)
       IN /\ disk' = [disk EXCEPT ![<<h.file, row.ext>>] = h.data]
          /\ req' = [req EXCEPT ![r].pc = "put_row", ![r].row = row, ![r].old = h.row.ext]
    /\ UNCHANGED <<files, minted, sweep, clean, faults>>

PutRow(r) ==
    /\ At(r, "put_row")
    /\ Store(r, IF req[r].row.ext # req[r].old THEN "put_delete" ELSE "idle")

(* Mutant of Superseded: the name written is removed, not the one before.  *)
JustWritten(h) == h.row.ext
Superseded(h)  == h.old

PutDelete(r) == At(r, "put_delete") /\ Remove(r, Superseded(req[r]))

----------------------------------------------------------------------------
(* deleteFile: DELETE /api/files/{id}, row before blob.                    *)

Delete(r, i)  == Arrive(r, i, Handler("delete_read", i))
DeleteRead(r) == Load(r, "delete_read", "delete_row")

DeleteRow(r) ==
    /\ At(r, "delete_row")
    /\ LET i == req[r].file IN
         IF files[i] # Null
         THEN files' = [files EXCEPT ![i] = Null] /\ Goto(r, "delete_blob")
         ELSE Respond(r) /\ UNCHANGED files                          \* 500
    /\ UNCHANGED <<minted, disk, sweep, clean, faults>>

DeleteBlob(r) == At(r, "delete_blob") /\ Remove(r, req[r].row.ext)

----------------------------------------------------------------------------
(* Startup sweep.  A blob is kept by its identifier, whatever its ending.  *)

KeepSets ==
    /\ sweep.phase = "boot"
    /\ sweep' = [phase |-> "keep", keep |-> {i \in FileIds : files[i] # Null}, todo |-> {}]
    /\ UNCHANGED <<files, minted, disk, req, clean, faults>>

SweepList ==
    /\ sweep.phase = "keep"
    /\ sweep' = [sweep EXCEPT !.phase = "walk", !.todo = {k \in Blobs : disk[k] # Null}]
    /\ UNCHANGED <<files, minted, disk, req, clean, faults>>

SweepVisit(k) ==
    /\ sweep.phase = "walk" /\ k \in sweep.todo
    /\ sweep' = [sweep EXCEPT !.todo = @ \ {k}]
    /\ IF k[1] \in sweep.keep
       THEN UNCHANGED <<disk, clean>>
       ELSE disk' = [disk EXCEPT ![k] = Null] /\ clean' = clean \ {k[1]}
    /\ UNCHANGED <<files, minted, req, faults>>

----------------------------------------------------------------------------
(* A step fails: the client hung up, the disk is full, a folder or a tag   *)
(* list is refused by the database.  What was done before stays done.      *)
Fail(r) ==
    /\ req[r] # Idle /\ faults < MaxFaults
    /\ faults' = faults + 1
    /\ clean' = clean \ {req[r].file}
    /\ Respond(r)
    /\ UNCHANGED <<files, minted, disk, sweep>>

Crash ==
    /\ faults < MaxFaults
    /\ faults' = faults + 1
    /\ clean' = {i \in clean : Busy(i) = {}}
    /\ req' = [r \in Reqs |-> Idle]
    /\ sweep' = BootSweep
    /\ UNCHANGED <<files, minted, disk>>

----------------------------------------------------------------------------
Fresh == [type : Types, shows : Pictures, turned : {FALSE}]

Request(r) ==
    \/ \E d \in Fresh, l \in Labels : Upload(r, d, l)
    \/ \E i \in minted : \/ Serve(r, i) \/ Delete(r, i)
                         \/ \E l \in Labels \cup {Null}, rotate \in BOOLEAN : Patch(r, i, l, rotate)
                         \/ \E d \in Fresh : Put(r, i, d)

Handle(r) ==
    \/ CreateRow(r) \/ CreateWrite(r)
    \/ ServeRow(r) \/ ServeOpen(r)
    \/ PatchRead(r) \/ PatchCheck(r) \/ PatchOpen(r) \/ PatchWrite(r) \/ PatchRow(r)
    \/ PutRead(r) \/ PutWrite(r) \/ PutRow(r) \/ PutDelete(r)
    \/ DeleteRead(r) \/ DeleteRow(r) \/ DeleteBlob(r)

Sweep == KeepSets \/ SweepList \/ \E k \in Blobs : SweepVisit(k)

Next ==
    \/ \E r \in Reqs : Request(r) \/ Handle(r) \/ Fail(r)
    \/ Sweep
    \/ Crash

Spec == Init /\ [][Next]_vars

----------------------------------------------------------------------------
(* Every variable stays within its type.                                   *)
TypeOK ==
    /\ files \in [FileIds -> Rows \cup {Null}]
    /\ minted \subseteq FileIds
    /\ disk \in [Blobs -> Bytes \cup {Null}]
    /\ req \in [Reqs -> Handlers \cup {Idle}]
    /\ sweep \in [phase : {"boot", "keep", "walk"}, keep : SUBSET FileIds, todo : SUBSET Blobs]
    /\ clean \subseteq FileIds
    /\ faults \in 0..MaxFaults

(* The bytes served are of the type they are announced as ("nosniff"),     *)
(* whatever replaced or rotated the file between row and blob.             *)
ServedAsTheyAre ==
    \A r \in Reqs :
        LET h == req[r] IN
        At(r, "serve_open") /\ disk[<<h.file, h.row.ext>>] # Null
            => disk[<<h.file, h.row.ext>>].type = h.row.mime

(* A file whose requests came one after the other, without a fault, is     *)
(* whole: its row names its one blob, and knows its size and digest; a     *)
(* deleted one leaves no blob.                                             *)
Whole(i) == IF files[i] = Null THEN BlobsOf(i) = {}
                               ELSE /\ BlobsOf(i) = {files[i].ext}
                                    /\ disk[<<i, files[i].ext>>] = files[i].digest

SerialFilesWhole == \A i \in clean : Busy(i) = {} => Whole(i)

----------------------------------------------------------------------------
(* What DESIGN.md says, and the code does not keep.                        *)

(* DESIGN.md:138, "blob lives at DATA_DIR/files/{user_id}/{id} (+ detected *)
(* extension)": once no request is at work on it, a stored file has the    *)
(* blob its row names (before any fault, and before a sweep starts).       *)
StoredFileHasBlob ==
    \A i \in FileIds :
        files[i] # Null /\ Busy(i) = {} /\ faults = 0 /\ sweep.phase = "boot"
            => disk[<<i, files[i].ext>>] # Null

=============================================================================
