----------------------------- MODULE NoteEditor -----------------------------
(***************************************************************************)
(* The page of one note in the browser (note.js).  JavaScript runs one     *)
(* handler at a time, up to its await; the answer to a call is a step of   *)
(* its own, and answers come in any order.                                 *)
(*                                                                         *)
(* The server serves a call in one step (Notes shows what it really does). *)
(* A call may be refused, and its answer may be lost after it was served.  *)
(* The title stands for the tags, which have a button of their own in the  *)
(* same way, and for the body, which is only saved with all the rest.      *)
(***************************************************************************)
CONSTANTS Notes, Words, Folders, Calls,
          Blank,      \* the text of an empty field, a member of Words
          Unfiled,    \* no folder
          New,        \* the address /note/new
          Null

Forms == [title : Words, folder : Folders \cup {Unfiled}]
Empty == [title |-> Blank, folder |-> Unfiled]

VARIABLES
    rows,       \* the server's notes (and files): item -> row, Null or not yet there
    address,    \* the note in the address bar, New, or Null when the page is closed
    booting,    \* the page's first calls are under way
    current,    \* state.currentId
    saved,      \* state.savedPayload
    form,       \* what the fields show
    call,       \* saves under way
    calm        \* history: no two saves overlapped, no answer was lost, and so on

page == <<address, booting, current, saved, form, call, calm>>

NoCall == [op |-> "none"]

(* The fields a call sends.                                                *)
Fields(op) == IF op = "save" THEN {"title", "folder"} ELSE {op}

Saves == [op : {"save", "title", "folder"}, note : Notes \cup {Null},
          sent : UNION {[Fields(op) -> Words \cup Folders \cup {Unfiled}] : op \in {"save", "title", "folder"}},
          state : {"sent", "done", "failed"}, made : Notes \cup {Null}]

Closed ==
    /\ address = Null /\ booting = FALSE /\ current = Null /\ saved = Null
    /\ form = Empty /\ call = [c \in Calls |-> NoCall] /\ calm = TRUE

(* The page is left: its state and the answers it waits for are gone.      *)
Leave ==
    /\ address' = Null /\ booting' = FALSE /\ current' = Null /\ saved' = Null
    /\ form' = Empty /\ call' = [c \in Calls |-> NoCall] /\ calm' = TRUE

Quiet == \A c \in Calls : call[c] = NoCall

(* hasUnsavedChanges: FALSE while there is no baseline.                    *)
Unsaved == saved # Null /\ saved # form

Visit(i) ==
    /\ address = Null
    /\ address' = i /\ booting' = TRUE
    /\ UNCHANGED <<rows, current, saved, form, call, calm>>

(* boot: initNewNote, in the folder the address asks for (?folder=), or    *)
(* openNote with the note the server has; a missing note leads back to the *)
(* list, another error leaves the page as it is.                           *)
InitNewNote ==
    /\ booting /\ address = New
    /\ booting' = FALSE /\ current' = Null
    /\ \E d \in Folders \cup {Unfiled} : form' = [Empty EXCEPT !.folder = d]
    /\ saved' = form'
    /\ UNCHANGED <<rows, address, call, calm>>

OpenNote(i) ==
    /\ booting /\ address = i
    /\ \/ /\ rows[i] # Null
          /\ booting' = FALSE /\ current' = i /\ saved' = rows[i] /\ form' = rows[i]
          /\ UNCHANGED <<address, call, calm>>
       \/ rows[i] = Null /\ Leave
    /\ UNCHANGED rows

BootFails ==
    /\ booting /\ booting' = FALSE
    /\ UNCHANGED <<rows, address, current, saved, form, call, calm>>

(* Typing, and choosing a folder, is possible at any time.  saveFolder     *)
(* reads the field again when it is answered.                              *)
Edit(f) ==
    /\ address # Null
    /\ form' = f
    /\ calm' = (calm /\ (f.folder = form.folder \/ \A c \in Calls : call[c].op # "folder"))
    /\ UNCHANGED <<rows, address, booting, current, saved, call>>

----------------------------------------------------------------------------
Send(c, op) ==
    /\ address # Null /\ call[c] = NoCall
    /\ call' = [call EXCEPT ![c] = [op |-> op, note |-> current,
                                    sent |-> [f \in Fields(op) |-> form[f]],
                                    state |-> "sent", made |-> Null]]
    /\ calm' = (calm /\ Quiet /\ saved # Null)
    /\ UNCHANGED <<rows, address, booting, current, saved, form>>

(* saveNote: PUT the note, or POST it when there is none yet.              *)
SaveNote(c) == Send(c, "save")

(* saveTitle, saveTags; saveFolder: PUT one field of a note there is.      *)
SaveField(c, op) == current # Null /\ Send(c, op)

(* What PUT writes: the fields sent; a folder of null keeps the folder.    *)
Put(row, s) ==
    [f \in DOMAIN row |->
        IF f \in Fields(s.op) /\ s.sent[f] # Unfiled THEN s.sent[f] ELSE row[f]]

Serve(c) ==
    LET s == call[c] IN
    /\ s.op # "none" /\ s.state = "sent"
    /\ \/ \E i \in IF s.note = Null THEN {j \in Notes : rows[j] = Null} ELSE {s.note} :
            /\ s.note # Null => rows[i] # Null
            /\ rows' = [rows EXCEPT ![i] = IF s.note = Null THEN s.sent ELSE Put(@, s)]
            /\ \/ /\ call' = [call EXCEPT ![c].state = "done", ![c].made = i]
                  /\ UNCHANGED calm
               \/ /\ call' = [call EXCEPT ![c].state = "failed"]      \* lost
                  /\ calm' = FALSE
       \/ /\ call' = [call EXCEPT ![c].state = "failed"]              \* refused
          /\ UNCHANGED <<rows, calm>>
    /\ UNCHANGED <<address, booting, current, saved, form>>

(* Mutant of Baseline: everything the fields show is taken for saved.      *)
BaselineOfForm(s) == form

(* The baseline moves to what was sent: all of it, or one field, of which  *)
(* saveFolder reads the field as it is now.                                *)
Baseline(s) ==
    CASE s.op = "save"                    -> s.sent
      [] s.op # "save" /\ saved = Null    -> Null
      [] s.op = "title" /\ saved # Null   -> [saved EXCEPT !.title = s.sent.title]
      [] s.op = "folder" /\ saved # Null  -> [saved EXCEPT !.folder = form.folder]

(* Mutant of Named: the identifier in the answer is not kept.              *)
NotNamed(s) == current

(* currentId, after a POST that of the note made.                          *)
Named(s) == IF s.op = "save" /\ s.note = Null THEN s.made ELSE current

Answer(c) ==
    LET s == call[c] IN
    /\ s.op # "none" /\ s.state # "sent"
    /\ IF s.state = "done"
       THEN /\ saved' = Baseline(s)
            /\ current' = Named(s)
            /\ address' = IF s.op = "save" /\ s.note = Null THEN s.made ELSE address
       ELSE UNCHANGED <<saved, current, address>>
    /\ call' = [call EXCEPT ![c] = NoCall]
    /\ UNCHANGED <<rows, booting, form, calm>>

----------------------------------------------------------------------------
(* btn-cancel: it asks when there are unsaved changes; the user may agree. *)
Close == address # Null /\ Leave /\ UNCHANGED rows

(* deleteCurrentNote, once it is answered.                                 *)
DeleteCurrentNote ==
    /\ current # Null /\ rows[current] # Null
    /\ rows' = [rows EXCEPT ![current] = Null]
    /\ Leave

Next ==
    \/ \E i \in Notes \cup {New} : Visit(i)
    \/ InitNewNote \/ (\E i \in Notes : OpenNote(i)) \/ BootFails
    \/ \E f \in Forms : Edit(f)
    \/ \E c \in Calls : SaveNote(c) \/ (\E op \in {"title", "folder"} : SaveField(c, op))
    \/ \E c \in Calls : Serve(c) \/ Answer(c)
    \/ Close \/ DeleteCurrentNote

----------------------------------------------------------------------------
TypeOK ==
    /\ address \in Notes \cup {New, Null}
    /\ booting \in BOOLEAN /\ calm \in BOOLEAN
    /\ current \in Notes \cup {Null}
    /\ saved \in Forms \cup {Null}
    /\ form \in Forms
    /\ call \in [Calls -> Saves \cup {NoCall}]

(* The page closes without a question only when the server has what the    *)
(* fields show: true once no save is under way, of saves that did not      *)
(* overlap and whose answers arrived, if the folder was left alone while   *)
(* it was being saved, and except for a note taken out of its folder,      *)
(* which null does not do.                                                 *)
Stored ==
    LET row == rows[current] IN
    row = [form EXCEPT !.folder = IF form.folder = Unfiled THEN row.folder ELSE @]

NothingLost ==
    calm /\ Quiet /\ current # Null /\ ~Unsaved => rows[current] # Null /\ Stored

(* Of the same saves, a page makes at most one note, and goes on with it:  *)
(* while it is open, notes come into being only under the address New.     *)
OneNote ==
    [][\A i \in Notes :
         calm /\ calm' /\ rows[i] = Null /\ rows'[i] # Null => address = New /\ current = Null]_<<rows, page>>
=============================================================================
