------------------------------- MODULE Browser ------------------------------
(***************************************************************************)
(* One tab of the browser: the page of a note (NoteEditor), the list of    *)
(* the main page (ListView), or the viewer that covers it (FileViewer).    *)
(*                                                                         *)
(* They keep no state in common but the server's rows.  A page that is     *)
(* opened boots afresh and reads them; what the viewer does to the list,   *)
(* the event files-changed, is in ListView.  So a tab is followed in one   *)
(* of its parts at a time, and the product of their states is left out.    *)
(***************************************************************************)
CONSTANTS Notes, Words, Folders, Blank, Unfiled, New,   \* the note's page
          ListedNotes, ListedFiles, All, Hits,          \* the list
          Documents, Kind, Rotatable, Recoded, Deletable, \* the viewer
          Calls,      \* the calls, or tasks, a part has under way
          Start,      \* part -> the server's rows when it is opened
          Null

VARIABLES part, rows
VARIABLES address, booting, current, saved, form, call, calm
VARIABLES folders, sidebar, filter, title, listed, selecting, selected, task, meant, stale
VARIABLES visible, name, viewed, imgRot, img, element, cache, asked, overtaken

Editor == INSTANCE NoteEditor
List   == INSTANCE ListView WITH Notes <- ListedNotes, Files <- ListedFiles, Tasks <- Calls
Viewer == INSTANCE FileViewer WITH Files <- Documents, Requests <- Calls, current <- viewed

(* Identifiers are random, so no two items have one; nothing passes for    *)
(* another thing it is not.                                                *)
ASSUME ItemsAssumption ==
    /\ Null \notin Notes \cup {New} \cup Editor!Forms /\ New \notin Notes
    /\ Notes \cap ListedFiles = {}
ASSUME WordsAssumption == Blank \in Words /\ Unfiled \notin Words
ASSUME KindAssumption == Kind \in [Documents -> Viewer!Kinds] /\ Null \notin Documents

(* Of every item there may be there is a row or Null; a row has what its   *)
(* part reads.                                                             *)
ASSUME StartAssumption ==
    /\ \A p \in {"note", "list", "viewer"} : \A s \in Start[p] :
         Notes \cup List!Items \cup Documents \subseteq DOMAIN s
    /\ \A s \in Start["note"] : \A i \in Notes : s[i] \in Editor!Forms \cup {Null}
    /\ \A s \in Start["viewer"] : \A f \in Documents :
         Kind[f] = "image" /\ s[f] # Null =>
           {"mime", "picture"} \subseteq DOMAIN s[f] /\ Viewer!IsPicture(s[f].picture)

page == <<address, booting, current, saved, form, call, calm>>
view == <<folders, sidebar, filter, title, listed, selecting, selected, task, meant, stale>>
over == <<visible, name, viewed, imgRot, img, element, cache, asked, overtaken>>
vars == <<part, rows, page, view, over>>

Init ==
    /\ part \in {"note", "list", "viewer"} /\ rows \in Start[part]
    /\ folders = Folders
    /\ Editor!Closed /\ List!Unloaded /\ Viewer!Closed

(* render and boot load the list; so does every event files-changed.       *)
ListSteps == List!Next \/ \E t \in Calls : List!Load(t) /\ UNCHANGED <<rows, folders>>

Next ==
    \/ part = "note"   /\ Editor!Next /\ UNCHANGED <<part, view, over>>
    \/ part = "list"   /\ ListSteps   /\ UNCHANGED <<part, page, over>>
    \/ part = "viewer" /\ Viewer!Next /\ UNCHANGED <<part, page, view>>

Spec == Init /\ [][Next]_vars

----------------------------------------------------------------------------
(* Properties: those of the parts.                                         *)

TypeOK == Editor!TypeOK /\ List!TypeOK /\ Viewer!TypeOK

(* A page that closes without a question loses nothing (NoteEditor).       *)
NothingLost == Editor!NothingLost

(* A page makes at most one note (NoteEditor).                             *)
OneNote == Editor!OneNote

(* The list shows what the filter and the title say (ListView).            *)
ListMatchesFilter == List!ListMatchesFilter

(* What was agreed to is deleted, and nothing else (ListView).             *)
OnlyMeantDeleted == List!OnlyMeantDeleted

(* What the viewer shows is the file it names and acts on (FileViewer).    *)
ShownIsCurrent == Viewer!ShownIsCurrent

(* A rotation is stored as it was seen (FileViewer).                       *)
SavedAsSeen == Viewer!SavedAsSeen
=============================================================================
