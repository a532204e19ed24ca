------------------------------ MODULE ListView ------------------------------
(***************************************************************************)
(* The main page's list in the browser (app.js): a filter, the items shown *)
(* under it, and a selection to delete.  A task is an asynchronous         *)
(* function on its way; its steps are what it does between two awaits, and *)
(* nothing orders the answers two tasks wait for.                          *)
(*                                                                         *)
(* A filter is a folder or All, and whether the search text is set; a tag  *)
(* filters as a folder does.  Changing calls are served and answered in    *)
(* one step; each is followed by a load.                                   *)
(***************************************************************************)
CONSTANTS Notes, Files, Folders, Unfiled,
          All,        \* no folder asked for
          Hits,       \* the items the search text finds
          Tasks, Null

Items   == Notes \cup Files
Filters == [folder : Folders \cup {All}, q : BOOLEAN]
NoFilter == [folder |-> All, q |-> FALSE]

VARIABLES
    rows,       \* the server's items: row with a folder, or Null
    folders,    \* the server's folders
    sidebar,    \* state.folders, and the folders the sidebar offers
    filter,     \* state.filter
    title,      \* the folder that #list-title names
    listed,     \* state.notes and state.files
    selecting,  \* state.selecting
    selected,   \* state.selected
    task,       \* the tasks under way
    meant,      \* history: the items the user agreed to delete
    stale       \* history: since the last load began a call failed or tasks overlapped

view == <<sidebar, filter, title, listed, selecting, selected, task, meant, stale>>

NoTask == [pc |-> "none"]

(* want is the filter a refresh was started with; notes and files are what *)
(* the server answered, or Null before it has; gone are the items          *)
(* deleteSelected has been through; bar: it renders the sidebar, too.      *)
Running == [pc : {"folders", "items", "delete"}, want : Filters \cup {Null},
            notes : (SUBSET Notes) \cup {Null}, files : (SUBSET Files) \cup {Null},
            gone : SUBSET Items, bar : BOOLEAN]

Task(pc, bar) == [pc |-> pc, want |-> Null, notes |-> Null, files |-> Null,
                  gone |-> {}, bar |-> bar]

Idle == \A t \in Tasks : task[t] = NoTask

Unloaded ==
    /\ sidebar = {} /\ filter = NoFilter /\ title = All /\ listed = {} /\ selecting = FALSE /\ selected = {}
    /\ task = [t \in Tasks |-> NoTask] /\ meant = {} /\ stale = TRUE

Matching(f, S) ==
    {i \in S : /\ rows[i] # Null
               /\ f.folder # All => rows[i].folder = f.folder
               /\ f.q => i \in Hits}

(* Task t begins.  One that begins at rest and renders the sidebar, too,   *)
(* is to show everything as it is.                                         *)
Begin(t, new) ==
    /\ task[t] = NoTask
    /\ task' = [task EXCEPT ![t] = new]
    /\ stale' = IF Idle THEN stale /\ ~new.bar ELSE TRUE

End(t)  == task' = [task EXCEPT ![t] = NoTask]

(* loadNotesView, which render, files-changed and every change call.       *)
Load(t) ==
    /\ Begin(t, Task("folders", TRUE))
    /\ UNCHANGED <<sidebar, filter, title, listed, selecting, selected, meant>>

(* Mutant of Asked: the folder of the list that is shown.                  *)
AskedBefore(f) == [f EXCEPT !.folder = title]

(* refreshNotes takes the filter there is when it begins.                  *)
Asked(f) == f

Refreshing(x, f) == [x EXCEPT !.pc = "items", !.want = Asked(f)]

LoadFolders(t) ==
    /\ task[t].pc = "folders"
    /\ \/ /\ task' = [task EXCEPT ![t] = Refreshing(@, filter)]
          /\ sidebar' = folders
          /\ UNCHANGED stale
       \/ End(t) /\ stale' = TRUE /\ UNCHANGED sidebar              \* failed
    /\ UNCHANGED <<rows, folders, filter, title, listed, selecting, selected, meant>>

Ask(t, f, bar) ==
    /\ filter' = f
    /\ Begin(t, Refreshing(Task("items", bar), f))
    /\ UNCHANGED <<rows, folders, sidebar, title, listed, selecting, selected, meant>>

(* A click on a folder of the sidebar, which drops the search.             *)
PickFolder(t, f) == f \in sidebar \cup {All} /\ Ask(t, [folder |-> f, q |-> FALSE], TRUE)

(* Typing in the search field, which leaves the title.                     *)
Search(t) == Ask(t, [filter EXCEPT !.q = ~@], FALSE)

(* The two answers of a refresh.  Without notes it fails; files that do    *)
(* not come are shown as none.                                             *)
ServeNotes(t) ==
    /\ task[t].pc = "items" /\ task[t].notes = Null
    /\ \/ task' = [task EXCEPT ![t].notes = Matching(task[t].want, Notes)] /\ UNCHANGED stale
       \/ End(t) /\ stale' = TRUE
    /\ UNCHANGED <<rows, folders, sidebar, filter, title, listed, selecting, selected, meant>>

ServeFiles(t) ==
    /\ task[t].pc = "items" /\ task[t].files = Null
    /\ \/ task' = [task EXCEPT ![t].files = Matching(task[t].want, Files)]
          /\ UNCHANGED stale
       \/ task' = [task EXCEPT ![t].files = {}] /\ stale' = TRUE
    /\ UNCHANGED <<rows, folders, sidebar, filter, title, listed, selecting, selected, meant>>

(* Both are there: renderNoteList, and renderSidebar with the filter there *)
(* is now.                                                                 *)
Render(t) ==
    LET x == task[t] IN
    /\ x.pc = "items" /\ x.notes # Null /\ x.files # Null
    /\ listed' = x.notes \cup x.files
    /\ title' = IF x.bar THEN filter.folder ELSE title
    /\ End(t)
    /\ UNCHANGED <<rows, folders, sidebar, filter, selecting, selected, meant, stale>>

----------------------------------------------------------------------------
(* moveNoteToFolder, moveFileToFolder; no request unfiles an item.         *)
Move(t, i, f) ==
    /\ ~selecting /\ i \in listed /\ rows[i] # Null /\ f \in folders
    /\ rows' = [rows EXCEPT ![i].folder = f]
    /\ Load(t)
    /\ UNCHANGED folders

(* An upload, or a deletion in the viewer, and the event files-changed.    *)
Upload(t, f) ==
    /\ f \in Files /\ rows[f] = Null
    /\ rows' = [rows EXCEPT ![f] = [folder |-> Unfiled]]
    /\ Load(t) /\ UNCHANGED folders

DeletedInViewer(t, f) ==
    /\ ~selecting /\ f \in Files \cap listed /\ rows[f] # Null
    /\ rows' = [rows EXCEPT ![f] = Null]
    /\ Load(t) /\ UNCHANGED folders

(* deleteFolder: the server unfiles what was in it.                        *)
DeleteFolder(t, f) ==
    /\ f \in sidebar \cap folders
    /\ folders' = folders \ {f}
    /\ rows' = [i \in DOMAIN rows |-> IF rows[i] # Null /\ rows[i].folder = f
                                      THEN [rows[i] EXCEPT !.folder = Unfiled] ELSE rows[i]]
    /\ filter' = IF filter.folder = f THEN NoFilter ELSE filter
    /\ Begin(t, Task("folders", TRUE))
    /\ UNCHANGED <<sidebar, title, listed, selecting, selected, meant>>

----------------------------------------------------------------------------
(* toggleSelectMode, of the buttons Select and Cancel.                     *)
ToggleSelectMode ==
    /\ selecting' = ~selecting
    /\ selected' = {}
    /\ meant' = {}
    /\ UNCHANGED <<rows, folders, sidebar, filter, title, listed, task, stale>>

(* A click on an item of the list; an item taken out and put in again is   *)
(* visited again.                                                          *)
ToggleItem(i) ==
    /\ selecting /\ i \in listed
    /\ selected' = IF i \in selected THEN selected \ {i} ELSE selected \cup {i}
    /\ task' = [t \in Tasks |-> IF task[t].pc = "delete"
                                THEN [task[t] EXCEPT !.gone = @ \ {i}] ELSE task[t]]
    /\ meant' = {}
    /\ UNCHANGED <<rows, folders, sidebar, filter, title, listed, selecting, stale>>

(* The user agrees to delete "n items".                                    *)
DeleteSelected(t) ==
    /\ selecting /\ selected # {}
    /\ meant' = selected
    /\ Begin(t, Task("delete", TRUE))
    /\ UNCHANGED <<rows, folders, sidebar, filter, title, listed, selecting, selected>>

(* Mutant of ToVisit: whatever the list shows.                             *)
VisitListed(x) == listed \ x.gone

(* The loop is over the Set itself: it visits what is added meanwhile and  *)
(* leaves out what is taken away.                                          *)
ToVisit(x) == selected \ x.gone

DeleteNext(t) ==
    /\ task[t].pc = "delete"
    /\ \E i \in ToVisit(task[t]) :
         \/ /\ rows[i] # Null
            /\ rows' = [rows EXCEPT ![i] = Null]
            /\ task' = [task EXCEPT ![t].gone = @ \cup {i}]
            /\ UNCHANGED <<meant, stale>>
         \/ End(t) /\ stale' = TRUE /\ meant' = {} /\ UNCHANGED rows \* 404, or failed
    /\ UNCHANGED <<folders, sidebar, filter, title, listed, selecting, selected>>

DeleteDone(t) ==
    /\ task[t].pc = "delete" /\ ToVisit(task[t]) = {}
    /\ selected' = {} /\ selecting' = FALSE /\ meant' = {}
    /\ task' = [task EXCEPT ![t] = Task("folders", TRUE)]
    /\ UNCHANGED <<rows, folders, sidebar, filter, title, listed, stale>>

Step(t) ==
    \/ LoadFolders(t) \/ ServeNotes(t) \/ ServeFiles(t) \/ Render(t)
    \/ DeleteNext(t) \/ DeleteDone(t)

Click(t) ==
    \/ (\E f \in Folders \cup {All} : PickFolder(t, f)) \/ Search(t)
    \/ \E i \in Items, f \in Folders : Move(t, i, f)
    \/ \E f \in Files : Upload(t, f) \/ DeletedInViewer(t, f)
    \/ \E f \in Folders : DeleteFolder(t, f)
    \/ DeleteSelected(t)

Next ==
    \/ \E t \in Tasks : Step(t) \/ Click(t)
    \/ ToggleSelectMode \/ \E i \in Items : ToggleItem(i)

----------------------------------------------------------------------------
TypeOK ==
    /\ folders \subseteq Folders
    /\ sidebar \subseteq Folders /\ filter \in Filters /\ title \in Folders \cup {All}
    /\ listed \subseteq Items /\ selected \subseteq Items /\ meant \subseteq Items
    /\ selecting \in BOOLEAN /\ stale \in BOOLEAN
    /\ task \in [Tasks -> Running \cup {NoTask}]

(* At rest, the list is what the server has under the filter, and the      *)
(* title names its folder, after a load that nothing disturbed: no task    *)
(* beside it, no call failed.  (Answers of overlapping refreshes may come  *)
(* in any order, and nothing is loaded again after them.)                  *)
ListMatchesFilter ==
    Idle /\ ~stale => listed = Matching(filter, Items) /\ title = filter.folder

(* deleteSelected deletes what the user agreed to, and nothing else, if    *)
(* the selection was left alone while it ran.                              *)
OnlyMeantDeleted ==
    [][\A t \in Tasks, i \in Items :
         /\ task[t].pc = "delete" /\ task'[t] # task[t]
         /\ rows[i] # Null /\ rows'[i] = Null /\ meant # {}
         => i \in meant]_<<rows, folders, view>>
=============================================================================
