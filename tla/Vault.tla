-------------------------------- MODULE Vault --------------------------------
(***************************************************************************)
(* What the notes of the server promise: a note is a row and a body that   *)
(* change together, when a request of its user takes effect, which it does *)
(* once, between its arrival and its answer, and as it asked.  Notes       *)
(* implements it (ImplementsVault there).                                  *)
(*                                                                         *)
(* Nothing is promised of a note that a fault, the sweep or an overlap of  *)
(* requests got at, which is lost; but it stays one note, and the others   *)
(* are none the worse.                                                     *)
(***************************************************************************)
CONSTANTS Users, NoteIds, Folders, Titles, Bodies, Reqs, Words, BodyLen, Null

VARIABLES
    vault,      \* note -> Unborn, its row and body, Deleted or Lost
    asked       \* request -> what it asks for, Nothing when there is nothing to come

vars == <<vault, asked>>

Nothing == [op |-> "none"]
Unborn  == [state |-> "unborn"]
Deleted == [state |-> "deleted"]
Lost    == [state |-> "lost"]

Note(row, body) == [state |-> "note", row |-> row, body |-> body]

Questions == [op : {"create", "update", "delete"}, user : Users, note : NoteIds \cup {Null},
              title : Titles \cup {Null}, body : Bodies \cup {Null},
              folder : Folders \cup Words \cup {Null}]

Init ==
    /\ vault = [i \in NoteIds |-> Unborn]
    /\ asked = [r \in Reqs |-> Nothing]

(* Notes may get lost, and are otherwise v.                                *)
Becomes(v) == vault' = [i \in NoteIds |-> IF vault'[i] = Lost THEN Lost ELSE v[i]]

Answered(r) == asked' = [asked EXCEPT ![r] = Nothing]

Ask(r) ==
    /\ asked[r] = Nothing
    /\ asked'[r] \in Questions
    /\ asked' = [asked EXCEPT ![r] = asked'[r]]
    /\ Becomes(vault)

(* null and an absent field say nothing of the folder.                     *)
Filed(f, before) == IF f \in Folders THEN f ELSE IF f \in {"absent", "null"} THEN before ELSE Null

Created(q) ==
    Note([user |-> q.user, folder |-> Filed(q.folder, Null), title |-> q.title,
          size |-> BodyLen[q.body]], q.body)

Updated(n, q) ==
    Note([user   |-> n.row.user,
          folder |-> Filed(q.folder, n.row.folder),
          title  |-> IF q.title = Null THEN n.row.title ELSE q.title,
          size   |-> IF q.body = Null THEN n.row.size ELSE BodyLen[q.body]],
         IF q.body = Null THEN n.body ELSE q.body)

Create(r, i) ==
    /\ asked[r].op = "create" /\ vault[i] = Unborn
    /\ vault' = [vault EXCEPT ![i] = Created(asked[r])]
    /\ Answered(r)

Own(u, i) == vault[i].state = "note" /\ vault[i].row.user = u

Update(r, i) ==
    /\ asked[r].op = "update" /\ asked[r].note = i /\ Own(asked[r].user, i)
    /\ vault' = [vault EXCEPT ![i] = Updated(vault[i], asked[r])]
    /\ Answered(r)

Delete(r, i) ==
    /\ asked[r].op = "delete" /\ asked[r].note = i /\ Own(asked[r].user, i)
    /\ vault' = [vault EXCEPT ![i] = Deleted]
    /\ Answered(r)

(* A folder is deleted.                                                    *)
Unfiled(n, f) ==
    IF n.state = "note" /\ n.row.folder = f THEN [n EXCEPT !.row.folder = Null] ELSE n

Unfile(f) == Becomes([i \in NoteIds |-> Unfiled(vault[i], f)]) /\ UNCHANGED asked

(* Requests are refused, or fail.                                          *)
GiveUp ==
    /\ asked' = [r \in Reqs |-> IF asked'[r] = Nothing THEN Nothing ELSE asked[r]]
    /\ Becomes(vault)

Next ==
    \/ GiveUp
    \/ \E r \in Reqs : Ask(r)
    \/ \E r \in Reqs, i \in NoteIds : Create(r, i) \/ Update(r, i) \/ Delete(r, i)
    \/ \E f \in Folders : Unfile(f)

Spec == Init /\ [][Next]_vars
=============================================================================
