--------------------------- MODULE BrowserProofs ---------------------------
(* Proofs about Browser: the page of a note, the list and the viewer, each *)
(* for any number of items and of calls on their way.                      *)
EXTENDS Browser, Integers, TLAPS

----------------------------------------------------------------------------
(* The page of a note.                                                     *)

(* What is known of a save under way, whoever wrote what in the meantime.  *)
CallOK(s) ==
    /\ s.op = "save" => s.sent \in Editor!Forms
    /\ s.op = "title" => s.sent.title \in Words
    /\ s.op = "folder" => s.sent.folder \in Folders \cup {Unfiled}
    /\ s.note = Null => s.op = "save"
    /\ s.state = "done" => s.made \in Notes /\ s.note \in {Null, s.made}

RowsOK == \A i \in Notes : i \in DOMAIN rows /\ rows[i] \in Editor!Forms \cup {Null}

(* While the page is closed nothing of it is left.                         *)
PageInv ==
    /\ Editor!TypeOK
    /\ part # "note" => Editor!Closed
    /\ part = "note" => RowsOK
    /\ \A c \in Calls : call[c] # Editor!NoCall => CallOK(call[c])
    /\ address = Null => ~booting /\ current = Null /\ saved = Null /\ Editor!Quiet

(* The row has this title and folder; null for a folder says nothing.      *)
Agrees(row, t, f) == row # Null /\ row.title = t /\ (f = Unfiled \/ row.folder = f)

(* The server has what the page takes for saved.                           *)
Backed ==
    current # Null => saved # Null /\ Agrees(rows[current], saved.title, saved.folder)

(* It will have, once the answer to save s is in.                          *)
Answered(s) ==
    /\ s.op = "save" => Agrees(rows[s.made], s.sent.title, s.sent.folder)
    /\ s.op = "title" => Agrees(rows[s.made], s.sent.title, saved.folder)
    /\ s.op = "folder" => Agrees(rows[s.made], saved.title, s.sent.folder)

(* The one save under way is of the page's note.                           *)
SaveOK(s) ==
    /\ s.note = current /\ (s.op = "folder" => s.sent.folder = form.folder)
    /\ IF s.state = "done" THEN Answered(s) ELSE Backed

CalmInv ==
    calm =>
      /\ \A c, d \in Calls : call[c] # Editor!NoCall /\ call[d] # Editor!NoCall => c = d
      /\ booting => Editor!Quiet /\ saved = Null /\ current = Null
      /\ current # Null \/ ~Editor!Quiet => saved # Null
      /\ current = Null /\ saved # Null => address = New
      /\ Editor!Quiet => Backed
      /\ \A c \in Calls : call[c] # Editor!NoCall => SaveOK(call[c])

EditorInv == PageInv /\ CalmInv

LEMMA FormFields ==
  \A f \in Editor!Forms : f # Null /\ f.title \in Words /\ f.folder \in Folders \cup {Unfiled}
  BY ItemsAssumption DEF Editor!Forms

(* A page that is left, or was never opened.                               *)
LEMMA ClosedOK == Editor!Closed /\ (part = "note" => RowsOK) => EditorInv
  <1> SUFFICES ASSUME Editor!Closed, part = "note" => RowsOK
               PROVE  EditorInv
    OBVIOUS
  <1>1. Editor!TypeOK
    BY WordsAssumption DEF Editor!Closed, Editor!TypeOK, Editor!Empty, Editor!Forms
  <1>2. Editor!Quiet
    BY DEF Editor!Closed, Editor!Quiet
  <1> QED
    BY <1>1, <1>2 DEF Editor!Closed, EditorInv, PageInv, CalmInv, Backed

LEMMA LeaveStep ==
  ASSUME Editor!Leave, RowsOK'
  PROVE  EditorInv'
  <1>1. Editor!Closed'
    BY DEF Editor!Leave, Editor!Closed
  <1> QED
    BY <1>1, ClosedOK, PTL

(* Opening the page: nothing is under way, unless the user was there first.*)
LEMMA VisitStep ==
  ASSUME EditorInv, part = "note", part' = part, NEW i \in Notes \cup {New}, Editor!Visit(i)
  PROVE  EditorInv'
  <1>1. /\ address' = i /\ i # Null /\ booting' = TRUE /\ address = Null
        /\ UNCHANGED <<rows, current, saved, form, call, calm>>
    BY ItemsAssumption DEF Editor!Visit
  <1>2. current = Null /\ saved = Null /\ Editor!Quiet /\ Editor!Quiet'
    BY <1>1 DEF EditorInv, PageInv, Editor!Quiet
  <1>3. PageInv'
    BY <1>1 DEF EditorInv, PageInv, RowsOK, Editor!TypeOK, CallOK
  <1>4. CalmInv'
    BY <1>1, <1>2 DEF CalmInv, Editor!Quiet, Backed
  <1> QED
    BY <1>3, <1>4 DEF EditorInv

LEMMA BootStep ==
  ASSUME EditorInv, part = "note", part' = part,
         Editor!InitNewNote \/ Editor!BootFails \/ \E i \in Notes : Editor!OpenNote(i)
  PROVE  EditorInv'
  <1>1. booting /\ address # Null
    BY DEF Editor!InitNewNote, Editor!BootFails, Editor!OpenNote, EditorInv, PageInv
  <1>2. UNCHANGED <<rows, call>> => (Editor!Quiet' <=> Editor!Quiet)
    BY DEF Editor!Quiet
  <1>3. CASE Editor!InitNewNote
    <2>1. /\ address = New /\ booting' = FALSE /\ current' = Null /\ saved' = form'
          /\ UNCHANGED <<rows, address, call, calm>>
      BY <1>3 DEF Editor!InitNewNote
    <2>2. form' \in Editor!Forms
      BY <1>3, WordsAssumption DEF Editor!InitNewNote, Editor!Empty, Editor!Forms
    <2>3. PageInv'
      BY <1>1, <2>1, <2>2 DEF EditorInv, PageInv, RowsOK, Editor!TypeOK, CallOK
    <2>4. CalmInv'
      BY <1>1, <1>2, <2>1, <2>2, FormFields DEF EditorInv, CalmInv, Editor!Quiet, Backed
    <2> QED
      BY <2>3, <2>4 DEF EditorInv
  <1>4. CASE Editor!BootFails
    <2>1. booting' = FALSE /\ UNCHANGED <<rows, address, current, saved, form, call, calm>>
      BY <1>4 DEF Editor!BootFails
    <2>2. PageInv'
      BY <1>1, <2>1 DEF EditorInv, PageInv, RowsOK, Editor!TypeOK, CallOK
    <2>3. CalmInv'
      BY <1>1, <1>2, <2>1 DEF EditorInv, CalmInv, Editor!Quiet, Backed
    <2> QED
      BY <2>2, <2>3 DEF EditorInv
  <1>5. ASSUME NEW i \in Notes, Editor!OpenNote(i)
        PROVE  EditorInv'
    <2>1. CASE rows[i] = Null
      <3>1. Editor!Leave /\ rows' = rows
        BY <1>5, <2>1 DEF Editor!OpenNote
      <3> QED
        BY <3>1, LeaveStep DEF EditorInv, PageInv, RowsOK
    <2>2. CASE rows[i] # Null
      <3>1. /\ booting' = FALSE /\ current' = i /\ saved' = rows[i] /\ form' = rows[i]
            /\ UNCHANGED <<rows, address, call, calm>>
        BY <1>5, <2>2 DEF Editor!OpenNote
      <3>2. rows[i] \in Editor!Forms
        BY <2>2 DEF EditorInv, PageInv, RowsOK
      <3>3. PageInv'
        BY <1>1, <3>1, <3>2 DEF EditorInv, PageInv, RowsOK, Editor!TypeOK, CallOK
      <3>4. Backed' /\ i # Null
        BY <2>2, <3>1, ItemsAssumption DEF Backed, Agrees
      <3>5. CalmInv'
        BY <1>1, <1>2, <2>2, <3>1, <3>4 DEF EditorInv, CalmInv, Editor!Quiet
      <3> QED
        BY <3>3, <3>5 DEF EditorInv
    <2> QED
      BY <2>1, <2>2
  <1> QED
    BY <1>3, <1>4, <1>5

(* Typing changes no save but that of a folder, which is read again.       *)
LEMMA EditStep ==
  ASSUME EditorInv, part = "note", part' = part, NEW f \in Editor!Forms, Editor!Edit(f)
  PROVE  EditorInv'
  <1>1. /\ form' = f /\ UNCHANGED <<rows, address, booting, current, saved, call>>
        /\ calm' = (calm /\ (f.folder = form.folder \/ \A c \in Calls : call[c].op # "folder"))
    BY DEF Editor!Edit
  <1>2. PageInv'
    BY <1>1 DEF EditorInv, PageInv, RowsOK, Editor!TypeOK, CallOK, Editor!Quiet
  <1>3. (Backed' <=> Backed) /\ \A s : Answered(s)' <=> Answered(s)
    BY <1>1 DEF Backed, Answered
  <1>4. (Editor!Quiet' <=> Editor!Quiet)
    BY <1>1 DEF Editor!Quiet
  <1>5. ASSUME calm', NEW c \in Calls, call[c] # Editor!NoCall
        PROVE  SaveOK(call[c])'
    BY <1>1, <1>3, <1>5 DEF EditorInv, CalmInv, SaveOK, Answered, Backed, Agrees
  <1>6. CalmInv'
    BY <1>1, <1>3, <1>4, <1>5 DEF EditorInv, CalmInv
  <1> QED
    BY <1>2, <1>6 DEF EditorInv

LEMMA SendStep ==
  ASSUME EditorInv, part = "note", part' = part, NEW c \in Calls,
         NEW op \in {"save", "title", "folder"}, op # "save" => current # Null, Editor!Send(c, op)
  PROVE  EditorInv'
  <1> DEFINE sent == [f \in Editor!Fields(op) |-> form[f]]
             s == [op |-> op, note |-> current, sent |-> sent, state |-> "sent", made |-> Null]
  <1>1. /\ address # Null /\ call' = [call EXCEPT ![c] = s]
        /\ calm' = (calm /\ Editor!Quiet /\ saved # Null)
        /\ UNCHANGED <<rows, address, booting, current, saved, form>>
    BY DEF Editor!Send
  <1>2. /\ form \in Editor!Forms /\ call \in [Calls -> Editor!Saves \cup {Editor!NoCall}]
        /\ current \in Notes \cup {Null}
    BY DEF EditorInv, PageInv, Editor!TypeOK
  <1>3. /\ op = "save" => sent \in Editor!Forms
        /\ op = "title" => sent.title \in Words
        /\ op = "folder" => sent.folder = form.folder /\ sent.folder \in Folders \cup {Unfiled}
    BY <1>2 DEF Editor!Fields, Editor!Forms
  <1>4. sent \in [Editor!Fields(op) -> Words \cup Folders \cup {Unfiled}]
    BY <1>2 DEF Editor!Fields, Editor!Forms
  <1> HIDE DEF sent
  <1>5. s \in Editor!Saves
    BY <1>2, <1>4 DEF Editor!Saves
  <1>6. /\ call'[c] = s /\ \A d \in Calls \ {c} : call'[d] = call[d]
        /\ call' \in [Calls -> Editor!Saves \cup {Editor!NoCall}]
    BY <1>1, <1>2, <1>5
  <1>7. CallOK(s)
    BY <1>3 DEF CallOK
  <1>8. PageInv'
    BY <1>1, <1>6, <1>7 DEF EditorInv, PageInv, RowsOK, Editor!TypeOK, CallOK
  <1>9. CASE calm'
    <2>1. /\ calm /\ Editor!Quiet /\ saved # Null /\ Backed /\ ~booting
          /\ (current = Null => address = New)
      BY <1>1, <1>9 DEF EditorInv, CalmInv
    <2>2. \A d \in Calls : call'[d] # Editor!NoCall => d = c
      BY <1>6, <2>1 DEF Editor!Quiet
    <2>3. Backed'
      BY <1>1, <2>1 DEF Backed
    <2>4. SaveOK(call[c])'
      BY <1>1, <1>3, <1>6, <2>3 DEF SaveOK
    <2> QED
      BY <1>1, <1>8, <2>1, <2>2, <2>3, <2>4 DEF EditorInv, CalmInv
  <1> QED
    BY <1>8, <1>9 DEF EditorInv, CalmInv

(* What a call that is served leaves in the row.                           *)
LEMMA PutRow ==
  ASSUME NEW s \in Editor!Saves, CallOK(s), NEW row \in Editor!Forms
  PROVE  /\ Editor!Put(row, s) \in Editor!Forms
         /\ s.op = "save" => Agrees(Editor!Put(row, s), s.sent.title, s.sent.folder)
         /\ s.op = "title" => \A f : Agrees(row, row.title, f) =>
                                   Agrees(Editor!Put(row, s), s.sent.title, f)
         /\ s.op = "folder" => Agrees(Editor!Put(row, s), row.title, s.sent.folder)
  <1>1. s.op \in {"save", "title", "folder"}
    BY DEF Editor!Saves
  <1> DEFINE t == IF "title" \in Editor!Fields(s.op) /\ s.sent["title"] # Unfiled
                  THEN s.sent["title"] ELSE row["title"]
             f == IF "folder" \in Editor!Fields(s.op) /\ s.sent["folder"] # Unfiled
                  THEN s.sent["folder"] ELSE row["folder"]
  <1>2. DOMAIN row = {"title", "folder"}
    BY DEF Editor!Forms
  <1>3. Editor!Put(row, s) = [title |-> t, folder |-> f]
    BY <1>2 DEF Editor!Put
  <1>4. t \in Words /\ f \in Folders \cup {Unfiled}
    BY <1>1 DEF Editor!Fields, CallOK, Editor!Forms
  <1>5. Editor!Put(row, s) \in Editor!Forms
    BY <1>3, <1>4 DEF Editor!Forms
  <1>6. Editor!Put(row, s) # Null /\ Editor!Put(row, s).title = t /\ Editor!Put(row, s).folder = f
    BY <1>3, <1>5, FormFields
  <1>7. /\ s.op \in {"save", "title"} => t = s.sent.title
        /\ s.op \in {"save", "folder"} => f = s.sent.folder \/ s.sent.folder = Unfiled
        /\ s.op = "title" => f = row.folder
        /\ s.op = "folder" => t = row.title
    BY <1>1, WordsAssumption DEF Editor!Fields, CallOK, Editor!Forms
  <1> HIDE DEF t, f
  <1> QED
    BY <1>5, <1>6, <1>7 DEF Agrees

LEMMA CallTypes ==
  ASSUME EditorInv, NEW c \in Calls, call[c].op # "none"
  PROVE  /\ call[c] # Editor!NoCall /\ call[c] \in Editor!Saves /\ CallOK(call[c])
         /\ address # Null /\ (calm => saved # Null /\ ~booting /\ SaveOK(call[c]))
         /\ calm => \A d \in Calls \ {c} : call[d] = Editor!NoCall
  BY DEF EditorInv, PageInv, CalmInv, Editor!TypeOK, Editor!NoCall, Editor!Quiet

(* A call is served, and the answer is on its way.                         *)
LEMMA ServedStep ==
  ASSUME EditorInv, part = "note", part' = part, NEW c \in Calls, NEW s, s = call[c],
         s.op # "none", s.state = "sent", NEW i \in Notes, s.note \in {Null, i},
         s.note # Null => rows[i] # Null,
         rows' = [rows EXCEPT ![i] = IF s.note = Null THEN s.sent ELSE Editor!Put(@, s)],
         call' = [call EXCEPT ![c].state = "done", ![c].made = i],
         UNCHANGED <<address, booting, current, saved, form, calm>>
  PROVE  EditorInv'
  <1>1. /\ s # Editor!NoCall /\ s \in Editor!Saves /\ CallOK(s) /\ i # Null /\ address # Null
        /\ calm => saved # Null /\ ~booting /\ SaveOK(s)
        /\ calm => \A d \in Calls \ {c} : call[d] = Editor!NoCall
    BY CallTypes, ItemsAssumption
  <1>2. call \in [Calls -> Editor!Saves \cup {Editor!NoCall}] /\ RowsOK
    BY DEF EditorInv, PageInv, Editor!TypeOK
  <1> DEFINE new == [s EXCEPT !.state = "done", !.made = i]
             row == IF s.note = Null THEN s.sent ELSE Editor!Put(rows[i], s)
  <1>3. /\ new \in Editor!Saves /\ new.op = s.op /\ new.note = s.note /\ new.sent = s.sent
        /\ new.state = "done" /\ new.made = i
    BY <1>1 DEF Editor!Saves
  <1>4. CallOK(new)
    BY <1>1, <1>3 DEF CallOK
  <1> HIDE DEF new
  <1>5. /\ call'[c] = new /\ \A d \in Calls \ {c} : call'[d] = call[d]
        /\ call' \in [Calls -> Editor!Saves \cup {Editor!NoCall}]
    BY <1>2, <1>3 DEF new
  <1>6. s.op \in {"save", "title", "folder"} /\ (s.note = Null => s.op = "save")
    BY <1>1 DEF Editor!Saves, CallOK
  <1>7. s.note = i => rows[i] \in Editor!Forms
    BY <1>1, <1>2 DEF RowsOK
  <1>8. row \in Editor!Forms
    BY <1>1, <1>6, <1>7, PutRow DEF CallOK
  <1>9. rows'[i] = row /\ \A j \in Notes : j \in DOMAIN rows' /\ (j # i => rows'[j] = rows[j])
    BY <1>2 DEF RowsOK
  <1>10. PageInv'
    <2>1. RowsOK'
      BY <1>2, <1>8, <1>9 DEF RowsOK
    <2> HIDE DEF row
    <2>2. Editor!TypeOK'
      BY <1>5 DEF EditorInv, PageInv, Editor!TypeOK
    <2>3. \A d \in Calls : call'[d] # Editor!NoCall => CallOK(call'[d])
      BY <1>4, <1>5 DEF EditorInv, PageInv
    <2> QED
      BY <1>1, <2>1, <2>2, <2>3 DEF PageInv, CallOK
  <1>11. CASE calm
    <2>1. s.note = current /\ (s.op = "folder" => s.sent.folder = form.folder)
      BY <1>1, <1>11 DEF SaveOK
    <2>2. s.note = i => Agrees(rows[i], saved.title, saved.folder)
      BY <1>1, <1>11, <2>1 DEF SaveOK, Backed
    <2>3. /\ s.op = "save" => Agrees(row, s.sent.title, s.sent.folder)
          /\ s.op = "title" => Agrees(row, s.sent.title, saved.folder)
          /\ s.op = "folder" => Agrees(row, saved.title, s.sent.folder)
      <3>1. CASE s.note = Null
        BY <1>1, <1>6, <3>1, FormFields DEF CallOK, Agrees
      <3>2. CASE s.note = i
        <4>1. row = Editor!Put(rows[i], s)
          BY <1>1, <3>2
        <4>2. rows[i].title = saved.title /\ Agrees(rows[i], rows[i].title, saved.folder)
          BY <2>2, <3>2 DEF Agrees
        <4> HIDE DEF row
        <4> QED
          BY <1>1, <1>7, <3>2, <4>1, <4>2, PutRow
      <3> QED
        BY <3>1, <3>2
    <2> HIDE DEF row
    <2>4. SaveOK(call[c])'
      BY <1>3, <1>5, <1>9, <2>1, <2>3 DEF SaveOK, Answered
    <2>5. \A d \in Calls : call'[d] # Editor!NoCall => d = c
      BY <1>1, <1>5, <1>11
    <2>6. ~Editor!Quiet'
      BY <1>3, <1>5 DEF Editor!Quiet, Editor!NoCall, Editor!Saves
    <2>7. current = Null => address = New
      BY <1>1, <1>11 DEF EditorInv, CalmInv
    <2>8. CalmInv'
      BY <1>1, <1>11, <2>4, <2>5, <2>6, <2>7 DEF CalmInv
    <2> QED
      BY <1>10, <2>8 DEF EditorInv
  <1> QED
    BY <1>10, <1>11 DEF EditorInv, CalmInv

(* A call fails: it was refused, or its answer is lost.                    *)
LEMMA FailedStep ==
  ASSUME EditorInv, part = "note", part' = part, NEW c \in Calls, call[c].op # "none",
         call[c].state = "sent", RowsOK', call' = [call EXCEPT ![c].state = "failed"],
         calm' = FALSE \/ UNCHANGED <<rows, calm>>,
         UNCHANGED <<address, booting, current, saved, form>>
  PROVE  EditorInv'
  <1>1. /\ call[c] # Editor!NoCall /\ call[c] \in Editor!Saves /\ CallOK(call[c])
        /\ address # Null
        /\ calm => saved # Null /\ ~booting /\ SaveOK(call[c])
        /\ calm => \A d \in Calls \ {c} : call[d] = Editor!NoCall
    BY CallTypes
  <1> DEFINE new == [call[c] EXCEPT !.state = "failed"]
  <1>2. /\ new \in Editor!Saves /\ new.op = call[c].op /\ new.note = call[c].note
        /\ new.sent = call[c].sent /\ new.state = "failed" /\ new # Editor!NoCall
    BY <1>1 DEF Editor!Saves, Editor!NoCall
  <1>3. call \in [Calls -> Editor!Saves \cup {Editor!NoCall}]
    BY DEF EditorInv, PageInv, Editor!TypeOK
  <1> HIDE DEF new
  <1>4. /\ call'[c] = new /\ \A d \in Calls \ {c} : call'[d] = call[d]
        /\ call' \in [Calls -> Editor!Saves \cup {Editor!NoCall}]
    BY <1>2, <1>3 DEF new
  <1>5. CallOK(new)
    BY <1>1, <1>2 DEF CallOK
  <1>6. PageInv'
    <2>1. Editor!TypeOK'
      BY <1>4 DEF EditorInv, PageInv, Editor!TypeOK
    <2>2. \A d \in Calls : call'[d] # Editor!NoCall => CallOK(call'[d])
      BY <1>4, <1>5 DEF EditorInv, PageInv
    <2> QED
      BY <1>1, <2>1, <2>2 DEF PageInv, CallOK
  <1>7. CASE calm'
    <2>1. calm /\ UNCHANGED <<rows, calm>> /\ SaveOK(call[c])
      BY <1>1, <1>7
    <2>2. Backed
      BY <2>1 DEF SaveOK
    <2>3. SaveOK(call[c])'
      BY <1>2, <1>4, <2>1, <2>2 DEF SaveOK, Backed
    <2>4. \A d \in Calls : call'[d] # Editor!NoCall => d = c
      BY <1>1, <1>4, <2>1
    <2>5. ~Editor!Quiet'
      BY <1>2, <1>4 DEF Editor!Quiet
    <2>6. current = Null => address = New
      BY <1>1, <2>1 DEF EditorInv, CalmInv
    <2>7. CalmInv'
      BY <1>1, <2>1, <2>3, <2>4, <2>5, <2>6 DEF CalmInv
    <2> QED
      BY <1>6, <2>7 DEF EditorInv
  <1> QED
    BY <1>6, <1>7 DEF EditorInv, CalmInv

LEMMA ServeStep ==
  ASSUME EditorInv, part = "note", part' = part, NEW c \in Calls, Editor!Serve(c)
  PROVE  EditorInv'
  <1> DEFINE s == call[c]
  <1>1. s.op # "none" /\ s.state = "sent" /\ UNCHANGED <<address, booting, current, saved, form>>
    BY DEF Editor!Serve
  <1>2. s \in Editor!Saves /\ CallOK(s) /\ calm \in BOOLEAN /\ RowsOK
    BY <1>1, CallTypes DEF EditorInv, PageInv, Editor!TypeOK
  <1>3. CASE /\ call' = [call EXCEPT ![c].state = "failed"]
             /\ UNCHANGED <<rows, calm>>
    BY <1>1, <1>2, <1>3, FailedStep DEF RowsOK
  <1>4. ASSUME NEW i \in IF s.note = Null THEN {j \in Notes : rows[j] = Null} ELSE {s.note},
               s.note # Null => rows[i] # Null,
               rows' = [rows EXCEPT ![i] = IF s.note = Null THEN s.sent ELSE Editor!Put(@, s)],
               \/ call' = [call EXCEPT ![c].state = "done", ![c].made = i] /\ UNCHANGED calm
               \/ call' = [call EXCEPT ![c].state = "failed"] /\ calm' = FALSE
        PROVE  EditorInv'
    <2>1. i \in Notes /\ s.note \in {Null, i}
      BY <1>2, <1>4 DEF Editor!Saves
    <2>2. CASE call' = [call EXCEPT ![c].state = "done", ![c].made = i] /\ UNCHANGED calm
      BY <1>1, <1>4, <2>1, <2>2, ServedStep
    <2>3. CASE call' = [call EXCEPT ![c].state = "failed"] /\ calm' = FALSE
      <3>1. s.note = i => rows[i] \in Editor!Forms
        BY <1>2, <1>4, <2>1, ItemsAssumption DEF RowsOK
      <3>2. s.note = Null => s.sent \in Editor!Forms
        BY <1>2 DEF CallOK
      <3>3. (IF s.note = Null THEN s.sent ELSE Editor!Put(rows[i], s)) \in Editor!Forms
        BY <1>2, <2>1, <3>1, <3>2, PutRow
      <3>4. RowsOK'
        BY <1>2, <1>4, <2>1, <3>3 DEF RowsOK
      <3> QED
        BY <1>1, <2>3, <3>4, FailedStep
    <2> QED
      BY <1>4, <2>2, <2>3
  <1> QED
    BY <1>3, <1>4 DEF Editor!Serve

(* The answer: the page takes for saved what the row then has.             *)
LEMMA AnswerStep ==
  ASSUME EditorInv, part = "note", part' = part, NEW c \in Calls, Editor!Answer(c)
  PROVE  EditorInv'
  <1> DEFINE s == call[c]
  <1>1. s.op # "none" /\ s.state # "sent" /\ call' = [call EXCEPT ![c] = Editor!NoCall]
        /\ UNCHANGED <<rows, booting, form, calm>>
    BY DEF Editor!Answer
  <1>2. /\ s \in Editor!Saves /\ CallOK(s) /\ address # Null
        /\ calm => saved # Null /\ ~booting /\ SaveOK(s)
    BY <1>1, CallTypes
  <1>3. calm => \A d \in Calls \ {c} : call[d] = Editor!NoCall
    BY <1>1, CallTypes
  <1>4. PageInv
    BY DEF EditorInv
  <1>5. /\ \A d \in Calls : call'[d] = IF d = c THEN Editor!NoCall ELSE call[d]
        /\ call' \in [Calls -> Editor!Saves \cup {Editor!NoCall}]
    BY <1>1, <1>4 DEF PageInv, Editor!TypeOK
  <1>6. ASSUME address' # Null, address' \in Notes \cup {New, Null}, current' \in Notes \cup {Null},
               saved' \in Editor!Forms \cup {Null},
               calm => Backed' /\ (current' # Null => saved' # Null)
                       /\ (current' = Null /\ saved' # Null => address' = New)
        PROVE  EditorInv'
    <2>1. PageInv'
      BY <1>1, <1>4, <1>5, <1>6 DEF PageInv, RowsOK, Editor!TypeOK, CallOK
    <2>2. calm => Editor!Quiet'
      BY <1>3, <1>5 DEF Editor!Quiet
    <2>3. CalmInv'
      BY <1>1, <1>2, <1>6, <2>2 DEF CalmInv, Editor!Quiet
    <2> QED
      BY <2>1, <2>3 DEF EditorInv
  <1>7. CASE s.state # "done"
    <2>1. UNCHANGED <<saved, current, address>>
      BY <1>7 DEF Editor!Answer
    <2>2. calm => Backed' /\ saved' # Null /\ (current' = Null => address' = New)
      BY <1>1, <1>2, <1>7, <2>1 DEF SaveOK, Backed, EditorInv, CalmInv
    <2> QED
      BY <1>2, <1>4, <1>6, <2>1, <2>2 DEF PageInv, Editor!TypeOK
  <1>8. CASE s.state = "done"
    <2>1. /\ saved' = Editor!Baseline(s) /\ current' = Editor!Named(s)
          /\ address' = IF s.op = "save" /\ s.note = Null THEN s.made ELSE address
      BY <1>8 DEF Editor!Answer
    <2>2. /\ s.op \in {"save", "title", "folder"} /\ s.made \in Notes /\ s.made # Null
          /\ s.note \in {Null, s.made} /\ (s.note = Null => s.op = "save")
      BY <1>2, <1>8, ItemsAssumption DEF CallOK, Editor!Saves
    <2>3. /\ address \in Notes \cup {New, Null} /\ current \in Notes \cup {Null}
          /\ saved \in Editor!Forms \cup {Null} /\ form \in Editor!Forms
      BY <1>4 DEF PageInv, Editor!TypeOK
    <2>4. CASE s.op = "save"
      <3>1. saved' = s.sent /\ s.sent \in Editor!Forms
        BY <1>2, <2>1, <2>4 DEF Editor!Baseline, CallOK
      <3>2. current' = IF s.note = Null THEN s.made ELSE current
        BY <2>1, <2>4 DEF Editor!Named
      <3>3. calm => current' = s.made
        BY <1>2, <2>2, <3>2 DEF SaveOK
      <3>4. calm => Backed'
        BY <1>1, <1>2, <1>8, <2>4, <3>1, <3>3, FormFields DEF SaveOK, Answered, Agrees, Backed
      <3> QED
        BY <1>2, <1>6, <2>1, <2>2, <2>3, <2>4, <3>1, <3>2, <3>3, <3>4, FormFields
    <2>5. CASE s.op # "save"
      <3>1. current' = current /\ address' = address
        BY <2>1, <2>5 DEF Editor!Named
      <3>2. calm => current = s.made
        BY <1>2, <2>2, <2>5 DEF SaveOK
      <3>3. CASE saved = Null
        BY <1>2, <1>6, <2>1, <2>3, <2>5, <3>1, <3>3 DEF Editor!Baseline
      <3>4. CASE saved # Null
        <4>1. /\ s.op = "title" => saved' = [saved EXCEPT !.title = s.sent.title]
              /\ s.op = "folder" => saved' = [saved EXCEPT !.folder = form.folder]
          BY <2>1, <3>4 DEF Editor!Baseline
        <4>2. /\ saved' \in Editor!Forms
              /\ s.op = "title" => saved'.title = s.sent.title /\ saved'.folder = saved.folder
              /\ s.op = "folder" => saved'.title = saved.title /\ saved'.folder = form.folder
          BY <1>2, <2>2, <2>3, <2>5, <3>4, <4>1 DEF Editor!Forms, CallOK
        <4>3. calm => Backed'
          BY <1>1, <1>2, <1>8, <2>2, <2>5, <3>1, <3>2, <4>2, FormFields
          DEF SaveOK, Answered, Agrees, Backed
        <4> QED
          BY <1>2, <1>6, <2>2, <2>3, <3>1, <3>2, <4>2, <4>3, FormFields
      <3> QED
        BY <3>3, <3>4
    <2> QED
      BY <2>4, <2>5
  <1> QED
    BY <1>7, <1>8

LEMMA EditorStep ==
  ASSUME EditorInv, part = "note", part' = part, Editor!Next
  PROVE  EditorInv'
  <1>1. CASE Editor!Close
    BY <1>1, LeaveStep DEF Editor!Close, EditorInv, PageInv, RowsOK
  <1>2. CASE Editor!DeleteCurrentNote
    <2>1. Editor!Leave /\ rows' = [rows EXCEPT ![current] = Null]
      BY <1>2 DEF Editor!DeleteCurrentNote
    <2> QED
      BY <2>1, LeaveStep DEF EditorInv, PageInv, RowsOK
  <1>3. ASSUME NEW c \in Calls,
               Editor!SaveNote(c) \/ \E op \in {"title", "folder"} : Editor!SaveField(c, op)
        PROVE  EditorInv'
    <2>1. CASE Editor!SaveNote(c)
      BY <2>1, SendStep DEF Editor!SaveNote
    <2>2. ASSUME NEW op \in {"title", "folder"}, Editor!SaveField(c, op)
          PROVE  EditorInv'
      BY <2>2, SendStep DEF Editor!SaveField
    <2> QED
      BY <1>3, <2>1, <2>2
  <1> QED
    BY <1>1, <1>2, <1>3, VisitStep, BootStep, EditStep, ServeStep, AnswerStep DEF Editor!Next

(* A page that is not there keeps closed.                                  *)
LEMMA ElsewhereStep ==
  ASSUME EditorInv, part # "note", part' = part, UNCHANGED page
  PROVE  EditorInv'
  <1>1. Editor!Closed'
    BY DEF page, EditorInv, PageInv, Editor!Closed
  <1>2. (part = "note" => RowsOK)'
    OBVIOUS
  <1> QED
    BY <1>1, <1>2, ClosedOK, PTL

----------------------------------------------------------------------------
(* The list.                                                               *)

ListTypes ==
    /\ List!TypeOK
    /\ part = "list" => List!Items \subseteq DOMAIN rows
    /\ part # "list" => List!Unloaded

(* What a task does that nothing disturbs: it will show what there is, and *)
(* the title will name it, or does already.                                *)
LoadOK(x) ==
    /\ x.pc \in {"folders", "delete"} => x.bar /\ x.notes = Null /\ x.files = Null
    /\ x.pc = "items" =>
         /\ x.want = filter
         /\ x.notes # Null => x.notes = List!Matching(filter, ListedNotes)
         /\ x.files # Null => x.files = List!Matching(filter, ListedFiles)
         /\ x.bar \/ title = filter.folder

LoadInv ==
    ~stale =>
      /\ \A t, s \in Calls : task[t] # List!NoTask /\ task[s] # List!NoTask => t = s
      /\ List!Idle => listed = List!Matching(filter, List!Items) /\ title = filter.folder
      /\ \A t \in Calls : task[t] # List!NoTask => LoadOK(task[t])

MeantInv == meant # {} => meant = selected

ListInv == ListTypes /\ LoadInv /\ MeantInv

LEMMA UnloadedOK ==
  List!Unloaded /\ folders \subseteq Folders /\ (part = "list" => List!Items \subseteq DOMAIN rows)
    => ListInv
  <1> SUFFICES ASSUME List!Unloaded, folders \subseteq Folders,
                      part = "list" => List!Items \subseteq DOMAIN rows
               PROVE  ListInv
    OBVIOUS
  <1>1. filter \in List!Filters /\ title \in Folders \cup {All}
    BY DEF List!Unloaded, List!NoFilter, List!Filters
  <1>2. task \in [Calls -> List!Running \cup {List!NoTask}]
    BY DEF List!Unloaded
  <1>3. List!TypeOK
    BY <1>1, <1>2 DEF List!Unloaded, List!TypeOK
  <1>4. stale /\ meant = {}
    BY DEF List!Unloaded
  <1> QED
    BY <1>3, <1>4 DEF ListInv, ListTypes, LoadInv, MeantInv

(* A task that begins.                                                     *)
LEMMA BeginStep ==
  ASSUME ListInv, part = "list", part' = part, NEW t \in Calls, NEW new \in List!Running,
         List!Begin(t, new), folders' \subseteq Folders, filter' \in List!Filters,
         List!Items \subseteq DOMAIN rows',
         UNCHANGED <<sidebar, title, listed, selecting, selected>>,
         meant' \in {meant, selected},
         List!Idle => stale \/ new.bar \/ (title = filter.folder => LoadOK(new)'),
         new.bar => LoadOK(new)'
  PROVE  ListInv'
  <1>1. /\ task[t] = List!NoTask /\ task' = [task EXCEPT ![t] = new]
        /\ stale' = IF List!Idle THEN stale /\ ~new.bar ELSE TRUE
    BY DEF List!Begin
  <1>2. /\ task'[t] = new /\ \A s \in Calls \ {t} : task'[s] = task[s]
        /\ task' \in [Calls -> List!Running \cup {List!NoTask}]
    BY <1>1 DEF ListInv, ListTypes, List!TypeOK
  <1>3. new # List!NoTask /\ new.bar \in BOOLEAN
    BY DEF List!Running, List!NoTask
  <1>4. List!TypeOK' /\ ListTypes'
    BY <1>1, <1>2, <1>3 DEF ListInv, ListTypes, List!TypeOK
  <1>5. MeantInv'
    BY DEF ListInv, MeantInv
  <1>6. ASSUME ~stale'
        PROVE  LoadInv'
    <2>1. List!Idle /\ (~stale \/ new.bar)
      BY <1>1, <1>3, <1>6
    <2>2. \A s \in Calls \ {t} : task'[s] = List!NoTask
      BY <1>2, <2>1 DEF List!Idle
    <2>3. ~List!Idle'
      BY <1>2, <1>3 DEF List!Idle
    <2>4. ~stale => title = filter.folder
      BY <2>1 DEF ListInv, LoadInv
    <2>5. LoadOK(new)'
      BY <2>1, <2>4
    <2>6. LoadOK(task[t])'
      BY <1>2, <2>5 DEF LoadOK
    <2> QED
      BY <2>2, <2>3, <2>6 DEF LoadInv
  <1> QED
    BY <1>4, <1>5, <1>6 DEF ListInv, LoadInv

LEMMA NewRefresh ==
  ASSUME NEW f \in List!Filters, NEW bar \in BOOLEAN, NEW x,
         x = List!Refreshing(List!Task("items", bar), f)
  PROVE  /\ x \in List!Running /\ x.pc = "items" /\ x.want = f /\ x.bar = bar
         /\ x.notes = Null /\ x.files = Null
  BY DEF List!Refreshing, List!Task, List!Asked, List!Running

(* Every change of the items is followed by a load.                        *)
LEMMA LoadStep ==
  ASSUME ListInv, part = "list", part' = part, NEW t \in Calls,
         NEW pc \in {"folders", "delete"}, List!Begin(t, List!Task(pc, TRUE)),
         folders' \subseteq Folders, filter' \in List!Filters,
         List!Items \subseteq DOMAIN rows', meant' \in {meant, selected},
         UNCHANGED <<sidebar, title, listed, selecting, selected>>
  PROVE  ListInv'
  <1> DEFINE new == List!Task(pc, TRUE)
  <1>1. new \in List!Running /\ new.bar /\ new.pc = pc /\ new.notes = Null /\ new.files = Null
    BY DEF List!Task, List!Running
  <1> HIDE DEF new
  <1>2. LoadOK(new)'
    BY <1>1 DEF LoadOK
  <1>3. List!Begin(t, new)
    BY DEF new
  <1> QED
    BY <1>1, <1>2, <1>3, BeginStep

LEMMA AskStep ==
  ASSUME ListInv, part = "list", part' = part, NEW t \in Calls, NEW f \in List!Filters,
         NEW bar \in BOOLEAN, bar \/ f.folder = filter.folder, List!Ask(t, f, bar)
  PROVE  ListInv'
  <1> DEFINE new == List!Refreshing(List!Task("items", bar), f)
  <1>1. /\ new \in List!Running /\ new.pc = "items" /\ new.want = f /\ new.bar = bar
        /\ new.notes = Null /\ new.files = Null
    BY NewRefresh
  <1> HIDE DEF new
  <1>2. /\ filter' = f /\ List!Begin(t, new)
        /\ UNCHANGED <<rows, folders, sidebar, title, listed, selecting, selected, meant>>
    BY DEF List!Ask, new
  <1>3. /\ bar => LoadOK(new)'
        /\ title = filter.folder => LoadOK(new)'
    BY <1>1, <1>2 DEF LoadOK
  <1>4. folders \subseteq Folders /\ List!Items \subseteq DOMAIN rows
    BY DEF ListInv, ListTypes, List!TypeOK
  <1> QED
    BY <1>1, <1>2, <1>3, <1>4, BeginStep

LEMMA ClickStep ==
  ASSUME ListInv, part = "list", part' = part, NEW t \in Calls, List!Click(t)
  PROVE  ListInv'
  <1>1. /\ folders \subseteq Folders /\ sidebar \subseteq Folders /\ filter \in List!Filters
        /\ List!Items \subseteq DOMAIN rows
    BY DEF ListInv, ListTypes, List!TypeOK
  <1>2. ASSUME NEW f \in Folders \cup {All}, List!PickFolder(t, f)
        PROVE  ListInv'
    BY <1>2, AskStep DEF List!PickFolder, List!Filters
  <1>3. CASE List!Search(t)
    <2>1. /\ [filter EXCEPT !.q = ~@] \in List!Filters
          /\ [filter EXCEPT !.q = ~@].folder = filter.folder
      BY <1>1 DEF List!Filters
    <2> QED
      BY <1>3, <2>1, AskStep DEF List!Search
  <1>4. ASSUME NEW i \in List!Items, NEW f \in Folders, List!Move(t, i, f)
        PROVE  ListInv'
    BY <1>1, <1>4, LoadStep DEF List!Move, List!Load
  <1>5. ASSUME NEW f \in ListedFiles, List!Upload(t, f) \/ List!DeletedInViewer(t, f)
        PROVE  ListInv'
    BY <1>1, <1>5, LoadStep DEF List!Upload, List!DeletedInViewer, List!Load
  <1>6. ASSUME NEW f \in Folders, List!DeleteFolder(t, f)
        PROVE  ListInv'
    <2>1. filter' \in List!Filters
      BY <1>1, <1>6 DEF List!DeleteFolder, List!NoFilter, List!Filters
    <2>2. List!Items \subseteq DOMAIN rows' /\ folders' \subseteq Folders
      BY <1>1, <1>6 DEF List!DeleteFolder
    <2> QED
      BY <1>6, <2>1, <2>2, LoadStep DEF List!DeleteFolder
  <1>7. CASE List!DeleteSelected(t)
    BY <1>1, <1>7, LoadStep DEF List!DeleteSelected
  <1> QED
    BY <1>2, <1>3, <1>4, <1>5, <1>6, <1>7 DEF List!Click

(* A step of a task under way.                                             *)
LEMMA TaskStep ==
  ASSUME ListInv, part = "list", part' = part, NEW t \in Calls, task[t] # List!NoTask,
         NEW x \in List!Running \cup {List!NoTask}, task' = [task EXCEPT ![t] = x],
         UNCHANGED <<filter, folders>>, sidebar' \subseteq Folders, title' \in Folders \cup {All},
         listed' \subseteq List!Items, selected' \subseteq List!Items, selecting' \in BOOLEAN,
         List!Items \subseteq DOMAIN rows', meant' = {} \/ UNCHANGED <<meant, selected>>,
         stale' = TRUE \/ stale' = stale,
         ~stale' => IF x = List!NoTask
                    THEN listed' = List!Matching(filter, List!Items)' /\ title' = filter.folder
                    ELSE LoadOK(x)'
  PROVE  ListInv'
  <1>1. /\ task'[t] = x /\ \A s \in Calls \ {t} : task'[s] = task[s]
        /\ task' \in [Calls -> List!Running \cup {List!NoTask}]
    BY DEF ListInv, ListTypes, List!TypeOK
  <1>2. ListTypes' /\ MeantInv'
    BY <1>1 DEF ListInv, ListTypes, List!TypeOK, MeantInv
  <1>3. ASSUME ~stale'
        PROVE  LoadInv'
    <2>1. ~stale
      BY <1>3
    <2>2. \A s \in Calls \ {t} : task'[s] = List!NoTask
      BY <1>1, <2>1 DEF ListInv, LoadInv
    <2>3. CASE x = List!NoTask
      <3>1. listed' = List!Matching(filter, List!Items)' /\ title' = filter.folder
        BY <1>3, <2>3
      <3> QED
        BY <1>1, <2>2, <2>3, <3>1 DEF LoadInv
    <2>4. CASE x # List!NoTask
      <3>1. LoadOK(x)'
        BY <1>3, <2>4
      <3>2. LoadOK(task[t])'
        BY <1>1, <3>1 DEF LoadOK
      <3>3. ~List!Idle'
        BY <1>1, <2>4 DEF List!Idle
      <3> QED
        BY <2>2, <3>2, <3>3 DEF LoadInv
    <2> QED
      BY <2>3, <2>4
  <1> QED
    BY <1>2, <1>3 DEF ListInv, LoadInv

LEMMA RunningTask ==
  ASSUME ListInv, NEW t \in Calls, task[t].pc # "none"
  PROVE  /\ task[t] # List!NoTask /\ task[t] \in List!Running
         /\ ~stale => LoadOK(task[t])
  BY DEF ListInv, ListTypes, LoadInv, List!TypeOK, List!NoTask

LEMMA MatchingRows ==
  ASSUME rows' = rows, filter' = filter
  PROVE  \A S : List!Matching(filter, S)' = List!Matching(filter, S)
  BY DEF List!Matching

LEMMA MatchingSplit ==
  List!Matching(filter, List!Items)
    = List!Matching(filter, ListedNotes) \cup List!Matching(filter, ListedFiles)
  BY DEF List!Matching, List!Items

LEMMA RefreshStep ==
  ASSUME ListInv, part = "list", part' = part, NEW t \in Calls,
         List!LoadFolders(t) \/ List!ServeNotes(t) \/ List!ServeFiles(t) \/ List!Render(t)
  PROVE  ListInv'
  <1> DEFINE x == task[t]
  <1>1. /\ x.pc \in {"folders", "items"}
        /\ UNCHANGED <<rows, folders, filter, selecting, selected, meant>>
        /\ x # List!NoTask /\ x \in List!Running /\ (~stale => LoadOK(x))
    BY RunningTask DEF List!LoadFolders, List!ServeNotes, List!ServeFiles, List!Render
  <1>2. /\ folders \subseteq Folders /\ sidebar \subseteq Folders /\ title \in Folders \cup {All}
        /\ filter \in List!Filters /\ listed \subseteq List!Items /\ selected \subseteq List!Items
        /\ selecting \in BOOLEAN /\ List!Items \subseteq DOMAIN rows
    BY DEF ListInv, ListTypes, List!TypeOK
  <1>3. ASSUME List!End(t), stale' = TRUE, UNCHANGED <<sidebar, title, listed>>
        PROVE  ListInv'
    BY <1>1, <1>2, <1>3, TaskStep DEF List!End
  <1>4. ASSUME NEW new \in List!Running, task' = [task EXCEPT ![t] = new],
               sidebar' \subseteq Folders,
               UNCHANGED <<title, listed>>,
               stale' = TRUE \/ (stale' = stale /\ (LoadOK(x) => LoadOK(new)))
        PROVE  ListInv'
    <2>1. new # List!NoTask
      BY <1>4 DEF List!Running, List!NoTask
    <2>2. LoadOK(new)' <=> LoadOK(new)
      BY <1>1, <1>4, MatchingRows DEF LoadOK
    <2>3. ~stale' => LoadOK(new)'
      BY <1>1, <1>4, <2>2
    <2> QED
      BY <1>1, <1>2, <1>4, <2>1, <2>3, TaskStep
  <1>5. CASE List!LoadFolders(t)
    <2> DEFINE new == List!Refreshing(x, filter)
    <2>1. x.pc = "folders"
      BY <1>5 DEF List!LoadFolders
    <2>2. /\ new \in List!Running /\ new.pc = "items" /\ new.want = filter /\ new.bar = x.bar
          /\ new.notes = x.notes /\ new.files = x.files
      BY <1>1, <1>2 DEF List!Refreshing, List!Asked, List!Running
    <2> HIDE DEF new
    <2>3. LoadOK(x) => LoadOK(new)
      BY <2>1, <2>2 DEF LoadOK
    <2>4. \/ /\ task' = [task EXCEPT ![t] = new] /\ sidebar' = folders /\ stale' = stale
             /\ UNCHANGED <<title, listed>>
          \/ List!End(t) /\ stale' = TRUE /\ UNCHANGED <<sidebar, title, listed>>
      BY <1>5 DEF List!LoadFolders, new
    <2> QED
      BY <1>2, <1>3, <1>4, <2>2, <2>3, <2>4
  <1>6. CASE List!ServeNotes(t)
    <2> DEFINE new == [x EXCEPT !.notes = List!Matching(x.want, ListedNotes)]
    <2>1. List!Matching(x.want, ListedNotes) \subseteq ListedNotes
      BY DEF List!Matching
    <2>2. /\ new \in List!Running /\ new.pc = x.pc /\ new.want = x.want /\ new.bar = x.bar
          /\ new.notes = List!Matching(x.want, ListedNotes) /\ new.files = x.files
      BY <1>1, <2>1 DEF List!Running
    <2> HIDE DEF new
    <2>3. x.pc = "items" /\ (LoadOK(x) => LoadOK(new))
      BY <1>6, <2>2 DEF LoadOK, List!ServeNotes
    <2>4. \/ /\ task' = [task EXCEPT ![t] = new] /\ stale' = stale
             /\ UNCHANGED <<sidebar, title, listed>>
          \/ List!End(t) /\ stale' = TRUE /\ UNCHANGED <<sidebar, title, listed>>
      BY <1>6 DEF List!ServeNotes, new
    <2> QED
      BY <1>2, <1>3, <1>4, <2>2, <2>3, <2>4
  <1>7. CASE List!ServeFiles(t)
    <2>1. PICK F \in {{}, List!Matching(x.want, ListedFiles)} :
            /\ task' = [task EXCEPT ![t].files = F] /\ UNCHANGED <<sidebar, title, listed>>
            /\ stale' = TRUE \/ (F = List!Matching(x.want, ListedFiles) /\ stale' = stale)
      BY <1>7 DEF List!ServeFiles
    <2> DEFINE new == [x EXCEPT !.files = F]
    <2>2. F \subseteq ListedFiles
      BY DEF List!Matching
    <2>3. /\ new \in List!Running /\ new.pc = x.pc /\ new.want = x.want /\ new.bar = x.bar
          /\ new.files = F /\ new.notes = x.notes
      BY <1>1, <2>2 DEF List!Running
    <2>4. task' = [task EXCEPT ![t] = new]
      BY <2>1
    <2> HIDE DEF new
    <2>5. F = List!Matching(x.want, ListedFiles) => (LoadOK(x) => LoadOK(new))
      BY <1>7, <2>3 DEF LoadOK, List!ServeFiles
    <2> QED
      BY <1>2, <1>4, <2>1, <2>3, <2>4, <2>5
  <1>8. CASE List!Render(t)
    <2>1. /\ x.pc = "items" /\ x.notes # Null /\ x.files # Null /\ listed' = x.notes \cup x.files
          /\ title' = IF x.bar THEN filter.folder ELSE title
          /\ task' = [task EXCEPT ![t] = List!NoTask] /\ UNCHANGED <<sidebar, stale>>
      BY <1>8 DEF List!Render, List!End
    <2>2. LoadOK(x) => listed' = List!Matching(filter, List!Items) /\ title' = filter.folder
      BY <2>1, MatchingSplit DEF LoadOK
    <2>3. ~stale' => listed' = List!Matching(filter, List!Items)' /\ title' = filter.folder
      BY <1>1, <2>1, <2>2, MatchingRows
    <2>4. title' \in Folders \cup {All} /\ listed' \subseteq List!Items
      BY <1>1, <1>2, <2>1 DEF List!Filters, List!Items, List!Running
    <2> QED
      BY <1>1, <1>2, <2>1, <2>3, <2>4, TaskStep
  <1> QED
    BY <1>5, <1>6, <1>7, <1>8

LEMMA DeleteStep ==
  ASSUME ListInv, part = "list", part' = part, NEW t \in Calls,
         List!DeleteNext(t) \/ List!DeleteDone(t)
  PROVE  ListInv'
  <1> DEFINE x == task[t]
  <1>1. /\ x.pc = "delete" /\ UNCHANGED <<folders, filter, sidebar, title, listed>>
        /\ x # List!NoTask /\ x \in List!Running /\ (~stale => LoadOK(x))
    BY RunningTask DEF List!DeleteNext, List!DeleteDone
  <1>2. /\ folders \subseteq Folders /\ sidebar \subseteq Folders /\ title \in Folders \cup {All}
        /\ listed \subseteq List!Items /\ selected \subseteq List!Items
        /\ selecting \in BOOLEAN /\ List!Items \subseteq DOMAIN rows
    BY DEF ListInv, ListTypes, List!TypeOK
  <1>3. CASE List!DeleteDone(t)
    <2> DEFINE new == List!Task("folders", TRUE)
    <2>1. new \in List!Running /\ new # List!NoTask /\ new.pc = "folders" /\ new.bar = TRUE
          /\ new.notes = Null /\ new.files = Null
      BY DEF List!Task, List!Running, List!NoTask
    <2> HIDE DEF new
    <2>2. LoadOK(new)'
      BY <2>1 DEF LoadOK
    <2>3. /\ task' = [task EXCEPT ![t] = new] /\ selected' = {} /\ selecting' = FALSE
          /\ meant' = {} /\ UNCHANGED <<rows, stale>>
      BY <1>3 DEF List!DeleteDone, new
    <2> QED
      BY <1>1, <1>2, <2>1, <2>2, <2>3, TaskStep
  <1>4. CASE List!DeleteNext(t)
    <2>1. PICK i \in List!ToVisit(x) :
            \/ /\ rows' = [rows EXCEPT ![i] = Null]
               /\ task' = [task EXCEPT ![t].gone = @ \cup {i}]
               /\ UNCHANGED <<meant, stale>>
            \/ List!End(t) /\ stale' = TRUE /\ meant' = {} /\ UNCHANGED rows
      BY <1>4 DEF List!DeleteNext
    <2>2. i \in List!Items /\ UNCHANGED <<selecting, selected>>
      BY <1>2, <1>4 DEF List!ToVisit, List!DeleteNext
    <2>3. PICK new \in List!Running :
            /\ new = [x EXCEPT !.gone = @ \cup {i}] /\ new # List!NoTask /\ new.pc = "delete"
            /\ new.bar = x.bar /\ new.notes = x.notes /\ new.files = x.files
      <3> DEFINE y == [x EXCEPT !.gone = @ \cup {i}]
      <3>1. /\ y \in List!Running /\ y # List!NoTask /\ y.pc = "delete"
            /\ y.bar = x.bar /\ y.notes = x.notes /\ y.files = x.files
        BY <1>1, <2>2 DEF List!Running, List!NoTask
      <3> HIDE DEF y
      <3> QED
        BY <3>1 DEF y
    <2>4. LoadOK(x) => LoadOK(new)'
      BY <1>1, <2>3 DEF LoadOK
    <2>5. CASE /\ rows' = [rows EXCEPT ![i] = Null] /\ task' = [task EXCEPT ![t] = new]
               /\ UNCHANGED <<meant, stale>>
      BY <1>1, <1>2, <2>2, <2>3, <2>4, <2>5, TaskStep
    <2>6. CASE List!End(t) /\ stale' = TRUE /\ meant' = {} /\ UNCHANGED rows
      BY <1>1, <1>2, <2>2, <2>6, TaskStep DEF List!End
    <2> QED
      BY <2>1, <2>3, <2>5, <2>6
  <1> QED
    BY <1>3, <1>4

(* The selection changes under a deletion, and nothing else does.          *)
LEMMA ToggleStep ==
  ASSUME ListInv, part = "list", part' = part,
         List!ToggleSelectMode \/ \E i \in List!Items : List!ToggleItem(i)
  PROVE  ListInv'
  <1>1. /\ UNCHANGED <<rows, folders, sidebar, filter, title, listed, stale>> /\ meant' = {}
        /\ selected' \subseteq List!Items /\ selecting' \in BOOLEAN
    BY DEF List!ToggleSelectMode, List!ToggleItem, ListInv, ListTypes, List!TypeOK
  <1>2. /\ task' \in [Calls -> List!Running \cup {List!NoTask}]
        /\ \A t \in Calls : /\ task'[t] = List!NoTask <=> task[t] = List!NoTask
                            /\ LoadOK(task[t]) => LoadOK(task[t])'
    <2>1. CASE List!ToggleSelectMode
      BY <1>1, <2>1, MatchingRows
      DEF List!ToggleSelectMode, ListInv, ListTypes, List!TypeOK, LoadOK
    <2>2. ASSUME NEW i \in List!Items, List!ToggleItem(i)
          PROVE  /\ task' \in [Calls -> List!Running \cup {List!NoTask}]
                 /\ \A t \in Calls : /\ task'[t] = List!NoTask <=> task[t] = List!NoTask
                                     /\ LoadOK(task[t]) => LoadOK(task[t])'
      <3> DEFINE new(t) == [task[t] EXCEPT !.gone = @ \ {i}]
      <3>1. task' = [t \in Calls |-> IF task[t].pc = "delete" THEN new(t) ELSE task[t]]
        BY <2>2 DEF List!ToggleItem
      <3>2. ASSUME NEW t \in Calls
            PROVE  /\ task'[t] \in List!Running \cup {List!NoTask}
                   /\ task'[t] = List!NoTask <=> task[t] = List!NoTask
                   /\ LoadOK(task[t]) => LoadOK(task[t])'
        <4>1. CASE task[t].pc = "delete"
          <5>1. task[t] \in List!Running /\ task[t] # List!NoTask
            BY <4>1, RunningTask
          <5>2. /\ new(t) \in List!Running /\ new(t) # List!NoTask /\ new(t).pc = "delete"
                /\ new(t).bar = task[t].bar /\ new(t).notes = task[t].notes
                /\ new(t).files = task[t].files
            BY <4>1, <5>1 DEF List!Running, List!NoTask
          <5> HIDE DEF new
          <5>3. task'[t] = new(t)
            BY <3>1, <4>1
          <5> QED
            BY <4>1, <5>1, <5>2, <5>3 DEF LoadOK
        <4>2. CASE task[t].pc # "delete"
          <5>1. task'[t] = task[t]
            BY <3>1, <4>2
          <5> QED
            BY <1>1, <5>1, MatchingRows DEF ListInv, ListTypes, List!TypeOK, LoadOK
        <4> QED
          BY <4>1, <4>2
      <3> HIDE DEF new
      <3>3. task' \in [Calls -> List!Running \cup {List!NoTask}]
        BY <3>1, <3>2
      <3> QED
        BY <3>2, <3>3
    <2> QED
      BY <2>1, <2>2
  <1>3. ListTypes' /\ MeantInv'
    BY <1>1, <1>2 DEF ListInv, ListTypes, List!TypeOK, MeantInv
  <1>4. LoadInv'
    BY <1>1, <1>2, MatchingRows DEF ListInv, LoadInv, List!Idle
  <1> QED
    BY <1>3, <1>4 DEF ListInv

LEMMA ListStep ==
  ASSUME ListInv, part = "list", part' = part, ListSteps
  PROVE  ListInv'
  <1>1. ASSUME NEW t \in Calls, List!Load(t), UNCHANGED <<rows, folders>>
        PROVE  ListInv'
    BY <1>1, LoadStep DEF List!Load, ListInv, ListTypes, List!TypeOK
  <1> QED
    BY <1>1, ClickStep, RefreshStep, DeleteStep, ToggleStep DEF ListSteps, List!Next, List!Step

LEMMA UnloadedStep ==
  ASSUME ListInv, part # "list", part' = part, UNCHANGED view
  PROVE  ListInv'
  <1>1. List!Unloaded' /\ folders' \subseteq Folders
    BY DEF view, ListInv, ListTypes, List!Unloaded, List!TypeOK
  <1>2. (folders \subseteq Folders)' /\ (part = "list" => List!Items \subseteq DOMAIN rows)'
    BY <1>1
  <1> QED
    BY <1>1, <1>2, UnloadedOK, PTL

(* What a deletion deletes was selected, and is what the user agreed to if *)
(* there is such a thing still.                                            *)
LEMMA MeantStep ==
  ASSUME ListInv, part = "list", ListSteps, NEW t \in Calls, NEW i \in List!Items,
         task[t].pc = "delete", task'[t] # task[t], rows[i] # Null, rows'[i] = Null, meant # {}
  PROVE  i \in meant
  <1>1. ASSUME NEW s \in Calls, List!Click(s)
        PROVE  FALSE
    <2>1. PICK new : List!Begin(s, new)
      BY <1>1 DEF List!Click, List!PickFolder, List!Search, List!Ask, List!Move, List!Upload,
         List!DeletedInViewer, List!Load, List!DeleteFolder, List!DeleteSelected
    <2>2. task[s] = List!NoTask /\ task' = [task EXCEPT ![s] = new]
      BY <2>1 DEF List!Begin
    <2> QED
      BY <2>2 DEF List!NoTask, ListInv, ListTypes, List!TypeOK
  <1>2. ASSUME NEW s \in Calls, List!DeleteNext(s)
        PROVE  i \in meant
    <2>1. PICK j \in List!ToVisit(task[s]) : rows' = [rows EXCEPT ![j] = Null] \/ UNCHANGED rows
      BY <1>2 DEF List!DeleteNext
    <2>2. i = j
      BY <2>1 DEF ListInv, ListTypes
    <2> QED
      BY <2>2 DEF List!ToVisit, ListInv, MeantInv
  <1>3. UNCHANGED rows \/ \E s \in Calls : List!Click(s) \/ List!DeleteNext(s)
    BY DEF ListSteps, List!Next, List!Step, List!LoadFolders, List!ServeNotes, List!ServeFiles,
       List!Render, List!DeleteDone, List!ToggleSelectMode, List!ToggleItem
  <1> QED
    BY <1>1, <1>2, <1>3

----------------------------------------------------------------------------
(* The viewer.                                                             *)

(* A call under way is of a file of its kind.                              *)
AskedOK(x) ==
    /\ DOMAIN x = {"op", "file", "deg", "data", "state", "seen"}
    /\ x.file \in Documents /\ x.op \in {"pdf", "markdown", "turn"}
    /\ x.op # "turn" => x.op = Kind[x.file]
    /\ x.op = "turn" =>
         /\ Kind[x.file] = "image" /\ x.deg \in {90, 180, 270}
         /\ x.state \in {"patch", "fetch", "put", "done"}
         /\ x.state = "put" => Viewer!IsPicture(x.data)

DocumentsOK ==
    \A f \in Documents :
        /\ f \in DOMAIN rows
        /\ Kind[f] = "image" /\ rows[f] # Null =>
             {"mime", "picture"} \subseteq DOMAIN rows[f] /\ Viewer!IsPicture(rows[f].picture)

ViewerTypes ==
    /\ Viewer!TypeOK
    /\ part # "viewer" => Viewer!Closed
    /\ part = "viewer" => DocumentsOK
    /\ Calls \subseteq DOMAIN asked
    /\ \A c \in Calls : asked[c] # Viewer!NoCall => AskedOK(asked[c])
    /\ \A f \in Documents : /\ f \in DOMAIN cache
                            /\ cache[f] # Null => Viewer!IsPicture(cache[f])
    /\ visible /\ Kind[name] = "image" => Kind[viewed.file] = "image"

(* Whatever may still arrive is the file that is named, or goes elsewhere. *)
ShownInv ==
    visible /\ ~overtaken =>
      /\ viewed.file = name
      /\ \A c \in Calls : asked[c].op \in {Kind[name], "turn"} => asked[c].file = name
      /\ Kind[name] = "image" \/ ~Viewer!OnItsWay(Kind[name]) => element[Kind[name]] = name

(* How far a turn has come that was seen as it will be.                    *)
TurnOK(x) ==
    rows[x.file] # Null =>
      /\ x.state \in {"patch", "fetch"} => x.seen = Viewer!Seen(rows[x.file].picture, x.deg)
      /\ x.state = "fetch" => cache[x.file] \in {Null, rows[x.file].picture}
      /\ x.state = "put" => x.data = x.seen
      /\ x.state = "done" => rows[x.file].picture = x.seen

SeenInv ==
    \A c \in Calls :
        asked[c].op = "turn" /\ asked[c].seen # Null =>
          /\ \A d \in Calls \ {c} : asked[d].op # "turn"
          /\ TurnOK(asked[c])

ViewerInv == ViewerTypes /\ ShownInv /\ SeenInv

(* The server turns a picture as the browser does (RotationProofs).        *)
Turns == INSTANCE RotationProofs WITH Files <- Documents, Requests <- Calls, current <- viewed

LEMMA SameTurns ==
  ASSUME NEW p, NEW deg
  PROVE  /\ Viewer!rotate(p, deg) = Turns!rotate(p, deg)
         /\ Viewer!Seen(p, deg) = Turns!Seen(p, deg)
  BY DEF Viewer!rotate, Turns!rotate, Viewer!Seen, Turns!Seen, Viewer!QuarterTurn,
     Turns!QuarterTurn, Viewer!RotWidth, Turns!RotWidth, Viewer!RotHeight, Turns!RotHeight,
     Viewer!Sideways, Turns!Sideways, Viewer!Points, Turns!Points, Viewer!rotPoint,
     Turns!rotPoint

LEMMA TurnedPicture ==
  ASSUME NEW p, Viewer!IsPicture(p), NEW deg \in {90, 180, 270}
  PROVE  /\ Viewer!Baked(p, deg) = Viewer!Seen(p, deg)
         /\ Viewer!IsPicture(Viewer!Seen(p, deg))
  <1> DEFINE w == p.w
             h == p.h
             C == {p.at[q] : q \in Viewer!Points(w, h)}
             W == Turns!RotWidth(w, h, deg)
             H == Turns!RotHeight(w, h, deg)
             b == Turns!Seen(p, deg)
  <1>1. w \in Nat \ {0} /\ h \in Nat \ {0} /\ W \in Nat \ {0} /\ H \in Nat \ {0}
    BY DEF Viewer!IsPicture, Turns!RotWidth, Turns!RotHeight, Turns!Sideways
  <1>2. \A x, y : Turns!Points(x, y) = Viewer!Points(x, y)
    BY DEF Turns!Points, Viewer!Points
  <1>3. p \in Turns!Pictures(w, h, C)
    <2> DEFINE at == [q \in Viewer!Points(w, h) |-> p.at[q]]
    <2>1. p = [w |-> w, h |-> h, at |-> at]
      BY DEF Viewer!IsPicture
    <2>2. at \in [Viewer!Points(w, h) -> C]
      OBVIOUS
    <2> HIDE DEF at, w, h, C
    <2> QED
      BY <1>2, <2>1, <2>2 DEF Turns!Pictures
  <1>4. deg \in Turns!Degrees
    BY DEF Turns!Degrees
  <1> HIDE DEF w, h, C
  <1>5. b = Turns!rotate(p, deg)
    BY <1>1, <1>3, <1>4, Turns!TurnedAsSeen
  <1>6. b \in Turns!Pictures(W, H, C)
    BY <1>1, <1>3, <1>4, Turns!SeenIsPicture
  <1> HIDE DEF W, H, b
  <1>7. /\ b.w = W /\ b.h = H /\ b = [w |-> b.w, h |-> b.h, at |-> b.at]
        /\ b.at = [q \in Viewer!Points(W, H) |-> b.at[q]]
    BY <1>2, <1>6 DEF Turns!Pictures
  <1>8. Viewer!IsPicture(b)
    BY <1>1, <1>7 DEF Viewer!IsPicture
  <1> QED
    BY <1>5, <1>8, SameTurns DEF Viewer!Baked, b

LEMMA ShutOK ==
  Viewer!Closed /\ (part = "viewer" => DocumentsOK) => ViewerInv
  <1> SUFFICES ASSUME Viewer!Closed, part = "viewer" => DocumentsOK
               PROVE  ViewerInv
    OBVIOUS
  <1>1. Viewer!TypeOK
    BY DEF Viewer!Closed, Viewer!TypeOK, Viewer!Kinds, Viewer!NoCall, Viewer!Degrees
  <1> QED
    BY <1>1 DEF Viewer!Closed, Viewer!NoCall, ViewerInv, ViewerTypes, ShownInv, SeenInv

(* The viewer opens: what is on its way of that kind overtakes it.         *)
LEMMA OpenImageStep ==
  ASSUME ViewerInv, part = "viewer", part' = part, NEW f \in Documents, Viewer!OpenImage(f)
  PROVE  ViewerInv'
  <1>1. /\ Kind[f] = "image" /\ rows[f] # Null /\ visible' = TRUE /\ name' = f
        /\ overtaken' = Viewer!OnItsWay("image") /\ viewed' = [file |-> f, mime |-> rows[f].mime]
        /\ imgRot' = 0 /\ element' = [element EXCEPT !["image"] = f] /\ UNCHANGED <<rows, asked>>
    BY DEF Viewer!OpenImage, Viewer!OpenViewer
  <1>2. cache' = cache \/ cache' = [cache EXCEPT ![f] = rows[f].picture]
    BY DEF Viewer!OpenImage, Viewer!Loaded
  <1>3. DocumentsOK /\ \A g \in Documents : g \in DOMAIN cache
    BY DEF ViewerInv, ViewerTypes
  <1>4. \A g \in Documents : /\ g \in DOMAIN cache'
                             /\ cache'[g] # cache[g] => cache'[g] = rows[g].picture /\ g = f
    BY <1>2, <1>3
  <1>5. Viewer!TypeOK'
    BY <1>1, KindAssumption
    DEF ViewerInv, ViewerTypes, Viewer!TypeOK, Viewer!Kinds, Viewer!Degrees, Viewer!OnItsWay
  <1>6. ViewerTypes'
    <2>1. \A g \in Documents : cache'[g] # Null => Viewer!IsPicture(cache'[g])
      BY <1>1, <1>3, <1>4 DEF DocumentsOK, ViewerInv, ViewerTypes
    <2>2. DocumentsOK'
      BY <1>1, <1>3 DEF DocumentsOK
    <2>3. \A c \in Calls : asked'[c] # Viewer!NoCall => AskedOK(asked[c])'
      BY <1>1 DEF ViewerInv, ViewerTypes, AskedOK
    <2> QED
      BY <1>1, <1>4, <1>5, <2>1, <2>2, <2>3 DEF ViewerInv, ViewerTypes
  <1>7. ShownInv'
    BY <1>1 DEF ViewerInv, ViewerTypes, Viewer!TypeOK, Viewer!Kinds, ShownInv, Viewer!OnItsWay
  <1>8. SeenInv'
    <2> SUFFICES ASSUME NEW c \in Calls, asked[c].op = "turn", asked[c].seen # Null
                 PROVE  TurnOK(asked[c])'
      BY <1>1 DEF ViewerInv, SeenInv
    <2>1. asked[c].file \in Documents /\ TurnOK(asked[c])
      BY DEF ViewerInv, ViewerTypes, AskedOK, Viewer!NoCall, SeenInv
    <2>2. asked'[c] = asked[c] /\ UNCHANGED rows
      BY <1>1
    <2> QED
      BY <1>4, <2>1, <2>2 DEF TurnOK
  <1> QED
    BY <1>6, <1>7, <1>8 DEF ViewerInv

LEMMA OpenDocumentStep ==
  ASSUME ViewerInv, part = "viewer", part' = part, NEW c \in Calls, NEW f \in Documents,
         Viewer!OpenDocument(c, f)
  PROVE  ViewerInv'
  <1> DEFINE new == Viewer!Call(Kind[f], f)
  <1>1. /\ Kind[f] # "image" /\ asked[c] = Viewer!NoCall /\ visible' = TRUE /\ name' = f
        /\ overtaken' = Viewer!OnItsWay(Kind[f]) /\ viewed' = [file |-> f, mime |-> Kind[f]]
        /\ asked' = [asked EXCEPT ![c] = new] /\ UNCHANGED <<rows, imgRot, element, cache>>
    BY DEF Viewer!OpenDocument, Viewer!OpenViewer
  <1>2. Kind[f] \in {"pdf", "markdown"}
    BY <1>1, KindAssumption DEF Viewer!Kinds
  <1>3. /\ new.op = Kind[f] /\ new.file = f /\ AskedOK(new)
        /\ new # Viewer!NoCall
    BY <1>2 DEF Viewer!Call, AskedOK, Viewer!NoCall
  <1> HIDE DEF new
  <1>4. /\ asked'[c] = new /\ Calls \subseteq DOMAIN asked'
        /\ \A d \in Calls \ {c} : asked'[d] = asked[d]
    BY <1>1 DEF ViewerInv, ViewerTypes
  <1>5. Viewer!TypeOK'
    BY <1>1, <1>2, <1>3, <1>4, KindAssumption
    DEF ViewerInv, ViewerTypes, Viewer!TypeOK, Viewer!Kinds, Viewer!OnItsWay
  <1>6. ViewerTypes'
    <2>1. \A d \in Calls : asked'[d] # Viewer!NoCall => AskedOK(asked[d])'
      BY <1>3, <1>4 DEF ViewerInv, ViewerTypes, AskedOK
    <2>2. DocumentsOK'
      BY <1>1 DEF DocumentsOK, ViewerInv, ViewerTypes
    <2> QED
      BY <1>1, <1>2, <1>4, <1>5, <2>1, <2>2 DEF ViewerInv, ViewerTypes
  <1>7. ShownInv'
    BY <1>1, <1>2, <1>3, <1>4 DEF ShownInv, Viewer!OnItsWay
  <1>8. SeenInv'
    <2> SUFFICES ASSUME NEW d \in Calls, asked'[d].op = "turn", asked'[d].seen # Null
                 PROVE  /\ \A e \in Calls \ {d} : asked'[e].op # "turn"
                        /\ TurnOK(asked[d])'
      BY DEF SeenInv
    <2>1. d # c /\ asked'[d] = asked[d]
      BY <1>2, <1>3, <1>4
    <2>2. TurnOK(asked[d]) /\ \A e \in Calls \ {d} : asked[e].op # "turn"
      BY <2>1 DEF ViewerInv, SeenInv
    <2> QED
      BY <1>1, <1>2, <1>3, <1>4, <2>1, <2>2 DEF TurnOK
  <1> QED
    BY <1>6, <1>7, <1>8 DEF ViewerInv

(* A step that takes call c on, or ends it, and shows nothing else.        *)
LEMMA DocumentArrivesStep ==
  ASSUME ViewerInv, part = "viewer", part' = part, NEW c \in Calls, Viewer!DocumentArrives(c)
  PROVE  ViewerInv'
  <1> DEFINE f == asked[c].file
  <1>1. /\ asked[c].op \in {"pdf", "markdown"} /\ asked' = [asked EXCEPT ![c] = Viewer!NoCall]
        /\ UNCHANGED <<rows, visible, name, viewed, imgRot, cache>>
        /\ \/ element' = [element EXCEPT ![Kind[f]] = f] /\ UNCHANGED overtaken
           \/ overtaken' = TRUE /\ UNCHANGED element
    BY DEF Viewer!DocumentArrives, Viewer!Place
  <1>2. f \in Documents /\ asked[c].op = Kind[f]
    BY <1>1 DEF ViewerInv, ViewerTypes, AskedOK, Viewer!NoCall
  <1>3. /\ asked'[c] = Viewer!NoCall /\ Calls \subseteq DOMAIN asked'
        /\ \A d \in Calls \ {c} : asked'[d] = asked[d]
    BY <1>1 DEF ViewerInv, ViewerTypes
  <1> HIDE DEF f
  <1>4. Viewer!TypeOK'
    <2>1. Viewer!TypeOK /\ Kind[f] \in Viewer!Kinds
      BY <1>2, KindAssumption DEF ViewerInv, ViewerTypes
    <2>2. element' \in [Viewer!Kinds -> Documents \cup {Null}] /\ overtaken' \in BOOLEAN
      BY <1>1, <1>2, <2>1 DEF Viewer!TypeOK
    <2>3. \A d \in Calls : /\ asked'[d].op \in {"none"} \cup Viewer!Kinds \cup {"turn"}
                           /\ asked'[d] # Viewer!NoCall => asked'[d].file \in Documents
      BY <1>3, <2>1 DEF Viewer!TypeOK, Viewer!NoCall
    <2> QED
      BY <1>1, <2>1, <2>2, <2>3 DEF Viewer!TypeOK
  <1>5. ViewerTypes'
    <2>1. \A d \in Calls : asked'[d] # Viewer!NoCall => AskedOK(asked[d])'
      BY <1>3 DEF ViewerInv, ViewerTypes, AskedOK
    <2>2. DocumentsOK'
      BY <1>1 DEF DocumentsOK, ViewerInv, ViewerTypes
    <2> QED
      BY <1>1, <1>3, <1>4, <2>1, <2>2 DEF ViewerInv, ViewerTypes
  <1>6. ShownInv'
    <2> SUFFICES ASSUME visible, ~overtaken'
                 PROVE  /\ viewed.file = name
                        /\ \A d \in Calls : asked'[d].op \in {Kind[name], "turn"} =>
                                              asked'[d].file = name
                        /\ Kind[name] = "image" \/ ~Viewer!OnItsWay(Kind[name])'
                             => element'[Kind[name]] = name
      BY <1>1 DEF ShownInv
    <2>1. /\ ~overtaken /\ element' = [element EXCEPT ![Kind[f]] = f] /\ viewed.file = name
          /\ \A d \in Calls : asked[d].op \in {Kind[name], "turn"} => asked[d].file = name
          /\ Kind[name] = "image" \/ ~Viewer!OnItsWay(Kind[name]) => element[Kind[name]] = name
      BY <1>1 DEF ViewerInv, ShownInv
    <2>2. \A d \in Calls : asked'[d].op \in {Kind[name], "turn"} => asked'[d].file = name
      BY <1>3, <2>1, KindAssumption DEF Viewer!NoCall, Viewer!Kinds, ViewerInv, ViewerTypes,
                                          Viewer!TypeOK
    <2>3. element \in [Viewer!Kinds -> Documents \cup {Null}] /\ Kind[name] \in Viewer!Kinds
      BY KindAssumption DEF ViewerInv, ViewerTypes, Viewer!TypeOK
    <2>4. CASE Kind[f] = Kind[name]
      <3>1. f = name
        BY <1>2, <2>1, <2>4 DEF f
      <3>2. element'[Kind[name]] = name
        BY <2>1, <2>3, <3>1
      <3> QED
        BY <2>1, <2>2, <3>2
    <2>5. CASE Kind[f] # Kind[name]
      <3>1. element'[Kind[name]] = element[Kind[name]]
        BY <2>1, <2>3, <2>5
      <3>2. Viewer!OnItsWay(Kind[name]) => Viewer!OnItsWay(Kind[name])'
        BY <1>1, <1>2, <1>3, <2>5 DEF Viewer!OnItsWay
      <3> QED
        BY <2>1, <2>2, <3>1, <3>2
    <2> QED
      BY <2>4, <2>5
  <1>7. SeenInv'
    <2> SUFFICES ASSUME NEW d \in Calls, asked'[d].op = "turn", asked'[d].seen # Null
                 PROVE  /\ \A e \in Calls \ {d} : asked'[e].op # "turn"
                        /\ TurnOK(asked[d])'
      BY DEF SeenInv
    <2>1. d # c /\ asked'[d] = asked[d]
      BY <1>3 DEF Viewer!NoCall
    <2>2. TurnOK(asked[d]) /\ \A e \in Calls \ {d} : asked[e].op # "turn"
      BY <2>1 DEF ViewerInv, SeenInv
    <2> QED
      BY <1>1, <1>3, <2>1, <2>2 DEF TurnOK, Viewer!NoCall
  <1> QED
    BY <1>5, <1>6, <1>7 DEF ViewerInv

(* What is open closes, and what was to arrive may.                        *)
LEMMA ShutStep ==
  ASSUME ViewerInv, part = "viewer", part' = part, Viewer!CloseViewer \/ Viewer!DeleteFile
  PROVE  ViewerInv'
  <1>1. /\ visible' = FALSE /\ name' = Null /\ viewed' = Null
        /\ element' = [element EXCEPT !["image"] = Null, !["markdown"] = Null]
        /\ UNCHANGED <<imgRot, cache, asked, overtaken>>
        /\ \/ rows' = rows
           \/ rows' = [rows EXCEPT ![viewed.file] = Null]
    BY DEF Viewer!CloseViewer, Viewer!DeleteFile, Viewer!ShutViewer
  <1>2. DocumentsOK /\ ViewerTypes
    BY DEF ViewerInv, ViewerTypes
  <1>3. \A f \in Documents : f \in DOMAIN rows' /\ rows'[f] \in {Null, rows[f]}
    BY <1>1, <1>2 DEF DocumentsOK
  <1>4. Viewer!TypeOK'
    BY <1>1, <1>2 DEF ViewerTypes, Viewer!TypeOK, Viewer!Kinds
  <1>5. ViewerTypes'
    <2>1. DocumentsOK'
      BY <1>2, <1>3 DEF DocumentsOK
    <2> QED
      BY <1>1, <1>2, <1>4, <2>1 DEF ViewerTypes, AskedOK
  <1>6. ShownInv'
    BY <1>1 DEF ShownInv
  <1>7. SeenInv'
    <2> SUFFICES ASSUME NEW c \in Calls, asked[c].op = "turn", asked[c].seen # Null
                 PROVE  TurnOK(asked[c])'
      BY <1>1 DEF ViewerInv, SeenInv
    <2>1. asked[c].file \in Documents /\ TurnOK(asked[c])
      BY DEF ViewerInv, ViewerTypes, AskedOK, Viewer!NoCall, SeenInv
    <2> QED
      BY <1>1, <1>3, <2>1 DEF TurnOK
  <1> QED
    BY <1>5, <1>6, <1>7 DEF ViewerInv

LEMMA RotateStep ==
  ASSUME ViewerInv, part = "viewer", part' = part, NEW by \in {0, 90, 270}, Viewer!Rotate(by)
  PROVE  ViewerInv'
  <1>1. /\ imgRot' = IF by = 0 THEN 0 ELSE (imgRot + by) % 360
        /\ UNCHANGED <<rows, visible, name, viewed, img, element, cache, asked, overtaken>>
    BY DEF Viewer!Rotate, Viewer!TurnedBy
  <1>2. imgRot' \in Viewer!Degrees
    BY <1>1 DEF ViewerInv, ViewerTypes, Viewer!TypeOK, Viewer!Degrees
  <1>3. ViewerTypes'
    BY <1>1, <1>2 DEF ViewerInv, ViewerTypes, Viewer!TypeOK, DocumentsOK, AskedOK
  <1> QED
    BY <1>1, <1>3 DEF ViewerInv, ShownInv, SeenInv, TurnOK, Viewer!OnItsWay

(* A turn that is asked for: of what is seen, if it is the only one.       *)
LEMMA SaveRotationStep ==
  ASSUME ViewerInv, part = "viewer", part' = part, NEW c \in Calls, Viewer!SaveRotation(c)
  PROVE  ViewerInv'
  <1> DEFINE f == viewed.file
             way == IF viewed.mime \in Rotatable THEN "patch" ELSE "fetch"
             first == \A d \in Calls : asked[d].op # "turn"
             true == rows[f] # Null /\ img = rows[f].picture /\ cache[f] \in {Null, img}
             seen == IF first /\ true THEN Viewer!Seen(img, imgRot) ELSE Null
             new == [Viewer!Call("turn", f) EXCEPT !.deg = imgRot, !.state = way, !.seen = seen]
  <1>1. /\ visible /\ Kind[name] = "image" /\ imgRot # 0 /\ asked[c] = Viewer!NoCall
        /\ asked' = [d \in Calls |->
                      CASE d = c -> new
                        [] d # c /\ asked[d].op = "turn" -> [asked[d] EXCEPT !.seen = Null]
                        [] OTHER -> asked[d]]
        /\ UNCHANGED <<rows, visible, name, viewed, imgRot, img, element, cache, overtaken>>
    BY DEF Viewer!SaveRotation
  <1>2. f \in Documents /\ Kind[f] = "image" /\ imgRot \in {90, 180, 270}
    BY <1>1 DEF ViewerInv, ViewerTypes, Viewer!TypeOK, Viewer!Degrees
  <1>3. /\ new.op = "turn" /\ new.file = f /\ new.deg = imgRot /\ new.state = way
        /\ new.seen = seen /\ DOMAIN new = {"op", "file", "deg", "data", "state", "seen"}
        /\ way \in {"patch", "fetch"}
    BY DEF Viewer!Call
  <1>4. AskedOK(new) /\ new # Viewer!NoCall
    BY <1>2, <1>3 DEF AskedOK, Viewer!NoCall
  <1>5. /\ asked'[c] = new /\ DOMAIN asked' = Calls
        /\ \A d \in Calls \ {c} :
             asked'[d] = IF asked[d].op = "turn" THEN [asked[d] EXCEPT !.seen = Null] ELSE asked[d]
    BY <1>1
  <1> HIDE DEF new, way
  <1>6. \A d \in Calls \ {c} :
          /\ asked[d] # Viewer!NoCall => AskedOK(asked[d])
          /\ asked[d].op = "turn" => asked[d] # Viewer!NoCall
    BY DEF ViewerInv, ViewerTypes, Viewer!NoCall
  <1>7. \A d \in Calls \ {c} :
          /\ asked[d] = Viewer!NoCall => asked'[d] = asked[d]
          /\ asked[d] # Viewer!NoCall =>
               /\ AskedOK(asked'[d]) /\ asked'[d] # Viewer!NoCall
               /\ asked'[d].op = asked[d].op /\ asked'[d].file = asked[d].file
          /\ asked'[d].op = "turn" => asked'[d].seen = Null
    <2> SUFFICES ASSUME NEW d \in Calls \ {c}
                 PROVE  /\ asked[d] = Viewer!NoCall => asked'[d] = asked[d]
                        /\ asked[d] # Viewer!NoCall =>
                             /\ AskedOK(asked'[d]) /\ asked'[d] # Viewer!NoCall
                             /\ asked'[d].op = asked[d].op /\ asked'[d].file = asked[d].file
                        /\ asked'[d].op = "turn" => asked'[d].seen = Null
      OBVIOUS
    <2>1. CASE asked[d].op # "turn"
      BY <1>5, <1>6, <2>1 DEF Viewer!NoCall, AskedOK
    <2>2. CASE asked[d].op = "turn"
      BY <1>5, <1>6, <2>2 DEF AskedOK, Viewer!NoCall
    <2> QED
      BY <2>1, <2>2
  <1>8. Viewer!TypeOK'
    <2>1. \A d \in Calls : /\ asked'[d].op \in {"none"} \cup Viewer!Kinds \cup {"turn"}
                           /\ asked'[d] # Viewer!NoCall => asked'[d].file \in Documents
      BY <1>2, <1>3, <1>5, <1>7 DEF AskedOK, Viewer!NoCall, Viewer!Kinds
    <2> QED
      BY <1>1, <2>1 DEF ViewerInv, ViewerTypes, Viewer!TypeOK
  <1>9. ViewerTypes'
    <2>1. DocumentsOK'
      BY <1>1 DEF ViewerInv, ViewerTypes, DocumentsOK
    <2>2. \A d \in Calls : asked'[d] # Viewer!NoCall => AskedOK(asked'[d])
      BY <1>4, <1>5, <1>7
    <2> QED
      BY <1>1, <1>5, <1>8, <2>1, <2>2 DEF ViewerInv, ViewerTypes
  <1>10. ShownInv'
    <2>1. Kind[name] = "image" /\ UNCHANGED <<visible, name, viewed, element, overtaken>>
      BY <1>1
    <2> SUFFICES ASSUME visible, ~overtaken
                 PROVE  /\ viewed.file = name /\ element["image"] = name
                        /\ \A d \in Calls : asked'[d].op \in {"image", "turn"} =>
                                              asked'[d].file = name
      BY <2>1 DEF ShownInv
    <2>2. /\ viewed.file = name /\ element["image"] = name
          /\ \A d \in Calls : asked[d].op \in {"image", "turn"} => asked[d].file = name
      BY <2>1 DEF ViewerInv, ShownInv
    <2>3. asked'[c].file = name
      BY <1>3, <1>5, <2>2
    <2> QED
      BY <1>5, <1>7, <2>2, <2>3 DEF Viewer!NoCall
  <1>11. SeenInv'
    <2> SUFFICES ASSUME NEW d \in Calls, asked'[d].op = "turn", asked'[d].seen # Null
                 PROVE  /\ \A e \in Calls \ {d} : asked'[e].op # "turn"
                        /\ TurnOK(asked[d])'
      BY DEF SeenInv
    <2>1. d = c /\ asked'[d] = new
      BY <1>5, <1>7
    <2>2. first /\ true /\ new.seen = Viewer!Seen(img, imgRot)
      BY <1>3, <2>1
    <2>3. \A e \in Calls \ {c} : asked'[e].op # "turn"
      BY <1>5, <2>2
    <2>4. PICK x : x = new
      OBVIOUS
    <2>5. TurnOK(x)'
      BY <1>1, <1>3, <2>2, <2>4 DEF TurnOK
    <2> QED
      BY <2>1, <2>3, <2>4, <2>5
  <1> QED
    BY <1>9, <1>10, <1>11 DEF ViewerInv

(* A turn goes on, or ends without an answer: nothing else is shown.       *)
LEMMA TurnStep ==
  ASSUME ViewerInv, part = "viewer", part' = part, NEW c \in Calls, asked[c].op = "turn",
         NEW x, asked' = [asked EXCEPT ![c] = x],
         \/ x = Viewer!NoCall
         \/ AskedOK(x) /\ x.op = "turn" /\ x.file = asked[c].file,
         x.op = "turn" /\ x.seen # Null => asked[c].seen # Null /\ TurnOK(x)',
         DocumentsOK',
         \A f \in Documents : /\ f \in DOMAIN cache'
                              /\ cache'[f] # Null => Viewer!IsPicture(cache'[f]),
         UNCHANGED <<visible, name, viewed, imgRot, element, overtaken>>
  PROVE  ViewerInv'
  <1>1. asked[c] # Viewer!NoCall /\ AskedOK(asked[c])
    BY DEF ViewerInv, ViewerTypes, Viewer!NoCall
  <1>2. /\ asked'[c] = x /\ Calls \subseteq DOMAIN asked'
        /\ \A d \in Calls \ {c} : asked'[d] = asked[d]
    BY DEF ViewerInv, ViewerTypes
  <1>3. Viewer!TypeOK'
    <2>1. \A d \in Calls : /\ asked'[d].op \in {"none"} \cup Viewer!Kinds \cup {"turn"}
                           /\ asked'[d] # Viewer!NoCall => asked'[d].file \in Documents
      BY <1>2 DEF ViewerInv, ViewerTypes, Viewer!TypeOK, AskedOK, Viewer!NoCall
    <2> QED
      BY <2>1 DEF ViewerInv, ViewerTypes, Viewer!TypeOK
  <1>4. ViewerTypes'
    <2>1. \A d \in Calls : asked'[d] # Viewer!NoCall => AskedOK(asked'[d])
      BY <1>2 DEF ViewerInv, ViewerTypes
    <2> QED
      BY <1>2, <1>3, <2>1 DEF ViewerInv, ViewerTypes
  <1>5. ShownInv'
    <2> SUFFICES ASSUME visible, ~overtaken
                 PROVE  /\ viewed.file = name
                        /\ \A d \in Calls : asked'[d].op \in {Kind[name], "turn"} =>
                                              asked'[d].file = name
                        /\ Kind[name] = "image" \/ ~Viewer!OnItsWay(Kind[name])'
                             => element[Kind[name]] = name
      BY DEF ShownInv
    <2>1. /\ viewed.file = name
          /\ \A d \in Calls : asked[d].op \in {Kind[name], "turn"} => asked[d].file = name
          /\ Kind[name] = "image" \/ ~Viewer!OnItsWay(Kind[name]) => element[Kind[name]] = name
      BY DEF ViewerInv, ShownInv
    <2>2. Kind[name] \in Viewer!Kinds
      BY KindAssumption DEF ViewerInv, ViewerTypes, Viewer!TypeOK
    <2>3. \A d \in Calls : asked'[d].op \in {Kind[name], "turn"} => asked'[d].file = name
      BY <1>2, <2>1, <2>2 DEF Viewer!NoCall, Viewer!Kinds
    <2>4. name = asked[c].file /\ Kind[name] = "image"
      BY <1>1, <2>1 DEF AskedOK
    <2> QED
      BY <2>1, <2>3, <2>4
  <1>6. SeenInv'
    <2> SUFFICES ASSUME NEW d \in Calls, asked'[d].op = "turn", asked'[d].seen # Null
                 PROVE  /\ \A e \in Calls \ {d} : asked'[e].op # "turn"
                        /\ TurnOK(asked[d])'
      BY DEF SeenInv
    <2>1. d = c
      BY <1>2 DEF ViewerInv, SeenInv
    <2>2. asked[c].seen # Null /\ TurnOK(x)'
      BY <1>2, <2>1
    <2>3. \A e \in Calls \ {c} : asked'[e].op # "turn"
      BY <1>2, <2>2 DEF ViewerInv, SeenInv
    <2> QED
      BY <1>2, <2>1, <2>2, <2>3
  <1> QED
    BY <1>4, <1>5, <1>6 DEF ViewerInv

LEMMA TranscodeStep ==
  ASSUME ViewerInv, part = "viewer", part' = part, NEW c \in Calls, Viewer!Transcode(c)
  PROVE  ViewerInv'
  <1>1. /\ asked[c].op = "turn" /\ asked[c].state = "fetch"
        /\ UNCHANGED <<rows, visible, name, viewed, imgRot, img, element, overtaken>>
    BY DEF Viewer!Transcode
  <1>2. PICK f : f = asked[c].file
    OBVIOUS
  <1>3. AskedOK(asked[c]) /\ f \in Documents /\ Kind[f] = "image" /\ DocumentsOK
    BY <1>1, <1>2 DEF ViewerInv, ViewerTypes, Viewer!NoCall, AskedOK
  <1>4. DocumentsOK'
    BY <1>1, <1>3 DEF DocumentsOK
  <1>5. \A g \in Documents : g \in DOMAIN cache /\ (cache[g] # Null => Viewer!IsPicture(cache[g]))
    BY DEF ViewerInv, ViewerTypes
  <1>6. CASE asked' = [asked EXCEPT ![c] = Viewer!NoCall] /\ UNCHANGED cache
    <2>1. PICK x : x = Viewer!NoCall
      OBVIOUS
    <2>2. x.op # "turn" /\ asked' = [asked EXCEPT ![c] = x]
      BY <1>6, <2>1 DEF Viewer!NoCall
    <2> QED
      BY <1>1, <1>4, <1>5, <1>6, <2>1, <2>2, TurnStep
  <1>7. ASSUME NEW p \in {cache[f], rows[f].picture}, rows[f] # Null, Viewer!Loaded(f, p),
               asked' = [asked EXCEPT ![c].state = "put",
                                      ![c].data = Viewer!Seen(p, asked[c].deg)]
        PROVE  ViewerInv'
    <2>1. PICK x : x = [asked[c] EXCEPT !.state = "put",
                                        !.data = Viewer!Seen(p, asked[c].deg)]
      OBVIOUS
    <2>2. asked' = [asked EXCEPT ![c] = x]
      BY <1>7, <2>1 DEF ViewerInv, ViewerTypes
    <2>3. /\ x.op = "turn" /\ x.file = f /\ x.deg = asked[c].deg /\ x.seen = asked[c].seen
          /\ x.state = "put" /\ x.data = Viewer!Seen(p, asked[c].deg)
          /\ DOMAIN x = DOMAIN asked[c]
      BY <1>1, <1>2, <1>3, <2>1 DEF AskedOK
    <2>4. /\ \/ p = cache[f] /\ cache[f] # Null /\ UNCHANGED cache
             \/ p = rows[f].picture /\ cache' = [cache EXCEPT ![f] = p]
      BY <1>7 DEF Viewer!Loaded
    <2>5. Viewer!IsPicture(p)
      BY <1>3, <1>5, <1>7, <2>4 DEF DocumentsOK
    <2>6. Viewer!IsPicture(x.data)
      BY <1>1, <1>3, <2>3, <2>5, TurnedPicture DEF AskedOK
    <2>7. AskedOK(x)
      BY <1>1, <1>2, <1>3, <2>3, <2>6 DEF AskedOK
    <2>8. \A g \in Documents : /\ g \in DOMAIN cache'
                               /\ cache'[g] # Null => Viewer!IsPicture(cache'[g])
      BY <1>3, <1>5, <2>4, <2>5
    <2>9. x.seen # Null => TurnOK(x)'
      <3> SUFFICES ASSUME asked[c].seen # Null
                   PROVE  x.data = x.seen
        BY <2>3 DEF TurnOK
      <3>1. /\ asked[c].seen = Viewer!Seen(rows[f].picture, asked[c].deg)
            /\ cache[f] \in {Null, rows[f].picture}
        BY <1>1, <1>2, <1>7 DEF ViewerInv, SeenInv, TurnOK
      <3> QED
        BY <2>3, <2>4, <3>1
    <2> QED
      BY <1>1, <1>2, <1>4, <2>2, <2>3, <2>7, <2>8, <2>9, TurnStep
  <1> QED
    BY <1>2, <1>6, <1>7 DEF Viewer!Transcode

LEMMA ServeTurnStep ==
  ASSUME ViewerInv, part = "viewer", part' = part, NEW c \in Calls, Viewer!ServeTurn(c)
  PROVE  ViewerInv'
  <1>1. /\ asked[c].op = "turn" /\ asked[c].state \in {"patch", "put"}
        /\ UNCHANGED <<visible, name, viewed, imgRot, img, element, cache, overtaken>>
    BY DEF Viewer!ServeTurn
  <1>2. PICK f : f = asked[c].file
    OBVIOUS
  <1>3. /\ AskedOK(asked[c]) /\ f \in Documents /\ Kind[f] = "image" /\ DocumentsOK
        /\ asked[c].deg \in {90, 180, 270}
    BY <1>1, <1>2 DEF ViewerInv, ViewerTypes, Viewer!NoCall, AskedOK
  <1>4. \A g \in Documents : g \in DOMAIN cache /\ (cache[g] # Null => Viewer!IsPicture(cache[g]))
    BY DEF ViewerInv, ViewerTypes
  <1>5. CASE asked' = [asked EXCEPT ![c] = Viewer!NoCall] /\ UNCHANGED rows
    <2>1. PICK x : x = Viewer!NoCall
      OBVIOUS
    <2>2. x.op # "turn" /\ asked' = [asked EXCEPT ![c] = x]
      BY <1>5, <2>1 DEF Viewer!NoCall
    <2>3. DocumentsOK'
      BY <1>3, <1>5 DEF DocumentsOK
    <2> QED
      BY <1>1, <1>4, <2>1, <2>2, <2>3, TurnStep
  <1>6. ASSUME rows[f] # Null, NEW p, NEW m,
               p = IF asked[c].state = "patch" THEN Viewer!Baked(rows[f].picture, asked[c].deg)
                                               ELSE asked[c].data,
               rows' = [rows EXCEPT ![f].picture = p, ![f].mime = m],
               asked' = [asked EXCEPT ![c].state = "done"]
        PROVE  ViewerInv'
    <2>1. PICK x : x = [asked[c] EXCEPT !.state = "done"]
      OBVIOUS
    <2>2. asked' = [asked EXCEPT ![c] = x]
      BY <1>6, <2>1 DEF ViewerInv, ViewerTypes
    <2>3. /\ x.op = "turn" /\ x.file = f /\ x.deg = asked[c].deg /\ x.seen = asked[c].seen
          /\ x.state = "done" /\ DOMAIN x = DOMAIN asked[c]
      BY <1>1, <1>2, <1>3, <2>1 DEF AskedOK
    <2>4. AskedOK(x)
      BY <1>1, <1>2, <1>3, <2>3 DEF AskedOK
    <2>5. f \in DOMAIN rows /\ {"mime", "picture"} \subseteq DOMAIN rows[f]
          /\ Viewer!IsPicture(rows[f].picture)
      BY <1>3, <1>6 DEF DocumentsOK
    <2>6. p = Viewer!Seen(rows[f].picture, asked[c].deg) \/ p = asked[c].data
      BY <1>3, <1>6, <2>5, TurnedPicture
    <2>7. Viewer!IsPicture(p)
      BY <1>1, <1>3, <1>6, <2>5, TurnedPicture DEF AskedOK
    <2>8. /\ rows'[f].picture = p /\ {"mime", "picture"} \subseteq DOMAIN rows'[f]
          /\ DOMAIN rows' = DOMAIN rows /\ \A g \in DOMAIN rows : g # f => rows'[g] = rows[g]
      BY <1>6, <2>5
    <2>9. DocumentsOK'
      BY <1>3, <2>7, <2>8 DEF DocumentsOK
    <2>10. x.seen # Null => TurnOK(x)'
      <3> SUFFICES ASSUME asked[c].seen # Null
                   PROVE  p = asked[c].seen
        BY <2>3, <2>8 DEF TurnOK
      <3>1. TurnOK(asked[c])
        BY <1>1 DEF ViewerInv, SeenInv
      <3>2. CASE asked[c].state = "patch"
        BY <1>2, <1>3, <1>6, <2>5, <3>1, <3>2, TurnedPicture DEF TurnOK
      <3>3. CASE asked[c].state = "put"
        BY <1>2, <1>6, <3>1, <3>3 DEF TurnOK
      <3> QED
        BY <1>1, <3>2, <3>3
    <2> QED
      BY <1>1, <1>2, <1>4, <2>2, <2>3, <2>4, <2>9, <2>10, TurnStep
  <1> QED
    <2> SUFFICES ASSUME ~(asked' = [asked EXCEPT ![c] = Viewer!NoCall] /\ UNCHANGED rows)
                 PROVE  ViewerInv'
      BY <1>5
    <2> DEFINE patch == asked[c].state = "patch"
               p == IF patch THEN Viewer!Baked(rows[f].picture, asked[c].deg) ELSE asked[c].data
               m == IF patch THEN rows[f].mime ELSE Recoded
    <2>1. /\ rows[f] # Null /\ asked' = [asked EXCEPT ![c].state = "done"]
          /\ rows' = [rows EXCEPT ![f].picture = p, ![f].mime = m]
      <3>1. rows' = [rows EXCEPT
                 ![f].picture = IF patch THEN Viewer!Baked(@, asked[c].deg) ELSE asked[c].data,
                 ![f].mime    = IF patch THEN @ ELSE Recoded]
        BY <1>2 DEF Viewer!ServeTurn
      <3>2. rows[f] # Null /\ asked' = [asked EXCEPT ![c].state = "done"]
        BY <1>2 DEF Viewer!ServeTurn
      <3>3. f \in DOMAIN rows /\ {"mime", "picture"} \subseteq DOMAIN rows[f]
        BY <1>3, <3>2 DEF DocumentsOK
      <3> QED
        BY <3>1, <3>2, <3>3
    <2>2. PICK q : q = p
      OBVIOUS
    <2>3. PICK n : n = m
      OBVIOUS
    <2> QED
      BY <1>6, <2>1, <2>2, <2>3

(* A turn is answered: its file takes the viewer over.                     *)
LEMMA TurnAnsweredStep ==
  ASSUME ViewerInv, part = "viewer", part' = part, NEW c \in Calls, Viewer!TurnAnswered(c)
  PROVE  ViewerInv'
  <1>1. PICK f : f = asked[c].file
    OBVIOUS
  <1>2. /\ asked[c].op = "turn" /\ imgRot' = 0 /\ element' = [element EXCEPT !["image"] = f]
        /\ viewed' = [file |-> f, mime |-> IF rows[f] = Null THEN Recoded ELSE rows[f].mime]
        /\ asked' = [asked EXCEPT ![c] = Viewer!NoCall]
        /\ UNCHANGED <<rows, visible, name, cache, overtaken>>
    BY <1>1 DEF Viewer!TurnAnswered
  <1>3. /\ f \in Documents /\ Kind[f] = "image" /\ DocumentsOK /\ viewed'.file = f
        /\ Viewer!TypeOK
    BY <1>1, <1>2 DEF ViewerInv, ViewerTypes, Viewer!NoCall, AskedOK
  <1>4. /\ asked'[c] = Viewer!NoCall /\ Calls \subseteq DOMAIN asked'
        /\ \A d \in Calls \ {c} : asked'[d] = asked[d]
    BY <1>2 DEF ViewerInv, ViewerTypes
  <1>5. Viewer!TypeOK'
    <2>1. element' \in [Viewer!Kinds -> Documents \cup {Null}] /\ imgRot' \in Viewer!Degrees
      BY <1>2, <1>3 DEF Viewer!TypeOK, Viewer!Degrees
    <2>2. \A d \in Calls : /\ asked'[d].op \in {"none"} \cup Viewer!Kinds \cup {"turn"}
                           /\ asked'[d] # Viewer!NoCall => asked'[d].file \in Documents
      BY <1>3, <1>4 DEF Viewer!TypeOK, Viewer!NoCall
    <2> QED
      BY <1>2, <1>3, <2>1, <2>2 DEF Viewer!TypeOK
  <1>6. ViewerTypes'
    <2>1. \A d \in Calls : asked'[d] # Viewer!NoCall => AskedOK(asked'[d])
      BY <1>4 DEF ViewerInv, ViewerTypes
    <2>2. DocumentsOK'
      BY <1>2, <1>3 DEF DocumentsOK
    <2> QED
      BY <1>2, <1>3, <1>4, <1>5, <2>1, <2>2 DEF ViewerInv, ViewerTypes
  <1>7. ShownInv'
    <2> SUFFICES ASSUME visible, ~overtaken
                 PROVE  /\ f = name /\ element'["image"] = f
                        /\ \A d \in Calls : asked'[d].op \in {"image", "turn"} =>
                                              asked'[d].file = name
      BY <1>2, <1>3 DEF ShownInv, ViewerInv, Viewer!OnItsWay
    <2>1. \A d \in Calls : asked[d].op \in {Kind[name], "turn"} => asked[d].file = name
      BY DEF ViewerInv, ShownInv
    <2>2. f = name
      BY <1>1, <1>2, <2>1
    <2>3. element'["image"] = f
      BY <1>2, <1>3 DEF Viewer!TypeOK, Viewer!Kinds
    <2> QED
      BY <1>3, <1>4, <2>1, <2>2, <2>3 DEF Viewer!NoCall
  <1>8. SeenInv'
    <2> SUFFICES ASSUME NEW d \in Calls, asked'[d].op = "turn", asked'[d].seen # Null
                 PROVE  /\ \A e \in Calls \ {d} : asked'[e].op # "turn"
                        /\ TurnOK(asked[d])'
      BY DEF SeenInv
    <2> QED
      BY <1>2, <1>4 DEF ViewerInv, SeenInv, Viewer!NoCall
  <1> QED
    BY <1>6, <1>7, <1>8 DEF ViewerInv

LEMMA ViewerStep ==
  ASSUME ViewerInv, part = "viewer", part' = part, Viewer!Next
  PROVE  ViewerInv'
  BY OpenImageStep, OpenDocumentStep, ShutStep, RotateStep, DocumentArrivesStep,
     SaveRotationStep, TranscodeStep, ServeTurnStep, TurnAnsweredStep
  DEF Viewer!Next

LEMMA ShutElsewhere ==
  ASSUME ViewerInv, part # "viewer", part' = part, UNCHANGED over
  PROVE  ViewerInv'
  <1>1. Viewer!Closed'
    BY DEF over, ViewerInv, ViewerTypes, Viewer!Closed
  <1>2. (part = "viewer" => DocumentsOK)'
    OBVIOUS
  <1> QED
    BY <1>1, <1>2, ShutOK, PTL

(* A turn that is answered was stored as it was seen.                      *)
LEMMA SeenStep ==
  ASSUME ViewerInv, Viewer!Next, NEW c \in Calls,
         asked[c].op = "turn", asked[c].state = "done", asked[c].seen # Null,
         asked'[c] = Viewer!NoCall, rows[asked[c].file] # Null
  PROVE  img' = asked[c].seen /\ rows'[asked[c].file].picture = asked[c].seen
  <1>1. /\ rows[asked[c].file].picture = asked[c].seen /\ asked[c] # Viewer!NoCall
        /\ AskedOK(asked[c]) /\ c \in DOMAIN asked
    BY DEF ViewerInv, ViewerTypes, SeenInv, TurnOK, Viewer!NoCall
  <1>2. CASE UNCHANGED asked
    BY <1>1, <1>2
  <1>3. ASSUME NEW d \in Calls \ {c}, NEW x, asked' = [asked EXCEPT ![d] = x]
        PROVE  FALSE
    BY <1>1, <1>3
  <1>4. ASSUME NEW d \in Calls, Viewer!SaveRotation(d)
        PROVE  FALSE
    <2>1. d # c
      BY <1>1, <1>4 DEF Viewer!SaveRotation
    <2>2. asked'[c] = [asked[c] EXCEPT !.seen = Null]
      BY <1>4, <2>1 DEF Viewer!SaveRotation
    <2> QED
      BY <1>1, <2>2 DEF AskedOK, Viewer!NoCall
  <1>5. ASSUME NEW d \in Calls, Viewer!DocumentArrives(d)
        PROVE  FALSE
    BY <1>3, <1>5 DEF Viewer!DocumentArrives
  <1>6. ASSUME NEW d \in Calls, Viewer!Transcode(d) \/ Viewer!ServeTurn(d)
        PROVE  FALSE
    <2>1. d # c /\ d \in DOMAIN asked
      BY <1>6 DEF Viewer!Transcode, Viewer!ServeTurn, ViewerInv, ViewerTypes
    <2>2. CASE Viewer!Transcode(d)
      <3>1. \/ \E p : asked' = [asked EXCEPT ![d].state = "put", ![d].data = p]
            \/ asked' = [asked EXCEPT ![d] = Viewer!NoCall]
        BY <2>2 DEF Viewer!Transcode
      <3> QED
        BY <1>1, <2>1, <3>1
    <2>3. CASE Viewer!ServeTurn(d)
      <3>1. \/ asked' = [asked EXCEPT ![d].state = "done"]
            \/ asked' = [asked EXCEPT ![d] = Viewer!NoCall]
        BY <2>3 DEF Viewer!ServeTurn
      <3> QED
        BY <1>1, <2>1, <3>1
    <2> QED
      BY <1>6, <2>2, <2>3
  <1>7. ASSUME NEW d \in Calls, Viewer!TurnAnswered(d)
        PROVE  img' = asked[c].seen /\ rows'[asked[c].file].picture = asked[c].seen
    <2>1. d = c
      BY <1>3, <1>7 DEF Viewer!TurnAnswered
    <2> QED
      BY <1>1, <1>7, <2>1 DEF Viewer!TurnAnswered
  <1>8. ASSUME NEW d \in Calls, NEW f \in Documents, Viewer!OpenDocument(d, f)
        PROVE  FALSE
    BY <1>1, <1>3, <1>8 DEF Viewer!OpenDocument
  <1> QED
    BY <1>2, <1>4, <1>5, <1>6, <1>7, <1>8
    DEF Viewer!Next, Viewer!OpenImage, Viewer!CloseViewer, Viewer!DeleteFile, Viewer!ShutViewer,
        Viewer!Rotate

----------------------------------------------------------------------------
(* The tab: one of the three parts.                                        *)

NotesThere == Notes \subseteq DOMAIN rows

BrowserInv ==
    /\ part \in {"note", "list", "viewer"} /\ NotesThere
    /\ EditorInv /\ ListInv /\ ViewerInv

(* No note comes into being but on the page of a note.                     *)
LEMMA NoNoteElsewhere ==
  ASSUME ListInv, ViewerInv, NotesThere, part # "note",
         \/ part = "list" /\ ListSteps
         \/ part = "viewer" /\ Viewer!Next
  PROVE  NotesThere' /\ \A i \in Notes : rows[i] = Null => rows'[i] = Null
  <1>1. ASSUME NEW f, rows[f] # Null, NEW x, rows' = [rows EXCEPT ![f] = x]
        PROVE  NotesThere' /\ \A i \in Notes : rows[i] = Null => rows'[i] = Null
    BY <1>1 DEF NotesThere
  <1>2. CASE UNCHANGED rows
    BY <1>2 DEF NotesThere
  <1>3. CASE part = "list" /\ ListSteps
    <2>1. ASSUME NEW t \in Calls, NEW f \in ListedFiles, List!Upload(t, f)
          PROVE  NotesThere' /\ \A i \in Notes : rows[i] = Null => rows'[i] = Null
      BY <2>1, ItemsAssumption DEF List!Upload, NotesThere
    <2>2. ASSUME NEW t \in Calls, NEW f \in Folders, List!DeleteFolder(t, f)
          PROVE  NotesThere' /\ \A i \in Notes : rows[i] = Null => rows'[i] = Null
      BY <2>2 DEF List!DeleteFolder, NotesThere
    <2>3. ASSUME NEW t \in Calls, NEW i \in List!Items, NEW f \in Folders, List!Move(t, i, f)
          PROVE  NotesThere' /\ \A j \in Notes : rows[j] = Null => rows'[j] = Null
      BY <2>3, <1>1 DEF List!Move
    <2>4. ASSUME NEW t \in Calls, NEW f \in ListedFiles, List!DeletedInViewer(t, f)
          PROVE  NotesThere' /\ \A i \in Notes : rows[i] = Null => rows'[i] = Null
      BY <2>4, <1>1 DEF List!DeletedInViewer
    <2>5. ASSUME NEW t \in Calls, List!DeleteNext(t)
          PROVE  NotesThere' /\ \A i \in Notes : rows[i] = Null => rows'[i] = Null
      BY <2>5, <1>1, <1>2 DEF List!DeleteNext
    <2> QED
      BY <1>2, <1>3, <2>1, <2>2, <2>3, <2>4, <2>5
      DEF ListSteps, List!Next, List!Step, List!Click, List!LoadFolders, List!ServeNotes,
          List!ServeFiles, List!Render, List!DeleteDone, List!ToggleSelectMode, List!ToggleItem,
          List!PickFolder, List!Search, List!Ask, List!DeleteSelected
  <1>4. CASE part = "viewer" /\ Viewer!Next
    <2>1. ASSUME NEW c \in Calls, Viewer!ServeTurn(c)
          PROVE  NotesThere' /\ \A i \in Notes : rows[i] = Null => rows'[i] = Null
      BY <2>1, <1>1, <1>2 DEF Viewer!ServeTurn, NotesThere
    <2>2. CASE Viewer!DeleteFile
      BY <2>2, <1>1 DEF Viewer!DeleteFile
    <2> QED
      BY <1>2, <1>4, <2>1, <2>2
      DEF Viewer!Next, Viewer!OpenImage, Viewer!OpenDocument, Viewer!CloseViewer, Viewer!Rotate,
          Viewer!DocumentArrives, Viewer!SaveRotation, Viewer!Transcode, Viewer!TurnAnswered
  <1> QED
    BY <1>3, <1>4

LEMMA BrowserInit == Init => BrowserInv
  <1> SUFFICES ASSUME Init
               PROVE  BrowserInv
    OBVIOUS
  <1>1. NotesThere /\ List!Items \subseteq DOMAIN rows /\ Documents \subseteq DOMAIN rows
    BY StartAssumption DEF Init, NotesThere
  <1>2. part = "note" => RowsOK
    BY <1>1, StartAssumption DEF Init, RowsOK, NotesThere
  <1>3. part = "viewer" => DocumentsOK
    BY <1>1, StartAssumption DEF Init, DocumentsOK
  <1> QED
    BY <1>1, <1>2, <1>3, ClosedOK, UnloadedOK, ShutOK DEF Init, BrowserInv

LEMMA BrowserStep == BrowserInv /\ [Next]_vars => BrowserInv'
  <1> SUFFICES ASSUME BrowserInv, [Next]_vars
               PROVE  BrowserInv'
    OBVIOUS
  <1>1. CASE part = "note" /\ Editor!Next /\ UNCHANGED <<part, view, over>>
    <2>1. EditorInv' /\ ListInv' /\ ViewerInv'
      BY <1>1, EditorStep, UnloadedStep, ShutElsewhere DEF BrowserInv
    <2>2. NotesThere'
      BY <1>1, <2>1 DEF EditorInv, PageInv, RowsOK, NotesThere
    <2> QED
      BY <1>1, <2>1, <2>2 DEF BrowserInv
  <1>2. CASE part = "list" /\ ListSteps /\ UNCHANGED <<part, page, over>>
    BY <1>2, ListStep, ElsewhereStep, ShutElsewhere, NoNoteElsewhere DEF BrowserInv
  <1>3. CASE part = "viewer" /\ Viewer!Next /\ UNCHANGED <<part, page, view>>
    BY <1>3, ViewerStep, ElsewhereStep, UnloadedStep, NoNoteElsewhere DEF BrowserInv
  <1>4. CASE UNCHANGED vars
    <2>1. UNCHANGED <<part, rows, page, view, over>>
      BY <1>4 DEF vars
    <2>2. EditorInv'
      BY <2>1 DEF page, BrowserInv, EditorInv, PageInv, CalmInv, Editor!TypeOK, Editor!Closed,
         RowsOK, Editor!Quiet, Backed, SaveOK, Answered
    <2>3. ListInv'
      BY <2>1 DEF view, BrowserInv, ListInv, ListTypes, LoadInv, MeantInv, List!TypeOK,
         List!Unloaded, List!Idle, List!Matching, LoadOK
    <2>4. ViewerInv'
      BY <2>1 DEF over, BrowserInv, ViewerInv, ViewerTypes, Viewer!TypeOK, Viewer!Closed,
         DocumentsOK, ShownInv, Viewer!OnItsWay, SeenInv, TurnOK
    <2> QED
      BY <2>1, <2>2, <2>3, <2>4 DEF BrowserInv, NotesThere
  <1> QED
    BY <1>1, <1>2, <1>3, <1>4 DEF Next

LEMMA BrowserInvariant == Spec => []BrowserInv
  BY BrowserInit, BrowserStep, PTL DEF Spec

(* What the variables of a tab hold, in each of its parts.                 *)
THEOREM TypeCorrect == Spec => []TypeOK
  <1>1. BrowserInv => TypeOK
    BY DEF BrowserInv, EditorInv, PageInv, ListInv, ListTypes, ViewerInv, ViewerTypes, TypeOK
  <1> QED
    BY <1>1, BrowserInvariant, PTL

(* A page whose note is as saved can be left: the server has what the      *)
(* fields show, after saves that did not overlap (Backed, SaveOK).         *)
THEOREM ClosingLosesNothing == Spec => []NothingLost
  <1>1. BrowserInv => NothingLost
    <2> SUFFICES ASSUME BrowserInv, calm, Editor!Quiet, current # Null, ~Editor!Unsaved
                 PROVE  rows[current] # Null /\ Editor!Stored
      BY DEF NothingLost, Editor!NothingLost
    <2>1. saved = form /\ Agrees(rows[current], form.title, form.folder)
      BY DEF BrowserInv, EditorInv, CalmInv, Backed, Editor!Unsaved
    <2>2. current \in Notes /\ form \in Editor!Forms /\ rows[current] \in Editor!Forms
      BY <2>1 DEF BrowserInv, EditorInv, PageInv, Editor!TypeOK, Editor!Closed, RowsOK, Agrees
    <2>3. PICK row : row = rows[current]
      OBVIOUS
    <2>4. row = [form EXCEPT !.folder = IF form.folder = Unfiled THEN row.folder ELSE @]
      BY <2>1, <2>2, <2>3 DEF Agrees, Editor!Forms
    <2> QED
      BY <2>1, <2>3, <2>4 DEF Agrees, Editor!Stored
  <1> QED
    BY <1>1, BrowserInvariant, PTL

(* A page makes at most one note of the same saves: a save that creates    *)
(* one was sent before the page had a note (SaveOK), and no other step of  *)
(* the tab creates any.                                                    *)
THEOREM OneNoteAPage == Spec => OneNote
  <1>1. BrowserInv /\ [Next]_vars =>
          [\A i \in Notes : calm /\ calm' /\ rows[i] = Null /\ rows'[i] # Null =>
              address = New /\ current = Null]_<<rows, page>>
    <2> SUFFICES ASSUME BrowserInv, Next, NEW i \in Notes, calm, rows[i] = Null, rows'[i] # Null
                 PROVE  address = New /\ current = Null
      BY DEF vars, page
    <2>1. part = "note" /\ Editor!Next
      BY NoNoteElsewhere DEF Next, BrowserInv
    <2>2. NotesThere
      BY DEF BrowserInv
    <2>3. ~Editor!DeleteCurrentNote
      BY <2>2 DEF Editor!DeleteCurrentNote, NotesThere
    <2>4. PICK c \in Calls : Editor!Serve(c)
      BY <2>1, <2>3
      DEF Editor!Next, Editor!Visit, Editor!InitNewNote, Editor!OpenNote, Editor!BootFails,
          Editor!Edit, Editor!SaveNote, Editor!SaveField, Editor!Send, Editor!Answer, Editor!Close
    <2>5. call[c].op # "none" /\ call[c].state = "sent"
      BY <2>4 DEF Editor!Serve
    <2>6. SaveOK(call[c]) /\ ~Editor!Quiet /\ saved # Null
      BY <2>5 DEF BrowserInv, EditorInv, CalmInv, Editor!NoCall, Editor!Quiet
    <2>7. call[c].note = Null
      BY <2>2, <2>4 DEF Editor!Serve, NotesThere
    <2>8. current = Null
      BY <2>6, <2>7 DEF SaveOK
    <2> QED
      BY <2>6, <2>8 DEF BrowserInv, EditorInv, CalmInv
  <1> QED
    BY <1>1, BrowserInvariant, PTL DEF Spec, OneNote, Editor!OneNote, page, Editor!page

(* At rest, after a load nothing disturbed, the list is what the server    *)
(* has under the filter: its answers were of that filter (LoadOK).         *)
THEOREM ListIsFiltered == Spec => []ListMatchesFilter
  <1>1. BrowserInv => ListMatchesFilter
    BY DEF BrowserInv, ListInv, LoadInv, ListMatchesFilter, List!ListMatchesFilter
  <1> QED
    BY <1>1, BrowserInvariant, PTL

(* A deletion deletes what is selected, which is what was agreed to as     *)
(* long as the selection was left alone (MeantInv).                        *)
THEOREM DeletedAsMeant == Spec => OnlyMeantDeleted
  <1>1. BrowserInv /\ [Next]_vars =>
          [\A t \in Calls, i \in List!Items :
             /\ task[t].pc = "delete" /\ task'[t] # task[t]
             /\ rows[i] # Null /\ rows'[i] = Null /\ meant # {}
             => i \in meant]_<<rows, folders, List!view>>
    <2> SUFFICES ASSUME BrowserInv, Next, NEW t \in Calls, NEW i \in List!Items,
                        task[t].pc = "delete", task'[t] # task[t],
                        rows[i] # Null, rows'[i] = Null, meant # {}
                 PROVE  i \in meant
      BY DEF vars, view, List!view
    <2>1. part = "list" /\ ListSteps
      BY DEF Next, view
    <2> QED
      BY <2>1, MeantStep DEF BrowserInv
  <1> QED
    BY <1>1, BrowserInvariant, PTL DEF Spec, OnlyMeantDeleted, List!OnlyMeantDeleted

(* The file the viewer names is the one it shows, and acts on, although    *)
(* documents opened before may still arrive (ShownInv).                    *)
THEOREM NamedIsShown == Spec => []ShownIsCurrent
  <1>1. BrowserInv => ShownIsCurrent
    BY DEF BrowserInv, ViewerInv, ShownInv, ShownIsCurrent, Viewer!ShownIsCurrent
  <1> QED
    BY <1>1, BrowserInvariant, PTL

(* A rotation saved once, of the picture there is, is stored as it was     *)
(* seen, whether the server turns it or the browser (TurnOK, and           *)
(* RotationProofs!TurnedAsSeen for pictures of any size).                  *)
THEOREM StoredAsSeen == Spec => SavedAsSeen
  <1>1. BrowserInv /\ [Next]_vars =>
          [\A c \in Calls :
             /\ asked[c].op = "turn" /\ asked[c].state = "done" /\ asked[c].seen # Null
             /\ asked'[c] = Viewer!NoCall /\ rows[asked[c].file] # Null
             => img' = asked[c].seen
                  /\ rows'[asked[c].file].picture = asked[c].seen]_<<rows, Viewer!viewer>>
    <2> SUFFICES ASSUME BrowserInv, Next, NEW c \in Calls,
                        asked[c].op = "turn", asked[c].state = "done", asked[c].seen # Null,
                        asked'[c] = Viewer!NoCall, rows[asked[c].file] # Null
                 PROVE  img' = asked[c].seen /\ rows'[asked[c].file].picture = asked[c].seen
      BY DEF vars, over, Viewer!viewer
    <2>1. asked'[c] # asked[c]
      BY DEF Viewer!NoCall
    <2>2. Viewer!Next
      BY <2>1 DEF Next, over
    <2> QED
      BY <2>2, SeenStep DEF BrowserInv
  <1> QED
    BY <1>1, BrowserInvariant, PTL DEF Spec, SavedAsSeen, Viewer!SavedAsSeen
=============================================================================
