---------------------------- MODULE FilesProofs ----------------------------
(* Proofs about Files, for any number of files, types, requests and        *)
(* faults: that row, blob and announced type go together, and that a file  *)
(* whose requests came one by one is whole.                                *)
EXTENDS Files, TLAPS

(* What the handler of r has made sure of by the time it is at each step.  *)
RowPcs == {"serve_open", "patch_check", "patch_open", "patch_write", "patch_row",
           "put_write", "put_row", "put_delete", "delete_row", "delete_blob"}

HandlerOK(r) ==
    LET h == req[r] IN
    /\ h.pc = "create_row" => h.file = Null /\ h.label \in Labels
    /\ h.pc # "create_row" => h.file \in minted
    /\ h.pc \in {"create_row", "create_write", "put_read", "put_write", "put_row", "put_delete",
                 "patch_write"} => h.data \in Bytes
    /\ h.pc \in RowPcs => h.row \in Rows /\ h.row.mime = h.row.ext
    /\ h.pc = "patch_write" => h.data.type = h.row.ext
    /\ h.pc \in {"put_row", "put_delete"} => h.old \in Types

TablesInv ==
    /\ files \in [FileIds -> Rows \cup {Null}]
    /\ minted \subseteq FileIds
    /\ \A i \in FileIds : files[i] # Null => i \in minted /\ files[i].mime = files[i].ext

BlobsInv ==
    /\ disk \in [Blobs -> Bytes \cup {Null}]
    /\ \A i \in FileIds, t \in Types :
         disk[<<i, t>>] # Null => i \in minted /\ disk[<<i, t>>].type = t

HandlersInv ==
    /\ req \in [Reqs -> Handlers \cup {Idle}]
    /\ \A r \in Reqs : req[r] # Idle => HandlerOK(r)

RestInv ==
    /\ sweep \in [phase : {"boot", "keep", "walk"}, keep : SUBSET FileIds, todo : SUBSET Blobs]
    /\ clean \subseteq FileIds /\ faults \in 0..MaxFaults

FilesInv == TablesInv /\ BlobsInv /\ HandlersInv /\ RestInv

(* What row and blob of i are while its only request holds row and old at  *)
(* step pc: whole, or in between two writes.                               *)
BlobIs(i, row) == disk[<<i, row.ext>>] = row.digest

InHand(r) ==
    LET h == req[r]
        i == h.file
    IN
    /\ h.pc \in {"serve_row", "serve_open", "patch_read", "put_read", "delete_read", "patch_check",
                 "patch_open", "patch_write", "put_write", "delete_row"} => Whole(i)
    /\ h.pc \in {"patch_check", "put_write", "put_delete", "delete_row"} => files[i] = h.row
    /\ h.pc \in {"create_write", "patch_open", "patch_write", "patch_row", "put_row"} =>
         files[i] # Null
    /\ h.pc \in {"patch_open", "patch_write"} =>
         h.row.ext = files[i].ext /\ h.row.digest = files[i].digest
    /\ h.pc \in {"patch_row", "put_row", "put_delete"} => BlobIs(i, h.row)
    /\ h.pc \in {"patch_row", "delete_blob"} => BlobsOf(i) = {h.row.ext}
    /\ h.pc \in {"put_row", "put_delete"} => BlobsOf(i) = {h.row.ext, h.old}
    /\ h.pc = "put_delete" => h.row.ext # h.old
    /\ h.pc = "delete_blob" => files[i] = Null
    /\ h.pc = "create_write" =>
         BlobsOf(i) = {} /\ files[i].ext = h.data.type /\ files[i].digest = h.data

(* A clean file has one request at work on it, or is whole.                *)
Serial(i) ==
    /\ \A r, s \in Busy(i) : r = s
    /\ Busy(i) = {} => Whole(i)
    /\ \A r \in Busy(i) : InHand(r)

SerialInv == \A i \in clean : Serial(i)

LEMMA AtWork ==
  ASSUME FilesInv, NEW r \in Reqs, NEW pc \in Pcs, At(r, pc)
  PROVE  req[r] # Idle /\ req[r] \in Handlers /\ HandlerOK(r)
  BY DEF FilesInv, HandlersInv, At, Idle, Pcs

LEMMA InHandAlone ==
  ASSUME SerialInv, NEW r \in Reqs, req[r] # Idle, req[r].file \in clean
  PROVE  InHand(r) /\ Busy(req[r].file) = {r}
  BY DEF SerialInv, Serial, Busy

(* The next state of one handler, the others being where they were.        *)
LEMMA OneHandler ==
  ASSUME FilesInv, minted \subseteq minted', NEW r \in Reqs, req' = [req EXCEPT ![r] = req'[r]],
         req'[r] \in Handlers \cup {Idle}, req'[r] # Idle => HandlerOK(r)'
  PROVE  HandlersInv'
  <1>1. req' \in [Reqs -> Handlers \cup {Idle}]
    BY DEF FilesInv, HandlersInv
  <1>2. \A s \in Reqs \ {r} : req'[s] = req[s]
    BY DEF FilesInv, HandlersInv
  <1>3. \A s \in Reqs \ {r} : req'[s] # Idle => HandlerOK(s)'
    BY <1>2 DEF FilesInv, HandlersInv, HandlerOK
  <1> QED
    BY <1>1, <1>3 DEF HandlersInv

LEMMA Ended ==
  ASSUME FilesInv, UNCHANGED minted, NEW r \in Reqs, Respond(r)
  PROVE  HandlersInv' /\ req'[r] = Idle /\ req' = [req EXCEPT ![r] = req'[r]]
  <1>1. req' = [req EXCEPT ![r] = req'[r]] /\ req'[r] = Idle
    BY DEF Respond, FilesInv, HandlersInv
  <1> QED
    BY <1>1, OneHandler

----------------------------------------------------------------------------
(* Serial files: a step disturbs the file of its own request only.         *)

LEMMA Untouched ==
  ASSUME FilesInv, NEW i \in FileIds, Serial(i), Busy(i)' = Busy(i),
         \A s \in Busy(i) : req'[s] = req[s],
         files'[i] = files[i], \A t \in Types : disk'[<<i, t>>] = disk[<<i, t>>]
  PROVE  Serial(i)'
  <1>1. BlobsOf(i)' = BlobsOf(i)
    BY DEF BlobsOf
  <1>2. files[i] # Null => files[i].ext \in Types
    BY DEF FilesInv, TablesInv, Rows
  <1>3. Whole(i)' <=> Whole(i)
    BY <1>1, <1>2 DEF Whole
  <1>4. ASSUME NEW r \in Busy(i)
        PROVE  InHand(r)'
    <2>1. r \in Reqs /\ req[r] # Idle /\ req[r].file = i /\ req'[r] = req[r] /\ InHand(r)
      BY <1>4 DEF Busy, Serial
    <2>2. HandlerOK(r)
      BY <2>1 DEF FilesInv, HandlersInv
    <2>3. req[r].pc \in RowPcs => req[r].row.ext \in Types
      BY <2>2 DEF HandlerOK, Rows
    <2>4. req[r].pc \in RowPcs => (BlobIs(i, req[r].row)' <=> BlobIs(i, req[r].row))
      BY <2>1, <2>3 DEF BlobIs
    <2> QED
      BY <1>1, <1>3, <2>1, <2>4 DEF InHand, RowPcs, BlobIs
  <1> QED
    BY <1>3, <1>4 DEF Serial

LEMMA OneFile ==
  ASSUME FilesInv, SerialInv, NEW r \in Reqs, NEW i \in FileIds,
         req[r] # Idle => req[r].file \in {i, Null},
         req' = [req EXCEPT ![r] = req'[r]], req'[r] # Idle => req'[r].file = i,
         \A j \in FileIds \ {i} :
           files'[j] = files[j] /\ \A t \in Types : disk'[<<j, t>>] = disk[<<j, t>>],
         clean' \subseteq clean,
         i \in clean' => /\ Busy(i) \subseteq {r}
                        /\ IF req'[r] = Idle THEN Whole(i)' ELSE InHand(r)'
  PROVE  SerialInv'
  <1>1. \A s \in Reqs \ {r} : req'[s] = req[s]
    BY DEF FilesInv, HandlersInv
  <1>2. ASSUME NEW j \in clean', j # i
        PROVE  Serial(j)'
    <2>1. j \in FileIds /\ Serial(j) /\ j # Null
      BY <1>2, NullAssumption DEF FilesInv, RestInv, SerialInv
    <2>2. Busy(j)' = Busy(j) /\ r \notin Busy(j)
      BY <1>1, <1>2, <2>1 DEF Busy
    <2>3. \A s \in Busy(j) : req'[s] = req[s]
      BY <1>1, <2>2 DEF Busy
    <2> QED
      BY <1>2, <2>1, <2>2, <2>3, Untouched
  <1>3. ASSUME i \in clean'
        PROVE  Serial(i)'
    <2>1. Busy(i)' = IF req'[r] = Idle THEN {} ELSE {r}
      BY <1>1, <1>3 DEF Busy
    <2> QED
      BY <1>3, <2>1 DEF Serial
  <1> QED
    BY <1>2, <1>3 DEF SerialInv

(* The same for a handler that has its file already: what it holds before  *)
(* the step is what it may use.                                            *)
LEMMA OwnFile ==
  ASSUME FilesInv, SerialInv, NEW r \in Reqs, req[r] # Idle, NEW i \in FileIds, req[r].file = i,
         req' = [req EXCEPT ![r] = req'[r]], req'[r] # Idle => req'[r].file = i,
         \A j \in FileIds \ {i} :
           files'[j] = files[j] /\ \A t \in Types : disk'[<<j, t>>] = disk[<<j, t>>],
         clean' \subseteq clean,
         InHand(r) /\ i \in clean' => IF req'[r] = Idle THEN Whole(i)' ELSE InHand(r)'
  PROVE  SerialInv'
  <1>1. i \in clean' => InHand(r) /\ Busy(i) = {r}
    BY InHandAlone
  <1> QED
    BY <1>1, OneFile

(* Writing or removing one blob.                                           *)
LEMMA OneBlob ==
  ASSUME BlobsInv, NEW i \in FileIds, NEW t \in Types, NEW b \in Bytes \cup {Null},
         NEW k, k = <<i, t>>, disk' = [disk EXCEPT ![k] = b]
  PROVE  /\ disk' \in [Blobs -> Bytes \cup {Null}] /\ disk'[<<i, t>>] = b
         /\ \A j \in FileIds, u \in Types : j # i \/ u # t => disk'[<<j, u>>] = disk[<<j, u>>]
  <1>1. \A j \in FileIds, u \in Types :
          <<j, u>> \in Blobs /\ (<<j, u>> = <<i, t>> => j = i /\ u = t)
    BY DEF Blobs
  <1>2. disk \in [Blobs -> Bytes \cup {Null}]
    BY DEF BlobsInv
  <1> QED
    BY <1>1, <1>2

(* Blob t of file i becomes b, and the other files keep theirs.            *)
BlobPut(i, t, b) ==
    /\ disk'[<<i, t>>] = b /\ \A u \in Types \ {t} : disk'[<<i, u>>] = disk[<<i, u>>]
    /\ BlobsOf(i)' = IF b = Null THEN BlobsOf(i) \ {t} ELSE BlobsOf(i) \cup {t}

OthersKept(i) ==
    \A j \in FileIds \ {i}, u \in Types : disk'[<<j, u>>] = disk[<<j, u>>]

LEMMA BlobsAfter ==
  ASSUME BlobsInv, NEW i \in FileIds, NEW t \in Types, NEW b \in Bytes \cup {Null},
         NEW k, k = <<i, t>>, disk' = [disk EXCEPT ![k] = b]
  PROVE  BlobPut(i, t, b) /\ OthersKept(i)
  <1>1. /\ disk' \in [Blobs -> Bytes \cup {Null}] /\ disk'[<<i, t>>] = b
        /\ \A j \in FileIds, u \in Types : j # i \/ u # t => disk'[<<j, u>>] = disk[<<j, u>>]
    BY OneBlob
  <1>2. BlobsOf(i)' = IF b = Null THEN BlobsOf(i) \ {t} ELSE BlobsOf(i) \cup {t}
    BY <1>1 DEF BlobsOf
  <1> QED
    BY <1>1, <1>2 DEF BlobPut, OthersKept

LEMMA BlobsKept ==
  ASSUME BlobsInv, minted \subseteq minted', NEW i \in FileIds, i \in minted', NEW t \in Types,
         NEW b \in Bytes \cup {Null}, b # Null => b.type = t,
         NEW k, k = <<i, t>>, disk' = [disk EXCEPT ![k] = b]
  PROVE  BlobsInv'
  <1>1. /\ disk' \in [Blobs -> Bytes \cup {Null}] /\ disk'[<<i, t>>] = b
        /\ \A j \in FileIds, u \in Types : j # i \/ u # t => disk'[<<j, u>>] = disk[<<j, u>>]
    BY OneBlob
  <1> QED
    BY <1>1 DEF BlobsInv

LEMMA SameBlobs ==
  ASSUME FilesInv, minted \subseteq minted', UNCHANGED disk
  PROVE  BlobsInv'
  BY DEF FilesInv, BlobsInv

----------------------------------------------------------------------------
(* Requests arrive.                                                        *)

LEMMA ArriveStep ==
  ASSUME FilesInv, SerialInv, NEW r \in Reqs, NEW i \in FileIds \cap minted,
         NEW h \in Handlers, h.file = i,
         h.pc \in {"serve_row", "patch_read", "put_read", "delete_read"},
         h.pc = "put_read" => h.data \in Bytes,
         Arrive(r, i, h)
  PROVE  HandlersInv' /\ SerialInv'
  <1>1. req[r] = Idle /\ req' = [req EXCEPT ![r] = req'[r]] /\ req'[r] = h
    BY DEF Arrive, FilesInv, HandlersInv
  <1>2. HandlerOK(r)'
    BY <1>1 DEF HandlerOK, Arrive, RowPcs
  <1>3. HandlersInv'
    BY <1>1, <1>2, OneHandler DEF Arrive
  <1>4. clean' \subseteq clean /\ (i \in clean' => i \in clean /\ Busy(i) = {})
    BY DEF Arrive
  <1>5. i \in clean' => Whole(i)'
    BY <1>4 DEF SerialInv, Serial, Whole, BlobsOf, Arrive
  <1>6. i \in clean' => InHand(r)'
    BY <1>1, <1>5 DEF InHand
  <1>7. UNCHANGED <<files, disk>>
    BY DEF Arrive
  <1>8. req'[r] # Idle
    BY <1>1 DEF Handlers, Idle
  <1>9. i \in clean' => Busy(i) \subseteq {r} /\ IF req'[r] = Idle THEN Whole(i)' ELSE InHand(r)'
    BY <1>4, <1>6, <1>8
  <1>10. SerialInv'
    BY <1>1, <1>4, <1>7, <1>9, OneFile
  <1> QED
    BY <1>3, <1>10

LEMMA RequestStep ==
  ASSUME FilesInv, SerialInv, NEW r \in Reqs, Request(r)
  PROVE  HandlersInv' /\ SerialInv'
  <1>1. ASSUME NEW d \in Fresh, NEW l \in Labels, Upload(r, d, l)
        PROVE  HandlersInv' /\ SerialInv'
    <2> DEFINE h == [Handler("create_row", Null) EXCEPT !.data = d, !.label = l]
    <2>1. /\ h \in Handlers /\ h.pc = "create_row" /\ h.file = Null
          /\ h.data \in Bytes /\ h.label \in Labels
      BY DEF Handler, Handlers, Pcs, Fresh, Bytes
    <2>2. req[r] = Idle /\ req' = [req EXCEPT ![r] = h] /\ UNCHANGED <<files, minted, disk>>
          /\ clean' \subseteq clean
      BY <1>1 DEF Upload, Arrive
    <2> HIDE DEF h
    <2>3. req' = [req EXCEPT ![r] = req'[r]] /\ req'[r] = h
      BY <2>2 DEF FilesInv, HandlersInv
    <2>4. HandlerOK(r)'
      BY <2>1, <2>3 DEF HandlerOK, RowPcs
    <2>5. HandlersInv'
      BY <2>1, <2>2, <2>3, <2>4, OneHandler
    <2>6. \A s \in Reqs \ {r} : req'[s] = req[s]
      BY <2>2 DEF FilesInv, HandlersInv
    <2>7. ASSUME NEW i \in clean'
          PROVE  Serial(i)'
      <3>1. i \in FileIds /\ i # Null /\ Serial(i)
        BY <2>2, <2>7, NullAssumption DEF FilesInv, RestInv, SerialInv
      <3>2. Busy(i)' = Busy(i) /\ r \notin Busy(i)
        BY <2>1, <2>2, <2>3, <2>6, <3>1 DEF Busy
      <3>3. \A s \in Busy(i) : req'[s] = req[s]
        BY <2>6, <3>2 DEF Busy
      <3> QED
        BY <2>2, <3>1, <3>2, <3>3, Untouched
    <2> QED
      BY <2>5, <2>7 DEF SerialInv
  <1>2. ASSUME NEW i \in minted, Serve(r, i) \/ Delete(r, i)
        PROVE  HandlersInv' /\ SerialInv'
    <2>1. PICK pc \in {"serve_row", "delete_read"} : Arrive(r, i, Handler(pc, i))
      BY <1>2 DEF Serve, Delete
    <2>2. i \in FileIds
      BY DEF FilesInv, TablesInv
    <2>3. /\ Handler(pc, i) \in Handlers /\ Handler(pc, i).pc = pc /\ Handler(pc, i).file = i
      BY <2>2 DEF Handler, Handlers, Pcs
    <2> QED
      BY <2>1, <2>2, <2>3, ArriveStep
  <1>3. ASSUME NEW i \in minted, NEW l \in Labels \cup {Null}, NEW rotate \in BOOLEAN,
               Patch(r, i, l, rotate)
        PROVE  HandlersInv' /\ SerialInv'
    <2> DEFINE h == [Handler("patch_read", i) EXCEPT !.label = l, !.rotate = rotate]
    <2>1. i \in FileIds
      BY DEF FilesInv, TablesInv
    <2>2. h \in Handlers /\ h.pc = "patch_read" /\ h.file = i
      BY <2>1 DEF Handler, Handlers, Pcs
    <2>3. Arrive(r, i, h)
      BY <1>3 DEF Patch
    <2> HIDE DEF h
    <2> QED
      BY <2>1, <2>2, <2>3, ArriveStep
  <1>4. ASSUME NEW i \in minted, NEW d \in Fresh, Put(r, i, d)
        PROVE  HandlersInv' /\ SerialInv'
    <2> DEFINE h == [Handler("put_read", i) EXCEPT !.data = d]
    <2>1. i \in FileIds
      BY DEF FilesInv, TablesInv
    <2>2. h \in Handlers /\ h.pc = "put_read" /\ h.file = i /\ h.data \in Bytes
      BY <2>1 DEF Handler, Handlers, Pcs, Fresh, Bytes
    <2>3. Arrive(r, i, h)
      BY <1>4 DEF Put
    <2> HIDE DEF h
    <2> QED
      BY <2>1, <2>2, <2>3, ArriveStep
  <1> QED
    BY <1>1, <1>2, <1>3, <1>4 DEF Request

----------------------------------------------------------------------------
(* Uploading.                                                              *)

LEMMA CreateRowStep ==
  ASSUME FilesInv, SerialInv, NEW r \in Reqs, CreateRow(r)
  PROVE  TablesInv' /\ HandlersInv' /\ SerialInv'
  <1> DEFINE d == req[r].data
  <1>1. req[r] \in Handlers /\ req[r] # Idle /\ HandlerOK(r) /\ req[r].pc = "create_row"
    BY AtWork DEF CreateRow, Pcs, At
  <1>2. req[r].file = Null /\ d \in Bytes /\ req[r].label \in Labels
    BY <1>1 DEF HandlerOK
  <1>3. PICK i \in FileIds \ minted :
          /\ files' = [files EXCEPT ![i] = [kind |-> Kind(d.type), mime |-> d.type, ext |-> d.type,
                                           digest |-> d, label |-> req[r].label]]
          /\ minted' = minted \cup {i}
          /\ req' = [req EXCEPT ![r].pc = "create_write", ![r].file = i]
    BY DEF CreateRow
  <1> DEFINE row == [kind |-> Kind(d.type), mime |-> d.type, ext |-> d.type, digest |-> d,
                     label |-> req[r].label]
  <1>4. row \in Rows /\ row.mime = d.type /\ row.ext = d.type /\ row.digest = d
    BY <1>2 DEF Rows, Bytes, Kind
  <1> HIDE DEF row
  <1>5. files' = [files EXCEPT ![i] = row]
    BY <1>3 DEF row
  <1>6. TablesInv'
    BY <1>3, <1>4, <1>5 DEF FilesInv, TablesInv
  <1>7. /\ req' = [req EXCEPT ![r] = req'[r]]
        /\ req'[r] = [req[r] EXCEPT !.pc = "create_write", !.file = i]
    BY <1>3 DEF FilesInv, HandlersInv
  <1>8. /\ req'[r] \in Handlers /\ req'[r].pc = "create_write" /\ req'[r].file = i
        /\ req'[r].data = d /\ req'[r] # Idle
    BY <1>1, <1>7 DEF Handlers, Pcs, Idle
  <1>9. HandlerOK(r)'
    BY <1>2, <1>3, <1>8 DEF HandlerOK, RowPcs
  <1>10. HandlersInv'
    BY <1>3, <1>7, <1>8, <1>9, OneHandler
  <1>11. UNCHANGED <<disk, clean>>
    BY DEF CreateRow
  <1>12. Busy(i) = {}
    <2>1. \A s \in Reqs : req[s] # Idle => req[s].file # i
      BY <1>3, NullAssumption DEF FilesInv, HandlersInv, HandlerOK
    <2> QED
      BY <2>1 DEF Busy
  <1>13. BlobsOf(i)' = {}
    BY <1>3, <1>11 DEF FilesInv, BlobsInv, BlobsOf
  <1>14. files'[i] = row /\ row # Null /\ \A j \in FileIds \ {i} : files'[j] = files[j]
    BY <1>4, <1>5, NullAssumption DEF FilesInv, TablesInv
  <1>15. InHand(r)'
    BY <1>4, <1>8, <1>13, <1>14 DEF InHand
  <1> HIDE DEF d
  <1>16. SerialInv'
    BY <1>2, <1>3, <1>7, <1>8, <1>11, <1>12, <1>14, <1>15, OneFile
  <1> QED
    BY <1>6, <1>10, <1>16

----------------------------------------------------------------------------
(* The steps of a request that has its file.                               *)

(* A handler that ends without a write, its file whole or out of account.  *)
LEMMA EndsWhole ==
  ASSUME FilesInv, SerialInv, NEW r \in Reqs, req[r] # Idle, NEW i \in FileIds, req[r].file = i,
         Respond(r), UNCHANGED <<files, minted, disk>>, clean' \subseteq clean,
         InHand(r) /\ i \in clean' => Whole(i)
  PROVE  HandlersInv' /\ SerialInv'
  <1>1. HandlersInv' /\ req'[r] = Idle /\ req' = [req EXCEPT ![r] = req'[r]]
    BY Ended
  <1>2. Whole(i)' <=> Whole(i)
    BY DEF Whole, BlobsOf
  <1> QED
    BY <1>1, <1>2, OwnFile

(* A handler that goes on without a write.                                 *)
LEMMA GoesOn ==
  ASSUME FilesInv, SerialInv, NEW r \in Reqs, req[r] # Idle, NEW i \in FileIds, req[r].file = i,
         req' = [req EXCEPT ![r] = req'[r]], req'[r] \in Handlers, req'[r].file = i,
         UNCHANGED <<files, minted, disk>>, clean' \subseteq clean,
         HandlerOK(r)', InHand(r) /\ i \in clean' => InHand(r)'
  PROVE  HandlersInv' /\ SerialInv'
  <1>1. req'[r] # Idle
    BY DEF Handlers, Idle
  <1>2. HandlersInv'
    BY OneHandler
  <1> QED
    BY <1>1, <1>2, OwnFile

LEMMA LoadStep ==
  ASSUME FilesInv, SerialInv, NEW r \in Reqs,
         NEW pc \in {"serve_row", "patch_read", "put_read", "delete_read"},
         NEW next \in {"serve_open", "patch_check", "put_write", "delete_row"},
         next = "put_write" => pc = "put_read", Load(r, pc, next)
  PROVE  HandlersInv' /\ SerialInv'
  <1>1. req[r] \in Handlers /\ req[r] # Idle /\ HandlerOK(r) /\ req[r].pc = pc
    BY AtWork DEF Load, Pcs, At
  <1>2. PICK i \in FileIds \cap minted : i = req[r].file
    BY <1>1 DEF HandlerOK, FilesInv, TablesInv
  <1>3. UNCHANGED <<files, minted, disk, clean>>
    BY DEF Load
  <1>4. InHand(r) => Whole(i)
    BY <1>1, <1>2 DEF InHand
  <1>5. CASE files[i] = Null
    <2>1. Respond(r)
      BY <1>2, <1>5 DEF Load
    <2> QED
      BY <1>1, <1>2, <1>3, <1>4, <2>1, EndsWhole
  <1>6. CASE files[i] # Null
    <2>1. files[i] \in Rows /\ files[i].mime = files[i].ext
      BY <1>6 DEF FilesInv, TablesInv
    <2>2. /\ req' = [req EXCEPT ![r] = req'[r]]
          /\ req'[r] = [req[r] EXCEPT !.pc = next, !.row = files[i]]
      BY <1>2, <1>6 DEF Load, FilesInv, HandlersInv
    <2>3. /\ req'[r] \in Handlers /\ req'[r].pc = next /\ req'[r].row = files[i]
          /\ req'[r].file = i /\ req'[r].data = req[r].data
      BY <1>1, <1>2, <2>1, <2>2 DEF Handlers, Pcs
    <2>4. HandlerOK(r)'
      BY <1>1, <1>2, <1>3, <2>1, <2>3 DEF HandlerOK
    <2>5. Whole(i)' <=> Whole(i)
      BY <1>3 DEF Whole, BlobsOf
    <2>6. InHand(r) => InHand(r)'
      BY <1>3, <1>4, <2>3, <2>5 DEF InHand
    <2> QED
      BY <1>1, <1>2, <1>3, <2>2, <2>3, <2>4, <2>6, GoesOn
  <1> QED
    BY <1>5, <1>6

LEMMA ServeOpenStep ==
  ASSUME FilesInv, SerialInv, NEW r \in Reqs, ServeOpen(r)
  PROVE  HandlersInv' /\ SerialInv'
  <1>1. req[r] \in Handlers /\ req[r] # Idle /\ HandlerOK(r) /\ req[r].pc = "serve_open"
    BY AtWork DEF ServeOpen, Pcs, At
  <1>2. PICK i \in FileIds \cap minted : i = req[r].file
    BY <1>1 DEF HandlerOK, FilesInv, TablesInv
  <1>3. InHand(r) => Whole(i)
    BY <1>1, <1>2 DEF InHand
  <1> QED
    BY <1>1, <1>2, <1>3, EndsWhole DEF ServeOpen

LEMMA PatchCheckStep ==
  ASSUME FilesInv, SerialInv, NEW r \in Reqs, PatchCheck(r)
  PROVE  HandlersInv' /\ SerialInv'
  <1> DEFINE h == req[r]
             row == IF h.label = Null THEN h.row ELSE [h.row EXCEPT !.label = h.label]
  <1>1. h \in Handlers /\ h # Idle /\ HandlerOK(r) /\ h.pc = "patch_check"
    BY AtWork DEF PatchCheck, Pcs, At
  <1>2. PICK i \in FileIds \cap minted : i = h.file
    BY <1>1 DEF HandlerOK, FilesInv, TablesInv
  <1>3. UNCHANGED <<files, minted, disk, clean>>
    BY DEF PatchCheck
  <1>4. h.row \in Rows /\ h.row.mime = h.row.ext /\ h.label \in Labels \cup {Null}
    BY <1>1 DEF HandlerOK, RowPcs, Handlers
  <1>5. row \in Rows /\ row.mime = row.ext /\ row.ext = h.row.ext /\ row.digest = h.row.digest
    BY <1>4 DEF Rows
  <1>6. InHand(r) => Whole(i) /\ files[i] = h.row
    BY <1>1, <1>2 DEF InHand
  <1>7. CASE Respond(r)
    BY <1>1, <1>2, <1>3, <1>6, <1>7, EndsWhole
  <1>8. ASSUME NEW pc \in {"patch_open", "patch_row"},
               req' = [req EXCEPT ![r].pc = pc, ![r].row = row]
        PROVE  HandlersInv' /\ SerialInv'
    <2> HIDE DEF row
    <2>1. req' = [req EXCEPT ![r] = req'[r]] /\ req'[r] = [h EXCEPT !.pc = pc, !.row = row]
      BY <1>8 DEF FilesInv, HandlersInv
    <2>2. req'[r] \in Handlers /\ req'[r].pc = pc /\ req'[r].row = row /\ req'[r].file = i
      BY <1>1, <1>2, <1>5, <2>1 DEF Handlers, Pcs
    <2>3. HandlerOK(r)'
      BY <1>2, <1>3, <1>5, <2>2 DEF HandlerOK
    <2>4. Whole(i)' <=> Whole(i)
      BY <1>3 DEF Whole, BlobsOf
    <2>5. h.row # Null
      BY <1>4, NullAssumption
    <2>6. Whole(i) /\ files[i] = h.row =>
            files[i] # Null /\ BlobIs(i, row) /\ BlobsOf(i) = {row.ext}
      BY <1>5, <2>5 DEF Whole, BlobIs
    <2>7. BlobsOf(i)' = BlobsOf(i)
      BY <1>3 DEF BlobsOf
    <2>8. InHand(r) => InHand(r)'
      BY <1>3, <1>5, <1>6, <2>2, <2>4, <2>6, <2>7 DEF InHand, BlobIs
    <2> QED
      BY <1>1, <1>2, <1>3, <2>1, <2>2, <2>3, <2>8, GoesOn
  <1> QED
    BY <1>7, <1>8 DEF PatchCheck

LEMMA PatchOpenStep ==
  ASSUME FilesInv, SerialInv, NEW r \in Reqs, PatchOpen(r)
  PROVE  HandlersInv' /\ SerialInv'
  <1> DEFINE h == req[r]
             d == disk[<<h.file, h.row.ext>>]
             turned == [d EXCEPT !.turned = ~@]
  <1>1. h \in Handlers /\ h # Idle /\ HandlerOK(r) /\ h.pc = "patch_open"
    BY AtWork DEF PatchOpen, Pcs, At
  <1>2. PICK i \in FileIds \cap minted : i = h.file
    BY <1>1 DEF HandlerOK, FilesInv, TablesInv
  <1>3. UNCHANGED <<files, minted, disk, clean>>
    BY DEF PatchOpen
  <1>4. h.row \in Rows /\ h.row.mime = h.row.ext
    BY <1>1 DEF HandlerOK, RowPcs
  <1>5. InHand(r) => Whole(i)
    BY <1>1, <1>2 DEF InHand
  <1>6. CASE Respond(r)
    BY <1>1, <1>2, <1>3, <1>5, <1>6, EndsWhole
  <1>7. CASE /\ d # Null /\ d.type = h.row.mime
             /\ req' = [req EXCEPT ![r].pc = "patch_write", ![r].data = turned]
    <2>1. d \in Bytes
      BY <1>2, <1>4, <1>7 DEF FilesInv, BlobsInv, Blobs, Rows
    <2>2. turned \in Bytes /\ turned.type = h.row.ext
      BY <1>4, <1>7, <2>1 DEF Bytes
    <2> HIDE DEF d, turned
    <2>3. /\ req' = [req EXCEPT ![r] = req'[r]]
          /\ req'[r] = [h EXCEPT !.pc = "patch_write", !.data = turned]
      BY <1>7 DEF FilesInv, HandlersInv
    <2>4. /\ req'[r] \in Handlers /\ req'[r].pc = "patch_write" /\ req'[r].row = h.row
          /\ req'[r].file = i /\ req'[r].data = turned
      BY <1>1, <1>2, <2>2, <2>3 DEF Handlers, Pcs
    <2>5. HandlerOK(r)'
      BY <1>2, <1>3, <1>4, <2>2, <2>4 DEF HandlerOK
    <2>6. Whole(i)' <=> Whole(i)
      BY <1>3 DEF Whole, BlobsOf
    <2>7. InHand(r) => InHand(r)'
      BY <1>1, <1>2, <1>3, <2>4, <2>6 DEF InHand
    <2> QED
      BY <1>1, <1>2, <1>3, <2>3, <2>4, <2>5, <2>7, GoesOn
  <1> QED
    BY <1>6, <1>7 DEF PatchOpen

----------------------------------------------------------------------------
(* The steps that write a blob or a row.                                   *)

(* A handler that writes or removes blob t of its file, and ends or goes   *)
(* on.                                                                     *)
LEMMA BlobStep ==
  ASSUME FilesInv, SerialInv, NEW r \in Reqs, req[r] # Idle,
         NEW i \in FileIds, i \in minted, req[r].file = i,
         req' = [req EXCEPT ![r] = req'[r]], req'[r] \in Handlers \cup {Idle},
         req'[r] # Idle => req'[r].file = i /\ HandlerOK(r)',
         NEW t \in Types, NEW b \in Bytes \cup {Null}, b # Null => b.type = t,
         NEW k, k = <<i, t>>, disk' = [disk EXCEPT ![k] = b], UNCHANGED <<files, minted, clean>>,
         req'[r] = Idle /\ InHand(r) /\ BlobPut(i, t, b) => Whole(i)',
         req'[r] # Idle /\ InHand(r) /\ BlobPut(i, t, b) => InHand(r)'
  PROVE  BlobsInv' /\ HandlersInv' /\ SerialInv'
  <1>1. BlobsInv
    BY DEF FilesInv
  <1>2. BlobPut(i, t, b) /\ OthersKept(i)
    BY <1>1, BlobsAfter
  <1>3. BlobsInv'
    BY <1>1, BlobsKept
  <1>4. HandlersInv'
    BY OneHandler
  <1>5. \A j \in FileIds \ {i} :
          files'[j] = files[j] /\ \A u \in Types : disk'[<<j, u>>] = disk[<<j, u>>]
    BY <1>2 DEF OthersKept
  <1>6. InHand(r) /\ i \in clean' => IF req'[r] = Idle THEN Whole(i)' ELSE InHand(r)'
    BY <1>2
  <1>7. SerialInv'
    BY <1>5, <1>6, OwnFile
  <1> QED
    BY <1>3, <1>4, <1>7

LEMMA CreateWriteStep ==
  ASSUME FilesInv, SerialInv, NEW r \in Reqs, CreateWrite(r)
  PROVE  BlobsInv' /\ HandlersInv' /\ SerialInv'
  <1> DEFINE h == req[r]
  <1>1. h \in Handlers /\ h # Idle /\ HandlerOK(r) /\ h.pc = "create_write"
    BY AtWork DEF CreateWrite, Pcs, At
  <1>2. PICK i \in FileIds \cap minted : i = h.file
    BY <1>1 DEF HandlerOK, FilesInv, TablesInv
  <1>3. h.data \in Bytes /\ h.data.type \in Types /\ h.data # Null
    BY <1>1, NullAssumption DEF HandlerOK, Bytes
  <1>4. Respond(r) /\ UNCHANGED <<files, minted, clean>>
        /\ disk' = [disk EXCEPT ![<<req[r].file, h.data.type>>] = h.data]
    BY DEF CreateWrite, Write
  <1>5. req'[r] = Idle /\ req' = [req EXCEPT ![r] = req'[r]]
    BY <1>4, Ended
  <1>6. ASSUME InHand(r), disk'[<<i, h.data.type>>] = h.data,
               BlobsOf(i)' = BlobsOf(i) \cup {h.data.type}
        PROVE  Whole(i)'
    BY <1>1, <1>2, <1>4, <1>6 DEF InHand, Whole
  <1>7. PICK k, t, b : t = h.data.type /\ b = h.data /\ k = <<i, t>>
    OBVIOUS
  <1>8. disk' = [disk EXCEPT ![k] = b] /\ t \in Types /\ b \in Bytes /\ b # Null /\ b.type = t
    BY <1>2, <1>3, <1>4, <1>7
  <1>9. InHand(r) /\ BlobPut(i, t, b) => Whole(i)'
    BY <1>6, <1>7, <1>8, NullAssumption DEF BlobPut
  <1>10. UNCHANGED <<files, minted, clean>> /\ req[r].file = i /\ req[r] # Idle /\ i \in minted
    BY <1>1, <1>2, <1>4
  <1> HIDE DEF h
  <1> QED
    BY <1>5, <1>7, <1>8, <1>9, <1>10, BlobStep

LEMMA PatchWriteStep ==
  ASSUME FilesInv, SerialInv, NEW r \in Reqs, PatchWrite(r)
  PROVE  BlobsInv' /\ HandlersInv' /\ SerialInv'
  <1> DEFINE h == req[r]
             row == Rotated(h)
  <1>1. h \in Handlers /\ h # Idle /\ HandlerOK(r) /\ h.pc = "patch_write"
    BY AtWork DEF PatchWrite, Pcs, At
  <1>2. PICK i \in FileIds \cap minted : i = h.file
    BY <1>1 DEF HandlerOK, FilesInv, TablesInv
  <1>3. /\ h.data \in Bytes /\ h.data # Null
        /\ h.row \in Rows /\ h.row.mime = h.row.ext /\ h.data.type = h.row.ext
    BY <1>1, NullAssumption DEF HandlerOK, RowPcs
  <1>4. row \in Rows /\ row.mime = row.ext /\ row.ext = h.row.ext /\ row.digest = h.data
    BY <1>3 DEF Rotated, Rows
  <1>5. h.row.ext \in Types
    BY <1>3 DEF Rows
  <1>6. /\ UNCHANGED <<files, minted, clean>>
        /\ disk' = [disk EXCEPT ![<<req[r].file, h.row.ext>>] = h.data]
        /\ req' = [req EXCEPT ![r] = req'[r]]
        /\ req'[r] = [h EXCEPT !.pc = "patch_row", !.row = row]
    BY DEF PatchWrite, FilesInv, HandlersInv
  <1> HIDE DEF row
  <1>7. /\ req'[r] \in Handlers /\ req'[r].pc = "patch_row" /\ req'[r].row = row
        /\ req'[r].file = i
    BY <1>1, <1>2, <1>4, <1>6 DEF Handlers, Pcs
  <1>8. HandlerOK(r)'
    BY <1>2, <1>4, <1>6, <1>7 DEF HandlerOK
  <1>9. ASSUME InHand(r), disk'[<<i, h.row.ext>>] = h.data,
               BlobsOf(i)' = BlobsOf(i) \cup {h.row.ext}
        PROVE  InHand(r)'
    BY <1>1, <1>2, <1>4, <1>6, <1>7, <1>9 DEF InHand, Whole, BlobIs
  <1>10. req'[r] # Idle
    BY <1>7 DEF Handlers, Idle
  <1>11. PICK k, t, b : t = h.row.ext /\ b = h.data /\ k = <<i, t>>
    OBVIOUS
  <1>12. disk' = [disk EXCEPT ![k] = b] /\ t \in Types /\ b \in Bytes /\ b # Null /\ b.type = t
    BY <1>2, <1>3, <1>5, <1>6, <1>11
  <1>13. InHand(r) /\ BlobPut(i, t, b) => InHand(r)'
    BY <1>9, <1>11, <1>12, NullAssumption DEF BlobPut
  <1>14. /\ UNCHANGED <<files, minted, clean>> /\ req' = [req EXCEPT ![r] = req'[r]]
         /\ req[r].file = i /\ req[r] # Idle /\ i \in minted
    BY <1>1, <1>2, <1>6
  <1> HIDE DEF h
  <1> QED
    BY <1>7, <1>8, <1>10, <1>11, <1>12, <1>13, <1>14, BlobStep

LEMMA PutWriteStep ==
  ASSUME FilesInv, SerialInv, NEW r \in Reqs, PutWrite(r)
  PROVE  BlobsInv' /\ HandlersInv' /\ SerialInv'
  <1> DEFINE row == Replaced(req[r].row, req[r].data)
  <1>1. req[r] \in Handlers /\ req[r] # Idle /\ HandlerOK(r) /\ req[r].pc = "put_write"
    BY AtWork DEF PutWrite, Pcs, At
  <1>2. PICK i \in FileIds : i = req[r].file /\ i \in minted
    BY <1>1 DEF HandlerOK, FilesInv, TablesInv
  <1>3. req[r].data \in Bytes /\ req[r].row \in Rows
    BY <1>1 DEF HandlerOK, RowPcs
  <1>4. PICK k, t, b, old : t = req[r].data.type /\ b = req[r].data /\ k = <<i, t>>
                            /\ old = req[r].row.ext
    OBVIOUS
  <1>5. /\ t \in Types /\ old \in Types /\ b \in Bytes /\ b # Null /\ b.type = t
        /\ row \in Rows /\ row.mime = t /\ row.ext = t /\ row.digest = b
    BY <1>3, <1>4, NullAssumption DEF Replaced, Rows, Bytes
  <1>6. /\ UNCHANGED <<files, minted, clean>> /\ disk' = [disk EXCEPT ![k] = b]
        /\ req' = [req EXCEPT ![r].pc = "put_row", ![r].row = row, ![r].old = old]
    BY <1>2, <1>4, <1>5 DEF PutWrite
  <1> HIDE DEF row
  <1>7. /\ req' = [req EXCEPT ![r] = req'[r]]
        /\ req'[r] = [req[r] EXCEPT !.pc = "put_row", !.row = row, !.old = old]
    BY <1>6 DEF FilesInv, HandlersInv
  <1>8. /\ req'[r] \in Handlers /\ req'[r].pc = "put_row" /\ req'[r].row = row
        /\ req'[r].file = i /\ req'[r].old = old /\ req'[r].data = req[r].data /\ req'[r] # Idle
    BY <1>1, <1>2, <1>5, <1>7 DEF Handlers, Pcs, Idle
  <1>9. HandlerOK(r)'
    BY <1>2, <1>3, <1>5, <1>6, <1>8 DEF HandlerOK
  <1>10. ASSUME InHand(r), BlobPut(i, t, b)
         PROVE  InHand(r)'
    <2>1. Whole(i) /\ files[i] = req[r].row /\ files[i] # Null
      BY <1>1, <1>2, <1>3, <1>10, NullAssumption DEF InHand
    <2>2. BlobsOf(i)' = {t, old} /\ disk'[<<i, t>>] = b
      BY <1>4, <1>5, <1>10, <2>1, NullAssumption DEF Whole, BlobPut
    <2> QED
      BY <1>5, <1>6, <1>8, <2>1, <2>2 DEF InHand, BlobIs
  <1>11. UNCHANGED <<files, minted, clean>> /\ req' = [req EXCEPT ![r] = req'[r]]
    BY <1>6, <1>7
  <1> QED
    BY <1>1, <1>2, <1>4, <1>5, <1>6, <1>8, <1>9, <1>10, <1>11, BlobStep

LEMMA PutDeleteStep ==
  ASSUME FilesInv, SerialInv, NEW r \in Reqs, PutDelete(r)
  PROVE  BlobsInv' /\ HandlersInv' /\ SerialInv'
  <1>1. req[r] \in Handlers /\ req[r] # Idle /\ HandlerOK(r) /\ req[r].pc = "put_delete"
    BY AtWork DEF PutDelete, Pcs, At
  <1>2. PICK i \in FileIds : i = req[r].file /\ i \in minted
    BY <1>1 DEF HandlerOK, FilesInv, TablesInv
  <1>3. req[r].row \in Rows /\ req[r].old \in Types
    BY <1>1 DEF HandlerOK, RowPcs
  <1>4. PICK k, t : t = req[r].old /\ k = <<i, t>>
    OBVIOUS
  <1>5. UNCHANGED <<files, minted, clean>> /\ disk' = [disk EXCEPT ![k] = Null] /\ Respond(r)
    BY <1>2, <1>4 DEF PutDelete, Remove, Superseded
  <1>6. req'[r] = Idle /\ req' = [req EXCEPT ![r] = req'[r]]
    BY <1>5, Ended
  <1>7. ASSUME InHand(r), BlobPut(i, t, Null)
        PROVE  Whole(i)'
    <2>1. /\ files[i] = req[r].row /\ files[i] # Null /\ req[r].row.ext # t
          /\ BlobsOf(i) = {req[r].row.ext, t} /\ disk[<<i, req[r].row.ext>>] = req[r].row.digest
      BY <1>1, <1>2, <1>3, <1>4, <1>7, NullAssumption DEF InHand, BlobIs
    <2>2. req[r].row.ext \in Types
      BY <1>3 DEF Rows
    <2>3. /\ BlobsOf(i)' = {req[r].row.ext}
          /\ disk'[<<i, req[r].row.ext>>] = disk[<<i, req[r].row.ext>>]
      BY <1>7, <2>1, <2>2 DEF BlobPut
    <2> QED
      BY <1>5, <2>1, <2>3 DEF Whole
  <1> QED
    BY <1>1, <1>2, <1>3, <1>4, <1>5, <1>6, <1>7, BlobStep

LEMMA DeleteBlobStep ==
  ASSUME FilesInv, SerialInv, NEW r \in Reqs, DeleteBlob(r)
  PROVE  BlobsInv' /\ HandlersInv' /\ SerialInv'
  <1>1. req[r] \in Handlers /\ req[r] # Idle /\ HandlerOK(r) /\ req[r].pc = "delete_blob"
    BY AtWork DEF DeleteBlob, Pcs, At
  <1>2. PICK i \in FileIds : i = req[r].file /\ i \in minted
    BY <1>1 DEF HandlerOK, FilesInv, TablesInv
  <1>3. req[r].row \in Rows /\ req[r].row.ext \in Types
    BY <1>1 DEF HandlerOK, RowPcs, Rows
  <1>4. PICK k, t : t = req[r].row.ext /\ k = <<i, t>>
    OBVIOUS
  <1>5. UNCHANGED <<files, minted, clean>> /\ disk' = [disk EXCEPT ![k] = Null] /\ Respond(r)
    BY <1>2, <1>4 DEF DeleteBlob, Remove
  <1>6. req'[r] = Idle /\ req' = [req EXCEPT ![r] = req'[r]]
    BY <1>5, Ended
  <1>7. ASSUME InHand(r), BlobPut(i, t, Null)
        PROVE  Whole(i)'
    BY <1>1, <1>2, <1>4, <1>5, <1>7 DEF InHand, BlobPut, Whole
  <1> QED
    BY <1>1, <1>2, <1>3, <1>4, <1>5, <1>6, <1>7, BlobStep

(* UpdateFile of the row in hand.                                          *)
LEMMA StoreStep ==
  ASSUME FilesInv, SerialInv, NEW r \in Reqs, NEW next \in {"idle", "put_delete"},
         \/ req[r].pc = "patch_row" /\ next = "idle"
         \/ req[r].pc = "put_row" /\ next = IF req[r].row.ext # req[r].old THEN "put_delete"
                                                                       ELSE "idle",
         Store(r, next)
  PROVE  TablesInv' /\ HandlersInv' /\ SerialInv'
  <1>1. req[r] \in Handlers /\ req[r] # Idle /\ HandlerOK(r)
    BY AtWork DEF Pcs, At
  <1>2. PICK i \in FileIds : i = req[r].file /\ i \in minted
    BY <1>1 DEF HandlerOK, FilesInv, TablesInv
  <1>3. req[r].row \in Rows /\ req[r].row.mime = req[r].row.ext /\ req[r].row # Null
    BY <1>1, NullAssumption DEF HandlerOK, RowPcs
  <1>4. UNCHANGED <<minted, disk, clean>> /\ BlobsOf(i)' = BlobsOf(i)
    BY DEF Store, BlobsOf
  <1>5. InHand(r) => /\ files[i] # Null /\ disk[<<i, req[r].row.ext>>] = req[r].row.digest
                     /\ BlobsOf(i) = IF req[r].pc = "put_row" THEN {req[r].row.ext, req[r].old}
                                                             ELSE {req[r].row.ext}
    BY <1>2 DEF InHand, BlobIs
  <1>6. CASE files[i] = Null
    <2>1. Respond(r) /\ files' = files
      BY <1>2, <1>6 DEF Store
    <2>2. ~InHand(r)
      BY <1>5, <1>6
    <2>3. HandlersInv' /\ SerialInv'
      BY <1>1, <1>2, <1>4, <2>1, <2>2, EndsWhole
    <2> QED
      BY <1>4, <2>1, <2>3 DEF FilesInv, TablesInv
  <1>7. CASE files[i] # Null
    <2>1. files' = [files EXCEPT ![i] = req[r].row]
          /\ (IF next = "idle" THEN Respond(r) ELSE Goto(r, next))
      BY <1>2, <1>7 DEF Store
    <2>2. TablesInv'
      BY <1>2, <1>3, <1>4, <2>1 DEF FilesInv, TablesInv
    <2>3. files'[i] = req[r].row /\ \A j \in FileIds \ {i} : files'[j] = files[j]
      BY <1>2, <2>1 DEF FilesInv, TablesInv
    <2>4. CASE next = "idle"
      <3>1. HandlersInv' /\ req'[r] = Idle /\ req' = [req EXCEPT ![r] = req'[r]]
        BY <1>4, <2>1, <2>4, Ended
      <3>2. InHand(r) => BlobsOf(i) = {req[r].row.ext}
        BY <1>5, <2>4
      <3>3. InHand(r) => Whole(i)'
        BY <1>3, <1>4, <1>5, <2>3, <3>2 DEF Whole
      <3>4. \A j \in FileIds \ {i} :
              files'[j] = files[j] /\ \A t \in Types : disk'[<<j, t>>] = disk[<<j, t>>]
        BY <1>4, <2>3
      <3>5. SerialInv'
        BY <1>1, <1>2, <1>4, <3>1, <3>3, <3>4, OwnFile
      <3> QED
        BY <2>2, <3>1, <3>5
    <2>5. CASE next = "put_delete"
      <3>1. req[r].pc = "put_row" /\ req[r].row.ext # req[r].old
        BY <2>5
      <3>2. /\ req' = [req EXCEPT ![r] = req'[r]]
            /\ req'[r] = [req[r] EXCEPT !.pc = "put_delete"]
        BY <2>1, <2>5 DEF Goto, FilesInv, HandlersInv
      <3>3. /\ req'[r] \in Handlers /\ req'[r].pc = "put_delete" /\ req'[r].row = req[r].row
            /\ req'[r].file = i /\ req'[r].old = req[r].old /\ req'[r].data = req[r].data
            /\ req'[r] # Idle
        BY <1>1, <1>2, <3>2 DEF Handlers, Pcs, Idle
      <3>4. HandlerOK(r)'
        BY <1>1, <1>2, <1>3, <1>4, <3>1, <3>3 DEF HandlerOK
      <3>5. HandlersInv'
        BY <1>4, <3>2, <3>3, <3>4, OneHandler
      <3>6. InHand(r) => InHand(r)'
        BY <1>4, <1>5, <2>3, <3>1, <3>3 DEF InHand, BlobIs
      <3>7. \A j \in FileIds \ {i} :
              files'[j] = files[j] /\ \A t \in Types : disk'[<<j, t>>] = disk[<<j, t>>]
        BY <1>4, <2>3
      <3>8. req' = [req EXCEPT ![r] = req'[r]]
        BY <3>2
      <3>9. SerialInv'
        BY <1>1, <1>2, <1>4, <3>3, <3>6, <3>7, <3>8, OwnFile
      <3> QED
        BY <2>2, <3>5, <3>9
    <2> QED
      BY <2>4, <2>5
  <1> QED
    BY <1>6, <1>7

LEMMA DeleteRowStep ==
  ASSUME FilesInv, SerialInv, NEW r \in Reqs, DeleteRow(r)
  PROVE  TablesInv' /\ HandlersInv' /\ SerialInv'
  <1>1. req[r] \in Handlers /\ req[r] # Idle /\ HandlerOK(r) /\ req[r].pc = "delete_row"
    BY AtWork DEF DeleteRow, Pcs, At
  <1>2. PICK i \in FileIds : i = req[r].file /\ i \in minted
    BY <1>1 DEF HandlerOK, FilesInv, TablesInv
  <1>3. req[r].row \in Rows /\ req[r].row.mime = req[r].row.ext /\ req[r].row # Null
    BY <1>1, NullAssumption DEF HandlerOK, RowPcs
  <1>4. UNCHANGED <<minted, disk, clean>> /\ BlobsOf(i)' = BlobsOf(i)
    BY DEF DeleteRow, BlobsOf
  <1>5. InHand(r) => files[i] # Null /\ BlobsOf(i) = {req[r].row.ext}
    BY <1>1, <1>2, <1>3 DEF InHand, Whole
  <1>6. CASE files[i] = Null
    <2>1. Respond(r) /\ files' = files
      BY <1>2, <1>6 DEF DeleteRow
    <2>2. ~InHand(r)
      BY <1>5, <1>6
    <2>3. HandlersInv' /\ SerialInv'
      BY <1>1, <1>2, <1>4, <2>1, <2>2, EndsWhole
    <2> QED
      BY <1>4, <2>1, <2>3 DEF FilesInv, TablesInv
  <1>7. CASE files[i] # Null
    <2>1. files' = [files EXCEPT ![i] = Null] /\ Goto(r, "delete_blob")
      BY <1>2, <1>7 DEF DeleteRow
    <2>2. TablesInv'
      BY <1>4, <2>1 DEF FilesInv, TablesInv
    <2>3. files'[i] = Null /\ \A j \in FileIds \ {i} : files'[j] = files[j]
      BY <2>1 DEF FilesInv, TablesInv
    <2>4. /\ req' = [req EXCEPT ![r] = req'[r]] /\ req'[r] = [req[r] EXCEPT !.pc = "delete_blob"]
      BY <2>1 DEF Goto, FilesInv, HandlersInv
    <2>5. /\ req'[r] \in Handlers /\ req'[r].pc = "delete_blob" /\ req'[r].row = req[r].row
          /\ req'[r].file = i /\ req'[r] # Idle
      BY <1>1, <1>2, <2>4 DEF Handlers, Pcs, Idle
    <2>6. HandlerOK(r)'
      BY <1>2, <1>3, <1>4, <2>5 DEF HandlerOK
    <2>7. HandlersInv'
      BY <1>4, <2>4, <2>5, <2>6, OneHandler
    <2>8. InHand(r) => InHand(r)'
      BY <1>4, <1>5, <2>3, <2>5 DEF InHand
    <2>9. \A j \in FileIds \ {i} :
            files'[j] = files[j] /\ \A t \in Types : disk'[<<j, t>>] = disk[<<j, t>>]
      BY <1>4, <2>3
    <2>10. req' = [req EXCEPT ![r] = req'[r]]
      BY <2>4
    <2>11. SerialInv'
      BY <1>1, <1>2, <1>4, <2>5, <2>8, <2>9, <2>10, OwnFile
    <2> QED
      BY <2>2, <2>7, <2>11
  <1> QED
    BY <1>6, <1>7

----------------------------------------------------------------------------
(* The steps, whoever takes them.                                          *)

LEMMA SameTables ==
  ASSUME FilesInv, UNCHANGED <<files, minted>>
  PROVE  TablesInv'
  BY DEF FilesInv, TablesInv

LEMMA HandleStep ==
  ASSUME FilesInv, SerialInv, NEW r \in Reqs, Handle(r)
  PROVE  TablesInv' /\ BlobsInv' /\ HandlersInv' /\ SerialInv'
  <1>1. CASE CreateRow(r) \/ DeleteRow(r)
    BY <1>1, CreateRowStep, DeleteRowStep, SameBlobs DEF CreateRow, DeleteRow
  <1>2. CASE CreateWrite(r)
    BY <1>2, CreateWriteStep, SameTables DEF CreateWrite, Write
  <1>3. CASE PatchWrite(r) \/ PutWrite(r)
    BY <1>3, PatchWriteStep, PutWriteStep, SameTables DEF PatchWrite, PutWrite
  <1>4. CASE PutDelete(r) \/ DeleteBlob(r)
    BY <1>4, PutDeleteStep, DeleteBlobStep, SameTables DEF PutDelete, DeleteBlob, Remove
  <1>5. CASE PatchRow(r) \/ PutRow(r)
    <2>1. PICK next \in {"idle", "put_delete"} :
            /\ \/ req[r].pc = "patch_row" /\ next = "idle"
               \/ req[r].pc = "put_row" /\ next = IF req[r].row.ext # req[r].old
                                                THEN "put_delete" ELSE "idle"
            /\ Store(r, next)
      BY <1>5 DEF PatchRow, PutRow, At
    <2>2. UNCHANGED <<minted, disk>>
      BY <2>1 DEF Store
    <2> QED
      BY <2>1, <2>2, StoreStep, SameBlobs
  <1>6. CASE ServeRow(r) \/ PatchRead(r) \/ PutRead(r) \/ DeleteRead(r)
    <2>1. PICK pc \in {"serve_row", "patch_read", "put_read", "delete_read"},
               next \in {"serve_open", "patch_check", "put_write", "delete_row"} :
            (next = "put_write" => pc = "put_read") /\ Load(r, pc, next)
      BY <1>6 DEF ServeRow, PatchRead, PutRead, DeleteRead
    <2>2. UNCHANGED <<files, minted, disk>>
      BY <2>1 DEF Load
    <2> QED
      BY <2>1, <2>2, LoadStep, SameTables, SameBlobs
  <1>7. CASE ServeOpen(r) \/ PatchCheck(r) \/ PatchOpen(r)
    <2>1. UNCHANGED <<files, minted, disk>>
      BY <1>7 DEF ServeOpen, PatchCheck, PatchOpen
    <2> QED
      BY <1>7, <2>1, ServeOpenStep, PatchCheckStep, PatchOpenStep, SameTables, SameBlobs
  <1> QED
    BY <1>1, <1>2, <1>3, <1>4, <1>5, <1>6, <1>7 DEF Handle

(* A failed step ends its request and takes the file out of account.       *)
LEMMA FailStep ==
  ASSUME FilesInv, SerialInv, NEW r \in Reqs, Fail(r)
  PROVE  HandlersInv' /\ SerialInv'
  <1>1. req[r] # Idle /\ Respond(r) /\ UNCHANGED <<files, minted, disk>>
        /\ clean' = clean \ {req[r].file}
    BY DEF Fail
  <1>2. HandlersInv' /\ req'[r] = Idle /\ req' = [req EXCEPT ![r] = req'[r]]
    BY <1>1, Ended
  <1>3. ASSUME NEW i \in clean'
        PROVE  Serial(i)'
    <2>1. i \in FileIds /\ Serial(i) /\ i # req[r].file
      BY <1>1, <1>3 DEF FilesInv, RestInv, SerialInv
    <2>2. \A s \in Reqs \ {r} : req'[s] = req[s]
      BY <1>2 DEF FilesInv, HandlersInv
    <2>3. Busy(i)' = Busy(i) /\ r \notin Busy(i)
      BY <1>2, <2>1, <2>2 DEF Busy
    <2>4. \A s \in Busy(i) : req'[s] = req[s]
      BY <2>2, <2>3 DEF Busy
    <2> QED
      BY <1>1, <2>1, <2>3, <2>4, Untouched
  <1> QED
    BY <1>2, <1>3 DEF SerialInv

(* What a crash leaves in account had no request at work on it.            *)
LEMMA CrashStep ==
  ASSUME FilesInv, SerialInv, Crash
  PROVE  HandlersInv' /\ SerialInv'
  <1>1. /\ req' = [r \in Reqs |-> Idle] /\ UNCHANGED <<files, minted, disk>>
        /\ clean' = {i \in clean : Busy(i) = {}}
    BY DEF Crash
  <1>2. \A i : Busy(i)' = {} /\ (Whole(i)' <=> Whole(i))
    BY <1>1 DEF Busy, Whole, BlobsOf
  <1>3. HandlersInv'
    BY <1>1 DEF HandlersInv
  <1>4. \A i \in clean' : Serial(i)'
    BY <1>1, <1>2 DEF SerialInv, Serial
  <1> QED
    BY <1>3, <1>4 DEF SerialInv

(* The sweep takes what it removes out of account, and leaves the rest.    *)
LEMMA SweepStep ==
  ASSUME FilesInv, SerialInv, Sweep
  PROVE  BlobsInv' /\ SerialInv' /\ UNCHANGED <<files, minted, req, faults>>
  <1>1. UNCHANGED <<files, minted, req, faults>>
    BY DEF Sweep, KeepSets, SweepList, SweepVisit
  <1>2. ASSUME UNCHANGED <<disk, clean>>
        PROVE  BlobsInv' /\ SerialInv'
    <2>1. \A i \in clean : i \in FileIds /\ Serial(i) /\ Busy(i)' = Busy(i)
      BY <1>1 DEF FilesInv, RestInv, SerialInv, Busy
    <2> QED
      BY <1>1, <1>2, <2>1, Untouched, SameBlobs DEF SerialInv
  <1>3. ASSUME NEW k \in Blobs, disk' = [disk EXCEPT ![k] = Null], clean' = clean \ {k[1]}
        PROVE  BlobsInv' /\ SerialInv'
    <2>1. PICK i \in FileIds, t \in Types : k = <<i, t>>
      BY DEF Blobs
    <2>2. /\ disk' \in [Blobs -> Bytes \cup {Null}] /\ disk'[<<i, t>>] = Null
          /\ \A j \in FileIds, u \in Types : j # i \/ u # t => disk'[<<j, u>>] = disk[<<j, u>>]
      BY <1>3, <2>1, OneBlob DEF FilesInv
    <2>3. BlobsInv'
      BY <1>1, <2>2 DEF FilesInv, BlobsInv
    <2>4. \A j \in clean' : j \in FileIds \ {i} /\ Serial(j) /\ Busy(j)' = Busy(j)
      BY <1>1, <1>3, <2>1 DEF FilesInv, RestInv, SerialInv, Busy
    <2>5. \A j \in clean' : Serial(j)'
      BY <1>1, <2>2, <2>4, Untouched
    <2> QED
      BY <2>3, <2>5 DEF SerialInv
  <1> QED
    BY <1>1, <1>2, <1>3 DEF Sweep, KeepSets, SweepList, SweepVisit

LEMMA RestStep ==
  ASSUME FilesInv, [Next]_vars
  PROVE  RestInv'
  <1>1. ASSUME NEW r \in Reqs, Request(r) \/ Handle(r)
        PROVE  sweep' = sweep /\ clean' \subseteq clean /\ faults' = faults
    BY <1>1 DEF Request, Upload, Serve, Delete, Patch, Put, Arrive, Handle, CreateRow, CreateWrite,
       Write, ServeRow, ServeOpen, PatchRead, Load, PatchCheck, PatchOpen, PatchWrite, PatchRow,
       Store, PutRead, PutWrite, PutRow, PutDelete, Remove, DeleteRead, DeleteRow, DeleteBlob
  <1>2. faults < MaxFaults => faults + 1 \in 0..MaxFaults
    BY FaultsAssumption DEF FilesInv, RestInv
  <1>3. ASSUME NEW r \in Reqs, Fail(r)
        PROVE  RestInv'
    BY <1>2, <1>3 DEF Fail, FilesInv, RestInv
  <1>4. CASE Crash
    BY <1>2, <1>4 DEF Crash, BootSweep, FilesInv, RestInv
  <1>5. CASE Sweep
    <2>1. CASE KeepSets
      BY <2>1 DEF KeepSets, FilesInv, RestInv
    <2>2. CASE SweepList
      <3>1. PICK todo : /\ todo = {k \in Blobs : disk[k] # Null}
                        /\ sweep' = [sweep EXCEPT !.phase = "walk", !.todo = todo]
        BY <2>2 DEF SweepList
      <3>2. todo \in SUBSET Blobs
        BY <3>1
      <3> QED
        BY <2>2, <3>1, <3>2 DEF SweepList, FilesInv, RestInv
    <2>3. ASSUME NEW k \in Blobs, SweepVisit(k)
          PROVE  RestInv'
      BY <2>3 DEF SweepVisit, FilesInv, RestInv
    <2> QED
      BY <1>5, <2>1, <2>2, <2>3 DEF Sweep
  <1>6. CASE UNCHANGED vars
    BY <1>6 DEF vars, FilesInv, RestInv
  <1> QED
    BY <1>1, <1>3, <1>4, <1>5, <1>6 DEF Next, FilesInv, RestInv

LEMMA FilesStep ==
  ASSUME FilesInv, SerialInv, [Next]_vars
  PROVE  FilesInv' /\ SerialInv'
  <1>1. ASSUME NEW r \in Reqs, Request(r)
        PROVE  TablesInv' /\ BlobsInv' /\ HandlersInv' /\ SerialInv'
    <2>1. UNCHANGED <<files, minted, disk>>
      BY <1>1 DEF Request, Upload, Serve, Delete, Patch, Put, Arrive
    <2> QED
      BY <1>1, <2>1, RequestStep, SameTables, SameBlobs
  <1>2. ASSUME NEW r \in Reqs, Fail(r)
        PROVE  TablesInv' /\ BlobsInv' /\ HandlersInv' /\ SerialInv'
    <2>1. UNCHANGED <<files, minted, disk>>
      BY <1>2 DEF Fail
    <2> QED
      BY <1>2, <2>1, FailStep, SameTables, SameBlobs
  <1>3. CASE Crash
    <2>1. UNCHANGED <<files, minted, disk>>
      BY <1>3 DEF Crash
    <2> QED
      BY <1>3, <2>1, CrashStep, RestStep, SameTables, SameBlobs DEF FilesInv
  <1>4. CASE Sweep
    <2>1. HandlersInv'
      BY <1>4, SweepStep DEF FilesInv, HandlersInv, HandlerOK
    <2> QED
      BY <1>4, <2>1, SweepStep, RestStep, SameTables DEF FilesInv
  <1>5. CASE UNCHANGED vars
    <2>1. UNCHANGED <<files, minted, disk, req, clean>>
      BY <1>5 DEF vars
    <2>2. HandlersInv'
      BY <2>1 DEF FilesInv, HandlersInv, HandlerOK
    <2>3. \A i \in clean : i \in FileIds /\ Serial(i) /\ Busy(i)' = Busy(i)
      BY <2>1 DEF FilesInv, RestInv, SerialInv, Busy
    <2>4. SerialInv'
      BY <2>1, <2>3, Untouched DEF SerialInv
    <2> QED
      BY <2>1, <2>2, <2>4, RestStep, SameTables, SameBlobs DEF FilesInv
  <1> QED
    BY <1>1, <1>2, <1>3, <1>4, <1>5, HandleStep, RestStep DEF Next, FilesInv

----------------------------------------------------------------------------
(* What follows.                                                           *)

LEMMA Invariance == Spec => [](FilesInv /\ SerialInv)
  <1>1. Init => FilesInv /\ SerialInv
    <2> SUFFICES ASSUME Init
                 PROVE  FilesInv /\ SerialInv
      OBVIOUS
    <2>1. TablesInv /\ HandlersInv
      BY DEF Init, TablesInv, HandlersInv
    <2>2. BlobsInv
      BY DEF Init, BlobsInv, Blobs
    <2>3. RestInv
      BY FaultsAssumption DEF Init, RestInv, BootSweep
    <2>4. \A i \in FileIds : Busy(i) = {} /\ Whole(i)
      BY <2>2 DEF Init, Busy, Whole, BlobsOf, BlobsInv
    <2>5. SerialInv
      BY <2>4 DEF Init, SerialInv, Serial
    <2> QED
      BY <2>1, <2>2, <2>3, <2>5 DEF FilesInv
  <1>2. FilesInv /\ SerialInv /\ [Next]_vars => (FilesInv /\ SerialInv)'
    BY FilesStep
  <1> QED
    BY <1>1, <1>2, PTL DEF Spec

(* Every variable stays within its type.                                   *)
THEOREM TypeCorrect == Spec => []TypeOK
  <1>1. FilesInv => TypeOK
    BY DEF FilesInv, TablesInv, BlobsInv, HandlersInv, RestInv, TypeOK
  <1> QED
    BY <1>1, Invariance, PTL

(* The bytes served are of the type announced, though serveFileRaw opens   *)
(* the blob after it read the row: the row names the blob by its type, and *)
(* whoever writes a blob of that name writes bytes of that type.           *)
THEOREM AnnouncedTypeServed == Spec => []ServedAsTheyAre
  <1>1. ASSUME FilesInv, NEW r \in Reqs, At(r, "serve_open")
        PROVE  LET h == req[r] IN disk[<<h.file, h.row.ext>>] # Null
                                  => disk[<<h.file, h.row.ext>>].type = h.row.mime
    <2>1. HandlerOK(r) /\ req[r].pc = "serve_open"
      BY <1>1, AtWork DEF Pcs, At
    <2>2. /\ req[r].file \in FileIds /\ req[r].row.ext \in Types
          /\ req[r].row.mime = req[r].row.ext
      BY <1>1, <2>1 DEF HandlerOK, RowPcs, Rows, FilesInv, TablesInv
    <2> QED
      BY <1>1, <2>2 DEF FilesInv, BlobsInv
  <1>2. FilesInv => ServedAsTheyAre
    BY <1>1 DEF ServedAsTheyAre
  <1> QED
    BY <1>2, Invariance, PTL

(* A file whose requests came one after the other, without a fault, is     *)
(* whole when none is at work: its row names its one blob and knows it,    *)
(* and a deleted file leaves none.                                         *)
THEOREM SerialRequestsWhole == Spec => []SerialFilesWhole
  <1>1. SerialInv => SerialFilesWhole
    BY DEF SerialInv, Serial, SerialFilesWhole
  <1> QED
    BY <1>1, Invariance, PTL

----------------------------------------------------------------------------
(* What no run states: deletion and the sweep, in the presence of every    *)
(* request under way.                                                      *)

(* A deleted file never comes back, though PatchRow and PutRow store a row *)
(* read several steps before: UpdateFile is an UPDATE, and identifiers are *)
(* not reused.                                                             *)
NoResurrection == [][\A i \in minted : files[i] = Null => files'[i] = Null]_vars

LEMMA DeletedStays ==
  ASSUME FilesInv, [Next]_vars, NEW i \in minted, files[i] = Null
  PROVE  files'[i] = Null
  <1>1. ASSUME NEW r \in Reqs, CreateRow(r)
        PROVE  files'[i] = Null
    <2>1. PICK j \in FileIds \ minted : \E row : files' = [files EXCEPT ![j] = row]
      BY <1>1 DEF CreateRow
    <2> QED
      BY <2>1 DEF FilesInv, TablesInv
  <1>2. ASSUME NEW r \in Reqs, NEW next, Store(r, next)
        PROVE  files'[i] = Null
    BY <1>2 DEF Store, FilesInv, TablesInv
  <1>3. ASSUME NEW r \in Reqs, DeleteRow(r)
        PROVE  files'[i] = Null
    BY <1>3 DEF DeleteRow, FilesInv, TablesInv
  <1>4. ASSUME NEW r \in Reqs, Request(r) \/ Fail(r)
        PROVE  UNCHANGED files
    BY <1>4 DEF Request, Upload, Serve, Delete, Patch, Put, Arrive, Fail
  <1>5. ASSUME NEW r \in Reqs, Handle(r)
        PROVE  UNCHANGED files \/ CreateRow(r) \/ DeleteRow(r) \/ \E next : Store(r, next)
    BY <1>5 DEF Handle, CreateWrite, Write, ServeRow, ServeOpen, PatchRead, Load, PatchCheck,
       PatchOpen, PatchWrite, PatchRow, PutRead, PutWrite, PutRow, PutDelete, Remove, DeleteRead,
       DeleteBlob
  <1>6. Sweep \/ Crash \/ UNCHANGED vars => UNCHANGED files
    BY DEF Sweep, KeepSets, SweepList, SweepVisit, Crash, vars
  <1> QED
    BY <1>1, <1>2, <1>3, <1>4, <1>5, <1>6 DEF Next

(* UpdateFile is an UPDATE, and only uploads insert, under an identifier   *)
(* of their own.                                                           *)
THEOREM DeletedStaysDeleted == Spec => NoResurrection
  <1>1. FilesInv /\ [Next]_vars => \A i \in minted : files[i] = Null => files'[i] = Null
    BY DeletedStays
  <1> QED
    BY <1>1, Invariance, PTL DEF Spec, NoResurrection

(* A blob without a row that the sweep has yet to reach.                   *)
BlobDue(k) ==
    /\ disk[k] # Null /\ files[k[1]] = Null
    /\ \/ sweep.phase = "boot"
       \/ sweep.phase = "keep" /\ k[1] \notin sweep.keep
       \/ sweep.phase = "walk" /\ k[1] \notin sweep.keep /\ k \in sweep.todo

BlobsNotPassed == \A k \in Blobs : BlobDue(k) => BlobDue(k)' \/ disk'[k] = Null

WalkShrinks ==
    sweep.phase = "walk" /\ sweep' # sweep =>
        \/ sweep' = BootSweep
        \/ /\ sweep' = [sweep EXCEPT !.todo = sweep'.todo]
           /\ sweep'.todo \subseteq sweep.todo /\ sweep'.todo # sweep.todo

(* The sweep passes over no blob that was without a row when it started:   *)
(* such a blob stays to be reached until it is gone.  And each step of the *)
(* walk leaves fewer blobs to visit, unless the process dies.              *)
SweepMissesNothing == [][BlobsNotPassed /\ WalkShrinks]_vars

(* No request starts the walk anew or makes it miss a blob; it is KeepSets *)
(* that leaves out the identifiers without a row, and they stay without.   *)
THEOREM SweepReachesAll == Spec => SweepMissesNothing
  <1>1. ASSUME FilesInv, [Next]_vars
        PROVE  BlobsNotPassed /\ WalkShrinks
    <2>1. ASSUME NEW k \in Blobs, disk[k] # Null, files[k[1]] = Null
          PROVE  files'[k[1]] = Null
      <3>1. PICK i \in FileIds, t \in Types : k = <<i, t>>
        BY DEF Blobs
      <3>2. k[1] \in minted
        BY <1>1, <2>1, <3>1 DEF FilesInv, BlobsInv
      <3> QED
        BY <1>1, <2>1, <3>2, DeletedStays
    <2>2. CASE UNCHANGED sweep
      BY <2>1, <2>2 DEF BlobsNotPassed, WalkShrinks, BlobDue
    <2>3. CASE KeepSets
      <3>1. /\ sweep.phase = "boot" /\ sweep'.phase = "keep" /\ UNCHANGED <<files, disk>>
            /\ sweep'.keep = {i \in FileIds : files[i] # Null}
        BY <2>3 DEF KeepSets
      <3> QED
        BY <3>1 DEF BlobsNotPassed, WalkShrinks, BlobDue
    <2>4. CASE SweepList
      <3> DEFINE listed == {k \in Blobs : disk[k] # Null}
      <3>1. /\ sweep.phase = "keep" /\ UNCHANGED <<files, disk>>
            /\ sweep' = [sweep EXCEPT !.phase = "walk", !.todo = listed]
        BY <2>4 DEF SweepList
      <3>2. \A k \in Blobs : disk[k] # Null => k \in listed
        OBVIOUS
      <3> HIDE DEF listed
      <3>3. sweep'.phase = "walk" /\ sweep'.keep = sweep.keep /\ sweep'.todo = listed
        BY <1>1, <3>1 DEF FilesInv, RestInv
      <3> QED
        BY <3>1, <3>2, <3>3 DEF BlobsNotPassed, WalkShrinks, BlobDue
    <2>5. ASSUME NEW k \in Blobs, SweepVisit(k)
          PROVE  BlobsNotPassed /\ WalkShrinks
      <3>1. /\ sweep.phase = "walk" /\ k \in sweep.todo
            /\ sweep' = [sweep EXCEPT !.todo = @ \ {k}] /\ UNCHANGED files
        BY <2>5 DEF SweepVisit
      <3>2. /\ sweep'.phase = "walk" /\ sweep'.keep = sweep.keep
            /\ sweep'.todo = sweep.todo \ {k} /\ sweep' = [sweep EXCEPT !.todo = sweep'.todo]
        BY <1>1, <3>1 DEF FilesInv, RestInv
      <3>3. k[1] \notin sweep.keep => disk'[k] = Null
        BY <1>1, <2>5 DEF SweepVisit, FilesInv, BlobsInv
      <3>4. \A j \in Blobs \ {k} : disk'[j] = disk[j]
        BY <1>1, <2>5 DEF SweepVisit, FilesInv, BlobsInv
      <3>5. ASSUME NEW j \in Blobs, BlobDue(j), disk'[j] # Null
            PROVE  BlobDue(j)'
        <4>1. j # k
          BY <3>1, <3>3, <3>5 DEF BlobDue
        <4> QED
          BY <3>1, <3>2, <3>4, <3>5, <4>1 DEF BlobDue
      <3>6. WalkShrinks
        BY <3>1, <3>2 DEF WalkShrinks
      <3> QED
        BY <3>5, <3>6 DEF BlobsNotPassed
    <2>6. CASE Crash
      <3>1. sweep' = BootSweep /\ sweep'.phase = "boot" /\ UNCHANGED <<files, disk>>
        BY <2>6 DEF Crash, BootSweep
      <3> QED
        BY <3>1 DEF BlobsNotPassed, WalkShrinks, BlobDue
    <2>7. ASSUME NEW r \in Reqs, Request(r) \/ Handle(r) \/ Fail(r)
          PROVE  UNCHANGED sweep
      BY <2>7 DEF Request, Upload, Serve, Delete, Patch, Put, Arrive, Handle, CreateRow,
         CreateWrite, Write, ServeRow, ServeOpen, PatchRead, Load, PatchCheck, PatchOpen,
         PatchWrite, PatchRow, Store, PutRead, PutWrite, PutRow, PutDelete, Remove, DeleteRead,
         DeleteRow, DeleteBlob, Fail
    <2>8. UNCHANGED vars => UNCHANGED sweep
      BY DEF vars
    <2> QED
      BY <1>1, <2>2, <2>3, <2>4, <2>5, <2>6, <2>7, <2>8 DEF Next, Sweep
  <1> QED
    BY <1>1, Invariance, PTL DEF Spec, SweepMissesNothing
=============================================================================
