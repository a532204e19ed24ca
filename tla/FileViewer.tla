----------------------------- MODULE FileViewer -----------------------------
(***************************************************************************)
(* The viewer that covers the main page (files.js): an image that can be   *)
(* turned and saved, a PDF drawn on a canvas, or a Markdown text.          *)
(*                                                                         *)
(* Each kind is shown in an element of its own, of which the viewer shows  *)
(* the one of the current file's kind.  Documents arrive when their fetch  *)
(* ends, whatever is open by then.  Images come from the browser's cache   *)
(* or from the server: the server's answers carry a modification time that *)
(* never changes, so a copy the browser has stays good for it.             *)
(*                                                                         *)
(* An image is seen as its bytes turned by the angle the viewer applies.   *)
(* The browser turns pictures as CSS does; the server as rotate.go does.   *)
(***************************************************************************)
EXTENDS Rotation

CONSTANTS Files,
          Kind,         \* file -> "image", "pdf" or "markdown"
          Rotatable,    \* SERVER_ROTATABLE, the mime types the server turns
          Recoded,      \* the type canvas.toBlob makes, one of them
          Deletable,    \* the files that may be deleted, a bound
          Requests, Null

VARIABLES
    rows,       \* the server's items; an image has its mime and its picture
    visible,    \* the viewer is open
    name,       \* the file viewer-name names, and whose kind's element is shown
    current,    \* state.current: file, and mime it was listed with, or Null
    imgRot,     \* state.imgRot
    img,        \* the picture in viewer-img
    element,    \* kind -> the file in its element, or Null
    cache,      \* the browser's copies of images: file -> picture, or Null
    asked,      \* calls under way
    overtaken   \* history: the file was opened while another was on its way, or did not come

viewer == <<visible, name, current, imgRot, img, element, cache, asked, overtaken>>

Kinds  == {"image", "pdf", "markdown"}
NoCall == [op |-> "none"]

Call(op, f) == [op |-> op, file |-> f, deg |-> 0, data |-> Null, state |-> "sent",
                seen |-> Null]

(* What the browser shows of a picture turned by deg: its rows, the last   *)
(* one first, become columns, once for every quarter.                      *)
QuarterTurn(p) ==
    [w |-> p.h, h |-> p.w,
     at |-> [q \in Points(p.h, p.w) |-> p.at[<<q[2], p.h - 1 - q[1]>>]]]

Seen(p, deg) ==
    CASE deg = 0   -> p
      [] deg = 90  -> QuarterTurn(p)
      [] deg = 180 -> QuarterTurn(QuarterTurn(p))
      [] deg = 270 -> QuarterTurn(QuarterTurn(QuarterTurn(p)))

Closed ==
    /\ visible = FALSE /\ name = Null /\ current = Null /\ imgRot = 0 /\ img = Null
    /\ element = [k \in Kinds |-> Null] /\ cache = [f \in Files |-> Null]
    /\ asked = [c \in Requests |-> NoCall] /\ overtaken = FALSE

(* What the browser has of image f: its copy, or the server's answer.      *)
Loaded(f, p) ==
    \/ cache[f] # Null /\ p = cache[f] /\ UNCHANGED cache
    \/ p = rows[f].picture /\ cache' = [cache EXCEPT ![f] = p]

OnItsWay(k) == \E c \in Requests : asked[c].op \in {k, "turn"}

----------------------------------------------------------------------------
(* openViewer, of a file of the list.                                      *)
OpenViewer(f) ==
    /\ ~visible /\ rows[f] # Null
    /\ visible' = TRUE /\ name' = f /\ overtaken' = OnItsWay(Kind[f])

OpenImage(f) ==
    /\ Kind[f] = "image" /\ OpenViewer(f)
    /\ current' = [file |-> f, mime |-> rows[f].mime]
    /\ imgRot' = 0 /\ element' = [element EXCEPT !["image"] = f]
    /\ \E p \in {cache[f], rows[f].picture} : Loaded(f, p) /\ img' = p
    /\ UNCHANGED <<rows, asked>>

OpenDocument(c, f) ==
    /\ Kind[f] # "image" /\ OpenViewer(f)
    /\ asked[c] = NoCall
    /\ current' = [file |-> f, mime |-> Kind[f]]
    /\ asked' = [asked EXCEPT ![c] = Call(Kind[f], f)]
    /\ UNCHANGED <<rows, imgRot, img, element, cache>>

(* Mutant of Place: the element that is shown.                             *)
PlaceShown(f) == IF visible THEN Kind[name] ELSE Kind[f]

Place(f) == Kind[f]

(* The document is there, or could not be opened: then its element stays.  *)
DocumentArrives(c) ==
    /\ asked[c].op \in {"pdf", "markdown"}
    /\ LET f == asked[c].file IN
         \/ element' = [element EXCEPT ![Place(f)] = f] /\ UNCHANGED overtaken
         \/ overtaken' = TRUE /\ UNCHANGED element
    /\ asked' = [asked EXCEPT ![c] = NoCall]
    /\ UNCHANGED <<rows, visible, name, current, imgRot, img, cache>>

(* closeViewer: the canvas keeps the page it shows.                        *)
ShutViewer ==
    /\ visible' = FALSE /\ name' = Null /\ current' = Null /\ img' = Null
    /\ element' = [element EXCEPT !["image"] = Null, !["markdown"] = Null]
    /\ UNCHANGED <<imgRot, cache, asked, overtaken>>

CloseViewer == visible /\ ShutViewer /\ UNCHANGED rows

(* viewer-delete, once it is answered.                                     *)
DeleteFile ==
    /\ visible /\ current.file \in Deletable /\ rows[current.file] # Null
    /\ rows' = [rows EXCEPT ![current.file] = Null]
    /\ ShutViewer

----------------------------------------------------------------------------
(* Mutant of TurnedBy: the angle is not reduced.                           *)
NotReduced(by) == imgRot + by

TurnedBy(by) == (imgRot + by) % 360

(* viewer-rotate-left, viewer-rotate-right, viewer-img-fit.                *)
Rotate(by) ==
    /\ visible /\ Kind[name] = "image"
    /\ imgRot' = IF by = 0 THEN 0 ELSE TurnedBy(by)
    /\ UNCHANGED <<rows, visible, name, current, img, element, cache, asked, overtaken>>

(* viewer-save-rot.  It is pressed again as long as it is not answered.    *)
SaveRotation(c) ==
    /\ visible /\ Kind[name] = "image" /\ imgRot # 0
    /\ asked[c] = NoCall
    /\ LET f == current.file
           first == \A d \in Requests : asked[d].op # "turn"
           true == rows[f] # Null /\ img = rows[f].picture /\ cache[f] \in {Null, img}
       IN asked' = [d \in Requests |->
                     CASE d = c -> [Call("turn", f) EXCEPT !.deg = imgRot,
                                      !.state = IF current.mime \in Rotatable THEN "patch" ELSE "fetch",
                                      !.seen = IF first /\ true THEN Seen(img, imgRot) ELSE Null]
                       [] d # c /\ asked[d].op = "turn" -> [asked[d] EXCEPT !.seen = Null]
                       [] OTHER -> asked[d]]
    /\ UNCHANGED <<rows, visible, name, current, imgRot, img, element, cache, overtaken>>

(* transcodeImage: the browser turns the image it loads.                   *)
Transcode(c) ==
    /\ asked[c].op = "turn" /\ asked[c].state = "fetch"
    /\ LET x == asked[c] IN
         \/ /\ rows[x.file] # Null
            /\ \E p \in {cache[x.file], rows[x.file].picture} :
                 /\ Loaded(x.file, p)
                 /\ asked' = [asked EXCEPT ![c].state = "put", ![c].data = Seen(p, x.deg)]
         \/ asked' = [asked EXCEPT ![c] = NoCall] /\ UNCHANGED cache
    /\ UNCHANGED <<rows, visible, name, current, imgRot, img, element, overtaken>>

(* Mutant of Baked: the server turns the picture the other way.            *)
BakedLeft(p, deg) == rotate(p, (360 - deg) % 360)

Baked(p, deg) == rotate(p, deg)

(* PATCH with the rotation, or PUT with the new bytes (Files shows both as *)
(* they are); either may be refused.                                       *)
ServeTurn(c) ==
    /\ asked[c].op = "turn" /\ asked[c].state \in {"patch", "put"}
    /\ LET x == asked[c] IN
         \/ /\ rows[x.file] # Null
            /\ x.state = "patch" => rows[x.file].mime \in Rotatable
            /\ rows' = [rows EXCEPT
                 ![x.file].picture = IF x.state = "patch" THEN Baked(@, x.deg) ELSE x.data,
                 ![x.file].mime    = IF x.state = "patch" THEN @ ELSE Recoded]
            /\ asked' = [asked EXCEPT ![c].state = "done"]
         \/ asked' = [asked EXCEPT ![c] = NoCall] /\ UNCHANGED rows
    /\ UNCHANGED <<visible, name, current, imgRot, img, element, cache, overtaken>>

(* The answer: the file it speaks of becomes the current one, its picture  *)
(* is fetched under a new address (?t=), past the cache.                   *)
TurnAnswered(c) ==
    /\ asked[c].op = "turn" /\ asked[c].state = "done"
    /\ LET f == asked[c].file IN
         /\ current' = [file |-> f, mime |-> IF rows[f] = Null THEN Recoded ELSE rows[f].mime]
         /\ imgRot' = 0
         /\ img' = IF rows[f] = Null THEN Null ELSE rows[f].picture
         /\ element' = [element EXCEPT !["image"] = f]
    /\ asked' = [asked EXCEPT ![c] = NoCall]
    /\ UNCHANGED <<rows, visible, name, cache, overtaken>>

Next ==
    \/ \E f \in Files : OpenImage(f) \/ \E c \in Requests : OpenDocument(c, f)
    \/ CloseViewer \/ DeleteFile
    \/ \E by \in {0, 90, 270} : Rotate(by)
    \/ \E c \in Requests : \/ DocumentArrives(c) \/ SaveRotation(c) \/ Transcode(c)
                           \/ ServeTurn(c) \/ TurnAnswered(c)

----------------------------------------------------------------------------
TypeOK ==
    /\ visible \in BOOLEAN /\ overtaken \in BOOLEAN
    /\ name \in Files \cup {Null}
    /\ current # Null => current.file \in Files
    /\ imgRot \in Degrees
    /\ element \in [Kinds -> Files \cup {Null}]
    /\ visible => name # Null /\ current.file \in Files
    /\ \A c \in Requests : /\ asked[c].op \in {"none"} \cup Kinds \cup {"turn"}
                           /\ asked[c] # NoCall => asked[c].file \in Files

(* The file that is named is the one that is shown, and the one that Save  *)
(* and Delete mean, once its document is there: although documents opened  *)
(* before, of another kind, may still arrive.  Of two of one kind, the     *)
(* last to arrive is shown; and a rotation answered late takes over.       *)
ShownIsCurrent ==
    visible /\ ~overtaken /\ ~OnItsWay(Kind[name])
        => current.file = name /\ element[Kind[name]] = name

(* What Save stores, and the viewer shows then, is the picture as it was   *)
(* seen when Save was pressed, on the server's path as on the browser's:   *)
(* if it was the stored picture that was seen, and Save was pressed once.  *)
(* (An image opened again comes from the cache, unturned.)                 *)
SavedAsSeen ==
    [][\A c \in Requests :
         /\ asked[c].op = "turn" /\ asked[c].state = "done" /\ asked[c].seen # Null
         /\ asked'[c] = NoCall /\ rows[asked[c].file] # Null
         => img' = asked[c].seen /\ rows'[asked[c].file].picture = asked[c].seen]_<<rows, viewer>>
=============================================================================
