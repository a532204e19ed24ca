------------------------------ MODULE Rotation ------------------------------
(***************************************************************************)
(* Turning pictures by quarter turns, clockwise: rotate.go in the server.  *)
(*                                                                         *)
(* A picture is its width, its height and the colour of every point of     *)
(* (0..w-1) \X (0..h-1), x to the right and y down; its own bounds may     *)
(* start anywhere, which rotate takes off, so here they start at <<0, 0>>. *)
(* A rectangle holds its points from x0, y0 up to, not with, x1, y1.       *)
(* Decoding and encoding keep the points; what else they keep or lose (a   *)
(* JPEG's EXIF orientation is lost) is left out.                           *)
(***************************************************************************)
EXTENDS Integers

Degrees == {0, 90, 180, 270}

Points(w, h) == (0..(w - 1)) \X (0..(h - 1))

IsPicture(p) ==
    /\ p.w \in Nat \ {0} /\ p.h \in Nat \ {0}
    /\ p = [w |-> p.w, h |-> p.h, at |-> [q \in Points(p.w, p.h) |-> p.at[q]]]

(* Mutants of rotPoint: counterclockwise; off by one.                      *)
RotPointLeft(x, y, w, h, deg) ==
    CASE deg = 90  -> <<y, w - 1 - x>>
      [] deg = 180 -> <<w - 1 - x, h - 1 - y>>
      [] deg = 270 -> <<h - 1 - y, x>>
      [] OTHER     -> <<x, y>>

rotPoint(x, y, w, h, deg) ==
    CASE deg = 90  -> <<h - 1 - y, x>>
      [] deg = 180 -> <<w - 1 - x, h - 1 - y>>
      [] deg = 270 -> <<y, w - 1 - x>>
      [] OTHER     -> <<x, y>>

Sideways(deg)         == deg \in {90, 270}
RotWidth(w, h, deg)   == IF Sideways(deg) THEN h ELSE w
RotHeight(w, h, deg)  == IF Sideways(deg) THEN w ELSE h

(* dst starts blank; every point of src is set in it.                      *)
rotate(img, deg) ==
    LET W == RotWidth(img.w, img.h, deg)
        H == RotHeight(img.w, img.h, deg)
    IN [w |-> W, h |-> H,
        at |-> [q \in Points(W, H) |->
                  LET src == {p \in Points(img.w, img.h) :
                                rotPoint(p[1], p[2], img.w, img.h, deg) = q}
                  IN IF src = {} THEN "blank" ELSE img.at[CHOOSE p \in src : TRUE]]]

----------------------------------------------------------------------------
(* Frames of an animated GIF: rectangles on its canvas.                    *)

Lesser(a, b)  == IF a < b THEN a ELSE b
Greater(a, b) == IF a < b THEN b ELSE a

Within(r) == (r.x0..(r.x1 - 1)) \X (r.y0..(r.y1 - 1))

(* The corners r.Min and r.Max - 1, turned, and put in order again.        *)
rotRect(r, w, h, deg) ==
    LET a == rotPoint(r.x0, r.y0, w, h, deg)
        b == rotPoint(r.x1 - 1, r.y1 - 1, w, h, deg)
    IN [x0 |-> Lesser(a[1], b[1]), y0 |-> Lesser(a[2], b[2]),
        x1 |-> Greater(a[1], b[1]) + 1, y1 |-> Greater(a[2], b[2]) + 1]

(* rotateGIF: a GIF is the size of its canvas and its frames, each with    *)
(* its rectangle and a colour for every point of it.  The canvas taken for *)
(* the turn is large enough for every frame, whatever the header says; the *)
(* header's two sizes are exchanged when the picture lies on its side.     *)
Largest(S) == CHOOSE m \in S : \A n \in S : n <= m

GrownWidth(g)  == Largest({g.w} \cup {g.frames[k].rect.x1 : k \in DOMAIN g.frames})
GrownHeight(g) == Largest({g.h} \cup {g.frames[k].rect.y1 : k \in DOMAIN g.frames})

rotateFrame(f, w, h, deg) ==
    LET R == rotRect(f.rect, w, h, deg)
    IN [rect |-> R,
        at |-> [q \in Within(R) |->
                  LET src == {p \in Within(f.rect) : rotPoint(p[1], p[2], w, h, deg) = q}
                  IN IF src = {} THEN "blank" ELSE f.at[CHOOSE p \in src : TRUE]]]

rotateGIF(g, deg) ==
    LET w == GrownWidth(g)
        h == GrownHeight(g)
    IN [w |-> IF Sideways(deg) THEN h ELSE g.w, h |-> IF Sideways(deg) THEN w ELSE g.h,
        frames |-> [k \in DOMAIN g.frames |-> rotateFrame(g.frames[k], w, h, deg)]]
=============================================================================
