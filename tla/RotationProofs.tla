--------------------------- MODULE RotationProofs ---------------------------
(***************************************************************************)
(* The server's turn is the browser's, for pictures of every size; frames  *)
(* of a GIF stay what they were, turned.                                   *)
(***************************************************************************)
EXTENDS FileViewer, TLAPS

Back(deg) == IF deg = 0 THEN 0 ELSE 360 - deg

(* rotPoint keeps to the turned canvas.                                    *)
LEMMA PointInside ==
    ASSUME NEW w \in Nat \ {0}, NEW h \in Nat \ {0}, NEW deg \in Degrees, NEW p \in Points(w, h)
    PROVE  rotPoint(p[1], p[2], w, h, deg) \in Points(RotWidth(w, h, deg), RotHeight(w, h, deg))
BY DEF Points, Degrees, rotPoint, RotWidth, RotHeight, Sideways

(* Turning on by what is left of the circle comes back to the point, and   *)
(* nothing else does.                                                      *)
LEMMA PointBack ==
    ASSUME NEW w \in Nat \ {0}, NEW h \in Nat \ {0}, NEW deg \in Degrees,
           NEW p \in Points(w, h),
           NEW q \in Points(RotWidth(w, h, deg), RotHeight(w, h, deg))
    PROVE  rotPoint(p[1], p[2], w, h, deg) = q
             <=> p = rotPoint(q[1], q[2], RotWidth(w, h, deg), RotHeight(w, h, deg), Back(deg))
BY DEF Points, Degrees, rotPoint, RotWidth, RotHeight, Sideways, Back

Pictures(w, h, C) == [w : {w}, h : {h}, at : [Points(w, h) -> C]]

LEMMA RotateAt ==
    ASSUME NEW w \in Nat \ {0}, NEW h \in Nat \ {0}, NEW deg \in Degrees, NEW C,
           NEW pic \in Pictures(w, h, C),
           NEW q \in Points(RotWidth(w, h, deg), RotHeight(w, h, deg))
    PROVE  rotate(pic, deg).at[q]
             = pic.at[rotPoint(q[1], q[2], RotWidth(w, h, deg), RotHeight(w, h, deg), Back(deg))]
<1> DEFINE W == RotWidth(w, h, deg)
           H == RotHeight(w, h, deg)
           u == rotPoint(q[1], q[2], W, H, Back(deg))
           src == {p \in Points(w, h) : rotPoint(p[1], p[2], w, h, deg) = q}
<1>1. u \in Points(w, h)
  BY DEF Points, Degrees, rotPoint, RotWidth, RotHeight, Sideways, Back
<1>2. src = {u}
  BY <1>1, PointBack
<1>3. rotate(pic, deg).at[q] = IF src = {} THEN "blank" ELSE pic.at[CHOOSE p \in src : TRUE]
  BY DEF rotate, Pictures
<1> HIDE DEF src, u
<1>4. (CHOOSE p \in src : TRUE) = u /\ src # {}
  BY <1>2
<1> QED BY <1>3, <1>4 DEF u

LEMMA QuarterIsPicture ==
    ASSUME NEW w \in Nat \ {0}, NEW h \in Nat \ {0}, NEW C, NEW pic \in Pictures(w, h, C)
    PROVE  QuarterTurn(pic) \in Pictures(h, w, C)
<1>1. pic.w = w /\ pic.h = h /\ pic.at \in [Points(w, h) -> C]
  BY DEF Pictures
<1>2. \A q \in Points(h, w) : <<q[2], h - 1 - q[1]>> \in Points(w, h)
  BY DEF Points
<1> QED BY <1>1, <1>2 DEF Pictures, QuarterTurn

LEMMA QuarterAt ==
    ASSUME NEW w \in Nat \ {0}, NEW h \in Nat \ {0}, NEW C, NEW pic \in Pictures(w, h, C),
           NEW q \in Points(h, w)
    PROVE  /\ <<q[2], h - 1 - q[1]>> \in Points(w, h)
           /\ QuarterTurn(pic).at[q] = pic.at[<<q[2], h - 1 - q[1]>>]
<1>1. pic.w = w /\ pic.h = h
  BY DEF Pictures
<1>2. QuarterTurn(pic).at = [r \in Points(h, w) |-> pic.at[<<r[2], h - 1 - r[1]>>]]
  BY <1>1 DEF QuarterTurn
<1>3. <<q[2], h - 1 - q[1]>> \in Points(w, h)
  BY DEF Points
<1> QED BY <1>2, <1>3

(* Every point the viewer shows is the point rotPoint sends there.         *)
LEMMA SeenAt ==
    ASSUME NEW w \in Nat \ {0}, NEW h \in Nat \ {0}, NEW C, NEW pic \in Pictures(w, h, C),
           NEW deg \in Degrees,
           NEW q \in Points(RotWidth(w, h, deg), RotHeight(w, h, deg))
    PROVE  Seen(pic, deg).at[q]
             = pic.at[rotPoint(q[1], q[2], RotWidth(w, h, deg), RotHeight(w, h, deg), Back(deg))]
<1> DEFINE one == QuarterTurn(pic)
           two == QuarterTurn(one)
           three == QuarterTurn(two)
<1>1. one \in Pictures(h, w, C) /\ two \in Pictures(w, h, C)
  BY QuarterIsPicture
<1>2. ASSUME NEW r \in Points(h, w)
      PROVE  <<r[2], h - 1 - r[1]>> \in Points(w, h) /\ one.at[r] = pic.at[<<r[2], h - 1 - r[1]>>]
  BY QuarterAt
<1>3. ASSUME NEW r \in Points(w, h)
      PROVE  <<r[2], w - 1 - r[1]>> \in Points(h, w) /\ two.at[r] = one.at[<<r[2], w - 1 - r[1]>>]
  BY <1>1, QuarterAt
<1>4. ASSUME NEW r \in Points(h, w)
      PROVE  <<r[2], h - 1 - r[1]>> \in Points(w, h) /\ three.at[r] = two.at[<<r[2], h - 1 - r[1]>>]
  BY <1>1, QuarterAt
<1> HIDE DEF one, two, three
<1>5. CASE deg = 0
  <2>1. Seen(pic, deg) = pic
    BY <1>5 DEF Seen
  <2>2. q = <<q[1], q[2]>>
    BY DEF Points
  <2> QED BY <1>5, <2>1, <2>2 DEF rotPoint, Back
<1>6. CASE deg = 90
  <2>1. Seen(pic, deg) = one /\ q \in Points(h, w)
    BY <1>6 DEF Seen, RotWidth, RotHeight, Sideways, one
  <2>2. rotPoint(q[1], q[2], h, w, 270) = <<q[2], h - 1 - q[1]>>
    BY DEF rotPoint
  <2> QED BY <1>2, <1>6, <2>1, <2>2 DEF Back, RotWidth, RotHeight, Sideways
<1>7. CASE deg = 180
  <2>1. Seen(pic, deg) = two /\ q \in Points(w, h)
    BY <1>7 DEF Seen, RotWidth, RotHeight, Sideways, one, two
  <2>2. q[1] \in 0..w - 1 /\ q[2] \in 0..h - 1
    BY <2>1 DEF Points
  <2>3. two.at[q] = pic.at[<<w - 1 - q[1], h - 1 - q[2]>>]
    <3> DEFINE r == <<q[2], w - 1 - q[1]>>
    <3>1. r \in Points(h, w) /\ two.at[q] = one.at[r]
      BY <1>3, <2>1
    <3>2. one.at[r] = pic.at[<<r[2], h - 1 - r[1]>>]
      BY <1>2, <3>1
    <3> QED BY <3>1, <3>2
  <2>4. rotPoint(q[1], q[2], w, h, 180) = <<w - 1 - q[1], h - 1 - q[2]>>
    BY DEF rotPoint
  <2> QED BY <1>7, <2>1, <2>3, <2>4 DEF Back, RotWidth, RotHeight, Sideways
<1>8. CASE deg = 270
  <2>1. Seen(pic, deg) = three /\ q \in Points(h, w)
    BY <1>8 DEF Seen, RotWidth, RotHeight, Sideways, one, two, three
  <2>2. q[1] \in 0..h - 1 /\ q[2] \in 0..w - 1
    BY <2>1 DEF Points
  <2> DEFINE r == <<q[2], h - 1 - q[1]>>
             t == <<r[2], w - 1 - r[1]>>
  <2>3. r \in Points(w, h) /\ three.at[q] = two.at[r]
    BY <1>4, <2>1
  <2>4. t \in Points(h, w) /\ two.at[r] = one.at[t]
    BY <1>3, <2>3
  <2>5. one.at[t] = pic.at[<<t[2], h - 1 - t[1]>>]
    BY <1>2, <2>4
  <2>6. <<t[2], h - 1 - t[1]>> = <<w - 1 - q[2], q[1]>>
    BY <2>2
  <2>7. rotPoint(q[1], q[2], h, w, 90) = <<w - 1 - q[2], q[1]>>
    BY DEF rotPoint
  <2> HIDE DEF r, t
  <2> QED BY <1>8, <2>1, <2>3, <2>4, <2>5, <2>6, <2>7 DEF Back, RotWidth, RotHeight, Sideways
<1> QED BY <1>5, <1>6, <1>7, <1>8 DEF Degrees

LEMMA SeenIsPicture ==
    ASSUME NEW w \in Nat \ {0}, NEW h \in Nat \ {0}, NEW C, NEW pic \in Pictures(w, h, C),
           NEW deg \in Degrees
    PROVE  Seen(pic, deg) \in Pictures(RotWidth(w, h, deg), RotHeight(w, h, deg), C)
<1> DEFINE one == QuarterTurn(pic)
           two == QuarterTurn(one)
<1>1. /\ one \in Pictures(h, w, C) /\ two \in Pictures(w, h, C)
      /\ QuarterTurn(two) \in Pictures(h, w, C)
  BY QuarterIsPicture
<1> QED BY <1>1 DEF Seen, Degrees, RotWidth, RotHeight, Sideways

(* What the server stores is what the viewer showed: rotate.go and the     *)
(* browser's CSS turn a picture of any size by the same rule, and a turn   *)
(* leaves no point of the result unset.                                    *)
THEOREM TurnedAsSeen ==
    ASSUME NEW w \in Nat \ {0}, NEW h \in Nat \ {0}, NEW C, NEW pic \in Pictures(w, h, C),
           NEW deg \in Degrees
    PROVE  rotate(pic, deg) = Seen(pic, deg)
<1> DEFINE W == RotWidth(w, h, deg)
           H == RotHeight(w, h, deg)
           a == rotate(pic, deg)
           b == Seen(pic, deg)
<1>1. a = [w |-> W, h |-> H, at |-> a.at] /\ a.at = [q \in Points(W, H) |-> a.at[q]]
  <2> DEFINE e(q) == LET src == {p \in Points(w, h) : rotPoint(p[1], p[2], w, h, deg) = q}
                     IN IF src = {} THEN "blank" ELSE pic.at[CHOOSE p \in src : TRUE]
             f == [q \in Points(W, H) |-> e(q)]
  <2>1. pic.w = w /\ pic.h = h
    BY DEF Pictures
  <2>2. a = [w |-> W, h |-> H, at |-> f]
    BY <2>1 DEF rotate
  <2> HIDE DEF e
  <2>3. f = [q \in Points(W, H) |-> f[q]]
    OBVIOUS
  <2> QED BY <2>2, <2>3
<1>2. b = [w |-> W, h |-> H, at |-> b.at] /\ b.at = [q \in Points(W, H) |-> b.at[q]]
  <2>1. b \in [w : {W}, h : {H}, at : [Points(W, H) -> C]]
    BY SeenIsPicture DEF Pictures
  <2> HIDE DEF b, W, H
  <2> QED BY <2>1
<1>3. \A q \in Points(W, H) : a.at[q] = b.at[q]
  BY RotateAt, SeenAt
<1> HIDE DEF W, H, a, b
<1>4. a.at = b.at
  BY <1>1, <1>2, <1>3
<1> QED BY <1>1, <1>2, <1>4 DEF a, b

----------------------------------------------------------------------------
(* Frames of a GIF.                                                        *)

Rects(w, h) == {r \in [x0 : 0..w, y0 : 0..h, x1 : 0..w, y1 : 0..h] : r.x0 < r.x1 /\ r.y0 < r.y1}

(* A turned frame covers exactly the points its points are turned to:      *)
(* exchanging the corners loses no row and no column, at no size.          *)
THEOREM FrameCovers ==
    ASSUME NEW w \in Nat \ {0}, NEW h \in Nat \ {0}, NEW deg \in Degrees, NEW r \in Rects(w, h)
    PROVE  Within(rotRect(r, w, h, deg)) = {rotPoint(p[1], p[2], w, h, deg) : p \in Within(r)}
<1> DEFINE R == rotRect(r, w, h, deg)
           back(q) == rotPoint(q[1], q[2], RotWidth(w, h, deg), RotHeight(w, h, deg), Back(deg))
<1>1. /\ r.x0 \in 0..w /\ r.y0 \in 0..h /\ r.x1 \in 0..w /\ r.y1 \in 0..h
      /\ r.x0 < r.x1 /\ r.y0 < r.y1
  BY DEF Rects
<1>2. R = CASE deg = 90  -> [x0 |-> h - r.y1, y0 |-> r.x0, x1 |-> h - r.y0, y1 |-> r.x1]
            [] deg = 180 -> [x0 |-> w - r.x1, y0 |-> h - r.y1, x1 |-> w - r.x0, y1 |-> h - r.y0]
            [] deg = 270 -> [x0 |-> r.y0, y0 |-> w - r.x1, x1 |-> r.y1, y1 |-> w - r.x0]
            [] OTHER     -> [x0 |-> r.x0, y0 |-> r.y0, x1 |-> r.x1, y1 |-> r.y1]
  BY <1>1 DEF rotRect, rotPoint, Lesser, Greater, Degrees
<1> HIDE DEF R
<1>3. ASSUME NEW p \in Within(r) PROVE rotPoint(p[1], p[2], w, h, deg) \in Within(R)
  <2>1. p[1] \in r.x0..r.x1 - 1 /\ p[2] \in r.y0..r.y1 - 1
    BY DEF Within
  <2> QED BY <1>1, <1>2, <2>1 DEF Within, rotPoint, Degrees
<1>4. ASSUME NEW q \in Within(R)
      PROVE  \E p \in Within(r) : rotPoint(p[1], p[2], w, h, deg) = q
  <2>1. /\ q[1] \in R.x0..R.x1 - 1 /\ q[2] \in R.y0..R.y1 - 1 /\ q = <<q[1], q[2]>>
    BY DEF Within
  <2>2. back(q) \in Within(r) /\ rotPoint(back(q)[1], back(q)[2], w, h, deg) = q
    BY <1>1, <1>2, <2>1 DEF Within, rotPoint, Degrees, RotWidth, RotHeight, Sideways, Back
  <2> QED BY <2>2
<1> QED BY <1>3, <1>4 DEF R

(* Every frame of a turned GIF shows, where a point was turned to, the     *)
(* colour of that point; what is drawn later covers what it covered.       *)
THEOREM FramesKeepTheirPoints ==
    ASSUME NEW g, NEW deg \in Degrees, NEW k \in DOMAIN g.frames,
           GrownWidth(g) \in Nat \ {0}, GrownHeight(g) \in Nat \ {0},
           g.frames[k].rect \in Rects(GrownWidth(g), GrownHeight(g)),
           NEW p \in Within(g.frames[k].rect)
    PROVE  LET q == rotPoint(p[1], p[2], GrownWidth(g), GrownHeight(g), deg)
               turned == rotateGIF(g, deg).frames[k]
           IN q \in Within(turned.rect) /\ turned.at[q] = g.frames[k].at[p]
<1> DEFINE w == GrownWidth(g)
           h == GrownHeight(g)
           f == g.frames[k]
           q == rotPoint(p[1], p[2], w, h, deg)
           R == rotRect(f.rect, w, h, deg)
           src == {a \in Within(f.rect) : rotPoint(a[1], a[2], w, h, deg) = q}
<1>1. rotateGIF(g, deg).frames[k] = rotateFrame(f, w, h, deg)
  BY DEF rotateGIF
<1> HIDE DEF w, h, f
<1>2. q \in Within(R)
  BY FrameCovers DEF w, h, f
<1>3. src = {p}
  <2>1. Within(f.rect) \subseteq Points(w, h)
    BY DEF Within, Points, Rects, f, w, h
  <2>2. \A a \in Points(w, h) : a = rotPoint(rotPoint(a[1], a[2], w, h, deg)[1],
                                             rotPoint(a[1], a[2], w, h, deg)[2],
                                             RotWidth(w, h, deg), RotHeight(w, h, deg), Back(deg))
    BY PointInside, PointBack DEF w, h
  <2>3. p \in Within(f.rect)
    BY DEF f
  <2> QED BY <2>1, <2>2, <2>3
<1>4. /\ rotateFrame(f, w, h, deg).rect = R
      /\ rotateFrame(f, w, h, deg).at[q] = IF src = {} THEN "blank" ELSE f.at[CHOOSE a \in src : TRUE]
  BY <1>2 DEF rotateFrame
<1> HIDE DEF q, R, src
<1>5. rotateFrame(f, w, h, deg).at[q] = f.at[p]
  BY <1>3, <1>4
<1> QED BY <1>1, <1>2, <1>4, <1>5 DEF q, w, h, f
=============================================================================
