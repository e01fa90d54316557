------------------------------ MODULE Framebuffer ------------------------------
(***************************************************************************)
(* The framebuffer of the VNC helper: one vector of pixels, row by row, in *)
(* which rectangles of the server are painted and copied after a check of  *)
(* their bounds.  Coordinates are unsigned words: adding two saturates at  *)
(* WordMax.  An index outside the vector ends the helper (a panic).        *)
(* Beside it is the picture the server means, cell by cell (ghost).        *)
(***************************************************************************)
EXTENDS Naturals, Sequences

CONSTANTS WordMax,   \* u16::MAX
          FbSizes,   \* widths and heights of a framebuffer: [w, h]
          FbPixels   \* what the server may paint; a new framebuffer is all 0

\* What the constants are.
ASSUME FramebufferAssumption == WordMax \in Nat /\ \A s \in FbSizes : s.w \in 1..WordMax /\ s.h \in 1..WordMax

Words == 0..WordMax

VARIABLES size, rgba, panicked,
          picture    \* (ghost)

fbVars == <<size, rgba, panicked, picture>>

Length == size.w * size.h
Places == (0..(size.w - 1)) \X (0..(size.h - 1))

SaturatingAdd(a, b) == IF a + b > WordMax THEN WordMax ELSE a + b

\* The ensure! of patch_rgba_rect and of either end of copy_rect.
Inside(x, y, w, h) ==
  x <= size.w /\ y <= size.h /\ SaturatingAdd(x, w) <= size.w /\ SaturatingAdd(y, h) <= size.h

\* The index of pixel i, counted from 0, of a rectangle that is w wide.
Index(x, y, w, i) == (y + (i \div w)) * size.w + x + (i % w)

\* Every row's slice of the vector ends within it.
Fits(x, y, w, h) == \A r \in 0..(h - 1) : (y + r) * size.w + x + w <= Length

\* The vector after the rows of pixels are copied into it; data is numbered from 0.
Patched(v, x, y, w, h, data) ==
  [n \in DOMAIN v |->
     IF \E i \in 0..(w * h - 1) : Index(x, y, w, i) = n
     THEN data[CHOOSE i \in 0..(w * h - 1) : Index(x, y, w, i) = n /\ \A j \in (i + 1)..(w * h - 1) : Index(x, y, w, j) # n]
     ELSE v[n]]

\* A cell of the picture; blank where there is none.
Meant(x, y) == IF <<x, y>> \in Places THEN picture[<<x, y>>] ELSE 0

\* The picture with a rectangle painted: the cells the server means.
Painted(x, y, w, h, Value(_, _)) ==
  [c \in Places |-> IF c[1] \in x..(x + w - 1) /\ c[2] \in y..(y + h - 1) THEN Value(c[1] - x, c[2] - y) ELSE picture[c]]
-----------------------------------------------------------------------------
FbInit == /\ size \in FbSizes /\ panicked = FALSE
          /\ rgba = [n \in 0..(Length - 1) |-> 0] /\ picture = [c \in Places |-> 0]

\* patch_rgba_rect; the data are p and q in turn.
PatchRgbaRect(x, y, w, h, p, q) ==
  LET data == [i \in 0..(w * h - 1) |-> IF i % 2 = 0 THEN p ELSE q] IN
  /\ ~panicked /\ Inside(x, y, w, h)
  /\ IF Fits(x, y, w, h)
     THEN /\ rgba' = Patched(rgba, x, y, w, h, data)
          /\ picture' = Painted(x, y, w, h, LAMBDA a, b : data[b * w + a])
          /\ UNCHANGED panicked
     ELSE panicked' = TRUE /\ UNCHANGED <<rgba, picture>>
  /\ UNCHANGED size

\* Mutant: a copy reads what it has just written.
CopiedInPlace(v, sx, sy, dx, dy, w, h) ==
  LET f[i \in 0..(w * h)] ==
        IF i = 0 THEN v ELSE [f[i - 1] EXCEPT ![Index(dx, dy, w, i - 1)] = f[i - 1][Index(sx, sy, w, i - 1)]]
  IN f[w * h]

\* copy_rect: the source is read as a whole before the destination is written.
Copied(v, sx, sy, dx, dy, w, h) ==
  Patched(v, dx, dy, w, h, [i \in 0..(w * h - 1) |-> v[Index(sx, sy, w, i)]])

CopyRect(sx, sy, dx, dy, w, h) ==
  /\ ~panicked /\ Inside(sx, sy, w, h) /\ Inside(dx, dy, w, h)
  /\ IF Fits(sx, sy, w, h) /\ Fits(dx, dy, w, h)
     THEN /\ rgba' = Copied(rgba, sx, sy, dx, dy, w, h)
          /\ picture' = Painted(dx, dy, w, h, LAMBDA a, b : Meant(sx + a, sy + b))
          /\ UNCHANGED panicked
     ELSE panicked' = TRUE /\ UNCHANGED <<rgba, picture>>
  /\ UNCHANGED size

\* clone_bgra_rect, the read of a rectangle that was painted.
CloneBgraRect(x, y, w, h) == [i \in 0..(w * h - 1) |-> rgba[Index(x, y, w, i)]]

\* Rectangles that do not pass the check are an error and change nothing here.
FbNext == \E x, y, w, h \in Words :
            \/ \E p, q \in FbPixels : PatchRgbaRect(x, y, w, h, p, q)
            \/ \E sx, sy \in Words : CopyRect(sx, sy, x, y, w, h)

FbSpec == FbInit /\ [][FbNext]_fbVars
-----------------------------------------------------------------------------
\* The vector is the picture the server means, after any sequence of rectangles
\* and of copies, overlapping ones included, and a rectangle cloned from it is
\* that part of the picture.
VectorIsPicture ==
  /\ \A c \in Places : rgba[c[2] * size.w + c[1]] = picture[c]
  /\ \A x \in 0..(size.w - 1), y \in 0..(size.h - 1) : \A w \in 1..(size.w - x), h \in 1..(size.h - y) :
       \A a \in 0..(w - 1), b \in 0..(h - 1) : CloneBgraRect(x, y, w, h)[b * w + a] = picture[<<x + a, y + b>>]

\* A rectangle that passes the check has all its rows inside the vector.
AcceptedFits == ~panicked

\* The framebuffer's vector is the picture the server means after any sequence of
\* patches and copies, and no accepted rectangle leaves it.
FramebufferIsSound == VectorIsPicture /\ AcceptedFits
=============================================================================
