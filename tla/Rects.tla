------------------------------- MODULE Rects -------------------------------
(***************************************************************************)
(* canvas::Rect: rectangles of pixels, and the operations with which the   *)
(* canvas keeps its list of dirty regions.                                 *)
(***************************************************************************)
EXTENDS Integers

Rect(x, y, w, h) == [x |-> x, y |-> y, w |-> w, h |-> h]

Rectangles == [x : Int, y : Int, w : Nat, h : Nat]

\* The pixels that a rectangle stands for.
Pixels(r) == (r.x .. r.x + r.w - 1) \X (r.y .. r.y + r.h - 1)

Smaller(a, b) == IF a <= b THEN a ELSE b
Larger(a, b)  == IF a >= b THEN a ELSE b

IsEmpty(r) == r.w = 0 \/ r.h = 0

Area(r) == r.w * r.h

Includes(r, s) == /\ r.x <= s.x /\ s.x + s.w <= r.x + r.w
                  /\ r.y <= s.y /\ s.y + s.h <= r.y + r.h

Intersects(r, s) == /\ s.x <= r.x + r.w - 1 /\ r.x <= s.x + s.w - 1
                    /\ s.y <= r.y + r.h - 1 /\ r.y <= s.y + s.h - 1

Intersection(r, s) ==
    LET x == Larger(r.x, s.x)
        y == Larger(r.y, s.y)
    IN  Rect(x, y, Larger(Smaller(r.x + r.w, s.x + s.w) - x, 0),
                   Larger(Smaller(r.y + r.h, s.y + s.h) - y, 0))

Encompass(r, s) ==
    LET x == Smaller(r.x, s.x)
        y == Smaller(r.y, s.y)
    IN  Rect(x, y, Larger(r.x + r.w, s.x + s.w) - x, Larger(r.y + r.h, s.y + s.h) - y)

\* r covers one end of s, in the whole width or the whole height of it.
Aside(r, s) ==
    \/ /\ r.y = s.y /\ r.h = s.h
       /\ \/ r.x = s.x /\ r.w < s.w
          \/ r.x > s.x /\ r.x + r.w = s.x + s.w
    \/ /\ r.x = s.x /\ r.w = s.w
       /\ \/ r.y = s.y /\ r.h < s.h
          \/ r.y > s.y /\ r.y + r.h = s.y + s.h

\* What is left of r without s, which must be aside of it.
Cut(r, s) ==
    Rect(IF s.x + s.w = r.x + r.w THEN r.x ELSE s.x + s.w,
         IF s.y + s.h = r.y + r.h THEN r.y ELSE s.y + s.h,
         IF s.w = r.w THEN r.w ELSE r.w - s.w,
         IF s.h = r.h THEN r.h ELSE r.h - s.h)

\* Mutant: one end of r need not be in s.
GoesIntoAnywhere(r, s) == (r.x >= s.x /\ r.x + r.w <= s.x + s.w) \/ (r.y >= s.y /\ r.y + r.h <= s.y + s.h)

GoesInto(r, s) ==
    \/ /\ r.x >= s.x /\ r.x + r.w <= s.x + s.w
       /\ r.y >= s.y \/ r.y + r.h <= s.y + s.h
    \/ /\ r.y >= s.y /\ r.y + r.h <= s.y + s.h
       /\ r.x >= s.x \/ r.x + r.w <= s.x + s.w
=============================================================================
