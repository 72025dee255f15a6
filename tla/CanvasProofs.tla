---------------------------- MODULE CanvasProofs ----------------------------
(***************************************************************************)
(* Whatever surfaces there are, wherever they are and whatever is drawn on *)
(* them, and for every gui.canvas.joinPercentage: nothing that changes is  *)
(* lost from the list of dirty regions, and painting them is enough.       *)
(*                                                                         *)
(* The keys come through the same device as the picture, so what the input *)
(* manager promises its listeners is here too, for any listeners, any keys *)
(* and any depth of dispatches inside one another; the two are independent. *)
(***************************************************************************)
EXTENDS Canvas, InputManager, SequenceTheorems, FiniteSetTheorems, TLAPS

(***************************************************************************)
(* Rectangles and their pixels.                                            *)
(***************************************************************************)

LEMMA RectType ==
  ASSUME NEW x \in Int, NEW y \in Int, NEW w \in Nat, NEW h \in Nat
  PROVE  /\ Rect(x, y, w, h) \in Rectangles
         /\ Rect(x, y, w, h).x = x /\ Rect(x, y, w, h).y = y
         /\ Rect(x, y, w, h).w = w /\ Rect(x, y, w, h).h = h
BY DEF Rect, Rectangles

LEMMA PixelsOf ==
  ASSUME NEW r \in Rectangles, NEW i, NEW j
  PROVE  <<i, j>> \in Pixels(r) <=>
           i \in Int /\ j \in Int /\ r.x <= i /\ i < r.x + r.w /\ r.y <= j /\ j < r.y + r.h
BY DEF Pixels, Rectangles

LEMMA PixelsArePairs ==
  ASSUME NEW r \in Rectangles, NEW p \in Pixels(r)
  PROVE  \E i, j \in Int : p = <<i, j>>
BY DEF Pixels, Rectangles

LEMMA IncludedPixels ==
  ASSUME NEW r \in Rectangles, NEW s \in Rectangles, Includes(r, s)
  PROVE  Pixels(s) \subseteq Pixels(r)
<1> SUFFICES ASSUME NEW p \in Pixels(s) PROVE p \in Pixels(r)
  OBVIOUS
<1>1. PICK i, j \in Int : p = <<i, j>>
  BY PixelsArePairs
<1>2. QED
  BY <1>1, PixelsOf DEF Includes, Rectangles

LEMMA SharedPixelIntersects ==
  ASSUME NEW r \in Rectangles, NEW s \in Rectangles, NEW p \in Pixels(r), p \in Pixels(s)
  PROVE  Intersects(r, s)
<1>1. PICK i, j \in Int : p = <<i, j>>
  BY PixelsArePairs
<1>2. QED
  BY <1>1, PixelsOf DEF Intersects, Rectangles

LEMMA IntersectionType ==
  ASSUME NEW r \in Rectangles, NEW s \in Rectangles
  PROVE  Intersection(r, s) \in Rectangles
BY DEF Intersection, Larger, Smaller, Rect, Rectangles

LEMMA IntersectionPixels ==
  ASSUME NEW r \in Rectangles, NEW s \in Rectangles
  PROVE  Pixels(Intersection(r, s)) \subseteq Pixels(s)
<1>1. Intersection(r, s) \in Rectangles
  BY IntersectionType
<1>2. ASSUME NEW p \in Pixels(Intersection(r, s)) PROVE p \in Pixels(s)
  <2>1. PICK i, j \in Int : p = <<i, j>>
    BY <1>1, PixelsArePairs
  <2>2. QED
    BY <1>1, <1>2, <2>1, PixelsOf DEF Intersection, Larger, Smaller, Rect, Rectangles
<1>3. QED
  BY <1>2

LEMMA EncompassType ==
  ASSUME NEW r \in Rectangles, NEW s \in Rectangles
  PROVE  /\ Encompass(r, s) \in Rectangles
         /\ Includes(Encompass(r, s), r) /\ Includes(Encompass(r, s), s)
BY DEF Encompass, Includes, Larger, Smaller, Rect, Rectangles

LEMMA PositiveArea ==
  ASSUME NEW r \in Rectangles, Area(r) > 0
  PROVE  r.w > 0 /\ r.h > 0
<1>1. r.w \in Nat /\ r.h \in Nat
  BY DEF Rectangles
<1>2. \A a, b \in Nat : a * b > 0 => a > 0 /\ b > 0
  OBVIOUS
<1>3. QED
  BY <1>1, <1>2 DEF Area

\* The assertion of Rect::cut() holds where invalidateRegion() calls it.
LEMMA GoesIntoIsAside ==
  ASSUME NEW r \in Rectangles, NEW s \in Rectangles, NEW i \in Rectangles,
         i = Intersection(r, s) \/ i = Intersection(s, r),
         i.w > 0, i.h > 0, ~Includes(s, r), GoesInto(r, s)
  PROVE  Aside(i, r)
BY SMTT(60) DEF Intersection, Larger, Smaller, Rect, Rectangles, Includes, GoesInto, Aside

LEMMA CutPixels ==
  ASSUME NEW r \in Rectangles, NEW i \in Rectangles, Aside(i, r)
  PROVE  /\ Cut(r, i) \in Rectangles
         /\ Pixels(r) \subseteq Pixels(Cut(r, i)) \cup Pixels(i)
<1>1. Cut(r, i) \in Rectangles
  BY DEF Cut, Aside, Rect, Rectangles
<1>2. ASSUME NEW p \in Pixels(r) PROVE p \in Pixels(Cut(r, i)) \cup Pixels(i)
  <2>1. PICK a, b \in Int : p = <<a, b>>
    BY PixelsArePairs
  <2>2. QED
    BY <1>1, <1>2, <2>1, PixelsOf, SMTT(60) DEF Cut, Aside, Rect, Rectangles
<1>3. QED
  BY <1>1, <1>2

-----------------------------------------------------------------------------
(***************************************************************************)
(* One call of invalidateRegion() with r, as it meets a dirty region d.    *)
(***************************************************************************)

LEMMA OverlapsAreAside ==
  ASSUME NEW r \in Rectangles, NEW d \in Rectangles
  PROVE  /\ Trims(r, d) => Aside(Intersection(r, d), r)
         /\ IsTrimmed(r, d) => Aside(Intersection(r, d), d)
<1> DEFINE i == Intersection(r, d)
<1>1. i \in Rectangles
  BY IntersectionType
<1>2. Overlaps(r, d) => i.w > 0 /\ i.h > 0 /\ ~Includes(d, r) /\ ~Includes(r, d)
  BY <1>1, PositiveArea DEF Overlaps, Apart
<1>3. Trims(r, d) => Aside(i, r)
  BY <1>1, <1>2, GoesIntoIsAside DEF Trims
<1>4. IsTrimmed(r, d) => Aside(i, d)
  BY <1>1, <1>2, GoesIntoIsAside DEF IsTrimmed
<1>5. QED
  BY <1>3, <1>4

LEMMA ToAddCases ==
  ASSUME NEW r \in Rectangles, NEW d \in Rectangles
  PROVE  /\ Joins(r, d) => ToAdd(r, d) = {Encompass(r, d)} /\ ~Trims(r, d) /\ ~IsTrimmed(r, d)
         /\ Trims(r, d) => ToAdd(r, d) = {Cut(r, Intersection(r, d))} /\ ~ToErase(r, d)
         /\ IsTrimmed(r, d) => ToAdd(r, d) = {Cut(d, Intersection(r, d)), r} /\ ~Trims(r, d)
         /\ Joins(r, d) \/ Trims(r, d) \/ IsTrimmed(r, d) \/ ToAdd(r, d) = {}
BY DEF ToAdd, ToErase, Joins, Trims, IsTrimmed, Overlaps, Apart

LEMMA ToAddType ==
  ASSUME NEW r \in Rectangles, NEW d \in Rectangles
  PROVE  ToAdd(r, d) \subseteq Rectangles
<1>1. Intersection(r, d) \in Rectangles /\ Encompass(r, d) \in Rectangles
  BY IntersectionType, EncompassType
<1>2. Trims(r, d) => Cut(r, Intersection(r, d)) \in Rectangles
  BY <1>1, OverlapsAreAside, CutPixels
<1>3. IsTrimmed(r, d) => Cut(d, Intersection(r, d)) \in Rectangles
  BY <1>1, OverlapsAreAside, CutPixels
<1>4. QED
  BY <1>1, <1>2, <1>3, ToAddCases

\* What is erased for r is in r or in what is added.
LEMMA ErasedIsCovered ==
  ASSUME NEW r \in Rectangles, NEW d \in Rectangles, ToErase(r, d)
  PROVE  Pixels(d) \subseteq Pixels(r) \cup Cover(ToAdd(r, d))
<1>1. CASE Includes(r, d)
  BY <1>1, IncludedPixels
<1>2. CASE Joins(r, d)
  <2>1. Pixels(d) \subseteq Pixels(Encompass(r, d))
    BY EncompassType, IncludedPixels
  <2>2. QED
    BY <1>2, <2>1, ToAddCases DEF Cover
<1>3. CASE IsTrimmed(r, d)
  <2> DEFINE i == Intersection(r, d)
  <2>1. i \in Rectangles /\ Aside(i, d)
    BY <1>3, IntersectionType, OverlapsAreAside
  <2>2. Pixels(d) \subseteq Pixels(Cut(d, i)) \cup Pixels(i)
    BY <2>1, CutPixels
  <2>3. Pixels(i) \subseteq Pixels(r)
    <3>1. Intersection(r, d) = Intersection(d, r)
      BY DEF Intersection, Larger, Smaller, Rect, Rectangles
    <3>2. QED
      BY <3>1, IntersectionPixels
  <2>4. ToAdd(r, d) = {Cut(d, i), r}
    BY <1>3, ToAddCases
  <2>5. QED
    BY <2>2, <2>3, <2>4 DEF Cover
<1>4. QED
  BY <1>1, <1>2, <1>3 DEF ToErase

\* If anything is added, r is in it or in the region that r goes into, which stays.
LEMMA ReplacedIsCovered ==
  ASSUME NEW r \in Rectangles, NEW d \in Rectangles, ToAdd(r, d) # {}
  PROVE  Pixels(r) \subseteq Cover(ToAdd(r, d)) \cup (IF ToErase(r, d) THEN {} ELSE Pixels(d))
<1>1. CASE Joins(r, d)
  <2>1. Pixels(r) \subseteq Pixels(Encompass(r, d))
    BY EncompassType, IncludedPixels
  <2>2. QED
    BY <1>1, <2>1, ToAddCases DEF Cover
<1>2. CASE Trims(r, d)
  <2> DEFINE i == Intersection(r, d)
  <2>1. i \in Rectangles /\ Aside(i, r)
    BY <1>2, IntersectionType, OverlapsAreAside
  <2>2. Pixels(r) \subseteq Pixels(Cut(r, i)) \cup Pixels(i)
    BY <2>1, CutPixels
  <2>3. Pixels(i) \subseteq Pixels(d)
    BY IntersectionPixels
  <2>4. ToAdd(r, d) = {Cut(r, i)} /\ ~ToErase(r, d)
    BY <1>2, ToAddCases
  <2>5. QED
    BY <2>2, <2>3, <2>4 DEF Cover
<1>3. CASE IsTrimmed(r, d)
  <2>1. r \in ToAdd(r, d)
    BY <1>3, ToAddCases
  <2>2. QED
    BY <2>1 DEF Cover
<1>4. QED
  BY <1>1, <1>2, <1>3, ToAddCases

LEMMA CoverUnion ==
  ASSUME NEW R, NEW S
  PROVE  Cover(R \cup S) = Cover(R) \cup Cover(S) /\ (R \subseteq S => Cover(R) \subseteq Cover(S))
BY DEF Cover

\* A call loses no pixel of the regions, nor of its rectangle.
LEMMA CallCovers ==
  ASSUME dirtyRegions \subseteq Rectangles, work \subseteq Rectangles,
         NEW r \in work, InvalidateRegion(r)
  PROVE  /\ dirtyRegions' \subseteq Rectangles /\ work' \subseteq Rectangles
         /\ Cover(dirtyRegions \cup work) \subseteq Cover(dirtyRegions' \cup work')
<1>1. CASE /\ \E d \in dirtyRegions : Includes(d, r)
           /\ work' = work \ {r} /\ dirtyRegions' = dirtyRegions
  <2>1. PICK d \in dirtyRegions : Includes(d, r)
    BY <1>1
  <2>2. Pixels(r) \subseteq Pixels(d)
    BY <2>1, IncludedPixels
  <2>3. QED
    BY <1>1, <2>2 DEF Cover
<1> DEFINE toErase == {d \in dirtyRegions : ToErase(r, d)}
           toAdd   == UNION {ToAdd(r, d) : d \in dirtyRegions}
<1>2. ASSUME work' = (work \ {r}) \cup toAdd,
             dirtyRegions' = (dirtyRegions \ toErase) \cup (IF toAdd = {} THEN {r} ELSE {})
      PROVE  /\ dirtyRegions' \subseteq Rectangles /\ work' \subseteq Rectangles
             /\ Cover(dirtyRegions \cup work) \subseteq Cover(dirtyRegions' \cup work')
  <2> DEFINE C == Cover(dirtyRegions' \cup work')
  <2>1. toAdd \subseteq Rectangles
    BY ToAddType
  <2>2. dirtyRegions' \subseteq Rectangles /\ work' \subseteq Rectangles
    BY <1>2, <2>1
  <2>3. \A d \in dirtyRegions : Cover(ToAdd(r, d)) \subseteq C
    BY <1>2 DEF Cover
  <2>4. \A d \in dirtyRegions \ toErase : Pixels(d) \subseteq C
    BY <1>2 DEF Cover
  <2>5. Pixels(r) \subseteq C
    <3>1. CASE toAdd = {}
      BY <1>2, <3>1 DEF Cover
    <3>2. CASE toAdd # {}
      <4>1. PICK d \in dirtyRegions : ToAdd(r, d) # {}
        BY <3>2
      <4>2. Pixels(r) \subseteq Cover(ToAdd(r, d)) \cup (IF ToErase(r, d) THEN {} ELSE Pixels(d))
        BY <4>1, ReplacedIsCovered
      <4>3. Cover(ToAdd(r, d)) \subseteq C /\ (~ToErase(r, d) => Pixels(d) \subseteq C)
        BY <2>3, <2>4
      <4>4. QED
        BY <4>2, <4>3
    <3>3. QED
      BY <3>1, <3>2
  <2>6. \A d \in dirtyRegions : Pixels(d) \subseteq C
    <3> SUFFICES ASSUME NEW d \in toErase PROVE Pixels(d) \subseteq C
      BY <2>4
    <3>1. Pixels(d) \subseteq Pixels(r) \cup Cover(ToAdd(r, d))
      BY ErasedIsCovered
    <3>2. QED
      BY <2>3, <2>5, <3>1
  <2>7. \A w \in work : Pixels(w) \subseteq C
    BY <1>2, <2>5 DEF Cover
  <2>8. Cover(dirtyRegions \cup work) \subseteq C
    BY <2>6, <2>7 DEF Cover
  <2>9. QED
    BY <2>2, <2>8
<1>3. QED
  BY <1>1, <1>2 DEF InvalidateRegion

-----------------------------------------------------------------------------
(***************************************************************************)
(* The inductive invariant: what is out of date is noted down, and what is *)
(* seen in a region that will be painted will be painted with it.          *)
(***************************************************************************)
IInv == TypeOK /\ StaleIsDirty /\ SeenIsDirty

\* Of an operation on a surface: it notes down the rectangles "work'" and, but for
\* what is forgotten, changes no other pixel.
Noting ==
    /\ work = {} /\ work' \subseteq Rectangles
    /\ dirtyRegions' = dirtyRegions
    /\ stale' \subseteq Pixels(Screen)
    /\ stale' \subseteq stale \cup Cover(work') \cup forgotten'
    /\ forgotten \subseteq forgotten' /\ forgotten' \subseteq Pixels(Screen)

LEMMA NotingKeepsStale ==
  ASSUME StaleIsDirty, Noting
  PROVE  StaleIsDirty' /\ Cover(dirtyRegions \cup work) \subseteq Cover(dirtyRegions' \cup work')
BY CoverUnion DEF StaleIsDirty, Noting

LEMMA CoverOne == ASSUME NEW r PROVE Cover({r}) = Pixels(r)
BY DEF Cover

LEMMA OnCanvasType ==
  ASSUME NEW b \in Rectangles, NEW r \in Rectangles
  PROVE  OnCanvas(b, r) \in Rectangles
BY DEF OnCanvas, Smaller, Larger, Rect, Rectangles

\* What is drawn within a surface is marked where it is seen.
LEMMA StrokeIsMarked ==
  ASSUME NEW b \in Rectangles, NEW r \in Rectangles,
         r.x >= 0, r.x + r.w <= b.w, r.y >= 0, r.y + r.h <= b.h
  PROVE  OnCanvas(b, r) = Rect(b.x + r.x, b.y + r.y, r.w, r.h)
BY DEF OnCanvas, Smaller, Larger, Rect, Rectangles

\* At the origin, resize() marks what it means to mark.
LEMMA OriginIsMarked ==
  ASSUME NEW b \in Rectangles, b.x = 0, b.y = 0
  PROVE  OnCanvas(b, b) = b
BY DEF OnCanvas, Smaller, Larger, Rect, Rectangles

LEMMA FilledPixels ==
  ASSUME NEW r \in Rectangles, IsEmpty(r)
  PROVE  Pixels(r) = {}
<1>1. ASSUME NEW p \in Pixels(r) PROVE FALSE
  <2>1. PICK i, j \in Int : p = <<i, j>>
    BY <1>1, PixelsArePairs
  <2>2. QED
    BY <1>1, <2>1, PixelsOf DEF IsEmpty, Rectangles
<1>2. QED
  BY <1>1

\* markDirty() marks all the pixels of its rectangles.
LEMMA MarkDirtyMarks ==
  ASSUME NEW s, NEW R, R \subseteq Rectangles, MarkDirty(s, R), work = {}
  PROVE  /\ work' \subseteq Rectangles
         /\ s \in autoFlush => Cover(work') = Cover(R) /\ s \in dirtySurfaces'
         /\ dirtySurfaces' \subseteq dirtySurfaces \cup (IF s \in autoFlush THEN {s} ELSE {})
         /\ dirtySurfaces \subseteq dirtySurfaces'
<1>1. Cover({r \in R : ~IsEmpty(r)}) = Cover(R)
  BY FilledPixels DEF Cover
<1>2. QED
  BY <1>1 DEF MarkDirty

\* Nothing is painted with the wrong surfaces.
LEMMA PaintedRight ==
  ASSUME TypeOK, SeenIsDirty
  PROVE  PaintedWrong = {}
<1> SUFFICES ASSUME NEW p \in Cover(dirtyRegions)
             PROVE  {s \in ToBlit : p \in Pixels(bounds[s])} = ShownAt(p)
  BY DEF PaintedWrong
<1>1. PICK r \in dirtyRegions : p \in Pixels(r)
  BY DEF Cover
<1>2. ASSUME NEW s \in ShownAt(p) PROVE s \in ToBlit
  <2>1. s \in alive /\ Shown(s) /\ p \in Pixels(bounds[s])
    BY <1>2 DEF ShownAt
  <2>2. bounds[s] \in Rectangles /\ r \in Rectangles
    BY <2>1, CanvasAssumption DEF TypeOK
  <2>3. Intersects(r, bounds[s])
    BY <1>1, <2>1, <2>2, SharedPixelIntersects
  <2>4. QED
    BY <2>1, <2>3 DEF SeenIsDirty, ToBlit, Shown
<1>3. ASSUME NEW s \in ToBlit, p \in Pixels(bounds[s]) PROVE s \in ShownAt(p)
  BY <1>3 DEF ToBlit, ShownAt, Shown, TypeOK
<1>4. QED
  BY <1>2, <1>3 DEF ShownAt

LEMMA InitIInv == Init => IInv
<1> SUFFICES ASSUME Init PROVE IInv
  OBVIOUS
<1>1. DOMAIN bounds = {} /\ bounds \in [{} -> Places]
  BY DEF Init
<1>2. TypeOK
  BY <1>1, CanvasAssumption DEF Init, TypeOK, alive
<1>3. StaleIsDirty /\ SeenIsDirty
  BY <1>1 DEF Init, StaleIsDirty, SeenIsDirty, alive
<1>4. QED
  BY <1>2, <1>3 DEF IInv

LEMMA BoundsType ==
  ASSUME TypeOK, NEW s \in alive
  PROVE  bounds[s] \in Places /\ bounds[s] \in Rectangles /\ ~IsEmpty(bounds[s])
BY CanvasAssumption DEF TypeOK

\* markDirty() of a surface that stays as it is, or moves to b.
LEMMA MarkingStep ==
  ASSUME TypeOK, SeenIsDirty, Idle, NEW s \in alive, NEW b \in Places,
         bounds' = [bounds EXCEPT ![s] = b],
         b = bounds[s] \/ s \notin autoFlush \/ s \in dirtySurfaces',
         visible' \subseteq alive, autoFlush' = autoFlush,
         \A t \in visible' : t \in visible \/ (t = s /\ (s \in autoFlush => s \in dirtySurfaces')),
         dirtySurfaces \subseteq dirtySurfaces', dirtySurfaces' \subseteq dirtySurfaces \cup {s},
         Noting, inTransaction' = inTransaction
  PROVE  TypeOK' /\ SeenIsDirty'
<1>1. alive' = alive /\ bounds' \in [alive' -> Places]
  BY DEF TypeOK, alive
<1>2. TypeOK'
  BY <1>1 DEF TypeOK, Noting
<1>3. ASSUME NEW t \in alive', NEW r \in dirtyRegions', Shown(t)', Intersects(r, bounds[t])'
      PROVE  t \in dirtySurfaces'
  <2>1. CASE t = s
    <3>1. s \in autoFlush
      BY <1>3, <2>1 DEF Shown
    <3>2. CASE s \in dirtySurfaces'
      BY <2>1, <3>2
    <3>3. CASE b = bounds[s] /\ s \in visible
      <4>1. bounds'[s] = bounds[s]
        BY <3>3 DEF TypeOK
      <4>2. Shown(s) /\ Intersects(r, bounds[s]) /\ r \in dirtyRegions
        BY <1>3, <2>1, <3>1, <3>3, <4>1 DEF Shown, Noting, Intersects
      <4>3. QED
        BY <2>1, <4>2 DEF SeenIsDirty
    <3>4. QED
      BY <1>3, <2>1, <3>1, <3>2, <3>3 DEF Shown
  <2>2. CASE t # s
    <3>1. bounds'[t] = bounds[t]
      BY <2>2, <1>1 DEF TypeOK
    <3>2. Shown(t) /\ Intersects(r, bounds[t]) /\ r \in dirtyRegions
      BY <1>3, <2>2, <3>1 DEF Shown, Noting, Intersects
    <3>3. QED
      BY <1>1, <3>2 DEF SeenIsDirty
  <2>3. QED
    BY <2>1, <2>2
<1>4. QED
  BY <1>2, <1>3 DEF SeenIsDirty

-----------------------------------------------------------------------------
(* Every operation on a surface notes down what it changes.                *)

LEMMA RestackStep ==
  ASSUME IInv, NEW s \in Surfaces, Restack(s)
  PROVE  Noting /\ TypeOK' /\ SeenIsDirty'
<1> DEFINE b == bounds[s]
<1>1. s \in alive /\ b \in Places /\ b \in Rectangles /\ work = {}
  BY BoundsType DEF IInv, Restack, Idle
<1>2. MarkDirty(s, {b}) /\ UNCHANGED <<bounds, visible, autoFlush, forgotten>>
  BY DEF Restack, surfaceVars
<1>3. Noting
  BY <1>1, <1>2, MarkDirtyMarks, CoverOne
  DEF Noting, Restack, MarkDirty, Changes, Shown, IInv, TypeOK
<1>4. bounds' = [bounds EXCEPT ![s] = b]
  BY <1>1, <1>2 DEF IInv, TypeOK
<1>5. TypeOK' /\ SeenIsDirty'
  BY <1>1, <1>2, <1>3, <1>4, MarkDirtyMarks, MarkingStep DEF IInv, TypeOK, Idle, MarkDirty
<1>6. QED
  BY <1>3, <1>5

LEMMA DrawStep ==
  ASSUME IInv, NEW s \in Surfaces, NEW r \in Strokes, Draw(s, r)
  PROVE  Noting /\ TypeOK' /\ SeenIsDirty'
<1> DEFINE b == bounds[s]
           c == OnCanvas(b, r)
<1>1. /\ s \in alive /\ b \in Places /\ b \in Rectangles /\ work = {}
      /\ r \in Rectangles
  BY BoundsType, CanvasAssumption DEF IInv, Draw, Idle
<1>2. MarkDirty(s, {c}) /\ UNCHANGED <<bounds, visible, autoFlush, forgotten>>
  BY DEF Draw, surfaceVars
<1>3. c \in Rectangles /\ c = Rect(b.x + r.x, b.y + r.y, r.w, r.h)
  BY <1>1, OnCanvasType, StrokeIsMarked DEF Draw
<1>4. Changes(IF Shown(s) THEN Pixels(c) ELSE {})
  BY <1>3 DEF Draw
<1> HIDE DEF c
<1>5. Noting
  <2> DEFINE P == IF Shown(s) THEN Pixels(c) ELSE {}
  <2>1. /\ work' \subseteq Rectangles /\ (s \in autoFlush => Cover(work') = Pixels(c))
        /\ dirtyRegions' = dirtyRegions
    BY <1>1, <1>2, <1>3, MarkDirtyMarks, CoverOne DEF MarkDirty
  <2>2. P \subseteq Cover(work')
    BY <2>1 DEF Shown
  <2>3. stale' = stale \cup (P \cap Pixels(Screen))
    BY <1>4 DEF Changes
  <2> HIDE DEF P
  <2>4. QED
    BY <1>1, <1>2, <2>1, <2>2, <2>3 DEF Noting, IInv, TypeOK
<1>6. bounds' = [bounds EXCEPT ![s] = b]
  BY <1>1, <1>2 DEF IInv, TypeOK
<1>7. TypeOK' /\ SeenIsDirty'
  BY <1>1, <1>2, <1>3, <1>5, <1>6, MarkDirtyMarks, MarkingStep DEF IInv, TypeOK, Idle, MarkDirty
<1>8. QED
  BY <1>5, <1>7

LEMMA SetVisibleStep ==
  ASSUME IInv, NEW s \in Surfaces, NEW v \in BOOLEAN, SetVisible(s, v)
  PROVE  Noting /\ TypeOK' /\ SeenIsDirty'
<1> DEFINE b == bounds[s]
<1>1. s \in alive /\ b \in Places /\ b \in Rectangles /\ work = {}
  BY BoundsType DEF IInv, SetVisible, Idle
<1>2. /\ MarkDirty(s, {b}) /\ UNCHANGED <<bounds, autoFlush, forgotten>>
      /\ visible' = IF v THEN visible \cup {s} ELSE visible \ {s}
      /\ Changes(IF s \in autoFlush THEN Pixels(b) ELSE {})
  BY DEF SetVisible
<1>3. Noting
  BY <1>1, <1>2, MarkDirtyMarks, CoverOne
  DEF Noting, MarkDirty, Changes, IInv, TypeOK
<1>4. bounds' = [bounds EXCEPT ![s] = b]
  BY <1>1, <1>2 DEF IInv, TypeOK
<1>5. s \in autoFlush => s \in dirtySurfaces'
  BY <1>1, <1>2 DEF MarkDirty
<1>6. TypeOK' /\ SeenIsDirty'
  <2>1. visible' \subseteq alive /\ \A t \in visible' : t \in visible \/ t = s
    BY <1>1, <1>2 DEF IInv, TypeOK
  <2>2. QED
    BY <1>1, <1>2, <1>3, <1>4, <1>5, <2>1, MarkDirtyMarks, MarkingStep
    DEF IInv, Idle, MarkDirty
<1>7. QED
  BY <1>3, <1>6

LEMMA SetLocationStep ==
  ASSUME IInv, NEW s \in Surfaces, NEW x, NEW y, SetLocation(s, x, y)
  PROVE  Noting /\ TypeOK' /\ SeenIsDirty'
<1> DEFINE b == bounds[s]
           n == [b EXCEPT !.x = x, !.y = y]
<1>1. s \in alive /\ b \in Places /\ b \in Rectangles /\ work = {} /\ n \in Places /\ n \in Rectangles
  BY BoundsType, CanvasAssumption DEF IInv, SetLocation, Idle
<1>2. /\ MarkDirty(s, {b, n}) /\ UNCHANGED <<visible, autoFlush, forgotten>>
      /\ bounds' = [bounds EXCEPT ![s] = n]
      /\ Changes(IF Shown(s) THEN Pixels(b) \cup Pixels(n) ELSE {})
  BY DEF SetLocation
<1> HIDE DEF n
<1>3. Cover({b, n}) = Pixels(b) \cup Pixels(n)
  BY DEF Cover
<1>4. Noting
  BY <1>1, <1>2, <1>3, MarkDirtyMarks DEF Noting, MarkDirty, Changes, Shown, IInv, TypeOK
<1>5. s \in autoFlush => s \in dirtySurfaces'
  BY <1>1, <1>2 DEF MarkDirty
<1>6. TypeOK' /\ SeenIsDirty'
  BY <1>1, <1>2, <1>4, <1>5, MarkDirtyMarks, MarkingStep DEF IInv, TypeOK, Idle, MarkDirty
<1>7. QED
  BY <1>4, <1>6

LEMMA ResizeStep ==
  ASSUME IInv, NEW s \in Surfaces, NEW w, NEW h, Resize(s, w, h)
  PROVE  Noting /\ TypeOK' /\ SeenIsDirty'
<1> DEFINE b == bounds[s]
           n == [b EXCEPT !.w = w, !.h = h]
           P == IF Shown(s) THEN Pixels(b) \cup Pixels(n) ELSE {}
           R == {OnCanvas(b, b), OnCanvas(n, n)}
<1>1. s \in alive /\ b \in Places /\ b \in Rectangles /\ work = {} /\ n \in Places /\ n \in Rectangles
  BY BoundsType, CanvasAssumption DEF IInv, Resize, Idle
<1>2. n.x = b.x /\ n.y = b.y
  BY <1>1 DEF Rectangles
<1>3. /\ MarkDirty(s, R) /\ UNCHANGED <<visible, autoFlush>>
      /\ bounds' = [bounds EXCEPT ![s] = n]
      /\ Changes(P) /\ Forgets(IF b.x = 0 /\ b.y = 0 THEN {} ELSE P)
  BY DEF Resize
<1> HIDE DEF n
<1>4. R \subseteq Rectangles
  BY <1>1, OnCanvasType
<1>5. CASE b.x = 0 /\ b.y = 0
  <2>1. OnCanvas(b, b) = b /\ OnCanvas(n, n) = n
    BY <1>1, <1>2, <1>5, OriginIsMarked
  <2>2. Cover(R) = Pixels(b) \cup Pixels(n)
    BY <2>1 DEF Cover
  <2>3. /\ forgotten' = forgotten /\ dirtyRegions' = dirtyRegions
        /\ stale' = stale \cup (P \cap Pixels(Screen))
    BY <1>3, <1>5 DEF MarkDirty, Changes, Forgets
  <2> HIDE DEF R
  <2>4. work' \subseteq Rectangles /\ (s \in autoFlush => Cover(work') = Cover(R))
    BY <1>1, <1>3, <1>4, MarkDirtyMarks
  <2>5. P \subseteq Cover(work')
    BY <2>2, <2>4 DEF Shown
  <2> HIDE DEF P
  <2>6. Noting
    BY <1>1, <2>3, <2>4, <2>5 DEF Noting, IInv, TypeOK
  <2>7. QED
    BY <1>1, <1>3, <1>4, <2>6, MarkDirtyMarks, MarkingStep DEF IInv, TypeOK, Idle, MarkDirty
<1>6. CASE ~(b.x = 0 /\ b.y = 0)
  <2>1. Noting
    BY <1>1, <1>3, <1>4, <1>6, MarkDirtyMarks
    DEF Noting, MarkDirty, Changes, Forgets, IInv, TypeOK
  <2>2. QED
    BY <1>1, <1>3, <1>4, <2>1, MarkDirtyMarks, MarkingStep DEF IInv, TypeOK, Idle, MarkDirty
<1>7. QED
  BY <1>5, <1>6

LEMMA SetAutoFlushStep ==
  ASSUME IInv, NEW s \in Surfaces, SetAutoFlush(s)
  PROVE  Noting /\ TypeOK' /\ SeenIsDirty'
<1>1. s \in alive /\ bounds[s] \in Rectangles /\ bounds' = bounds /\ alive' = alive
  BY BoundsType DEF IInv, SetAutoFlush, alive
<1>2. Noting
  BY <1>1, CoverOne DEF Noting, SetAutoFlush, Idle, Changes, IInv, TypeOK
<1>3. TypeOK'
  BY <1>1, <1>2 DEF SetAutoFlush, Noting, IInv, TypeOK
<1>4. SeenIsDirty'
  BY <1>1 DEF SetAutoFlush, SeenIsDirty, Shown, Intersects, IInv
<1>5. QED
  BY <1>2, <1>3, <1>4

LEMMA ResetAutoFlushStep ==
  ASSUME IInv, NEW s \in Surfaces, ResetAutoFlush(s)
  PROVE  Noting /\ TypeOK' /\ SeenIsDirty'
<1>1. bounds' = bounds /\ alive' = alive
  BY DEF ResetAutoFlush, alive
<1>2. Noting
  BY DEF Noting, ResetAutoFlush, Idle, Changes, Forgets, IInv, TypeOK
<1>3. TypeOK'
  BY <1>1, <1>2 DEF ResetAutoFlush, Noting, IInv, TypeOK
<1>4. SeenIsDirty'
  BY <1>1 DEF ResetAutoFlush, SeenIsDirty, Shown, Intersects, IInv
<1>5. QED
  BY <1>2, <1>3, <1>4

LEMMA CreateSurfaceStep ==
  ASSUME IInv, NEW s \in Surfaces, CreateSurface(s)
  PROVE  Noting /\ TypeOK' /\ SeenIsDirty'
<1>1. PICK b \in Places : bounds' = [t \in alive \cup {s} |-> IF t = s THEN b ELSE bounds[t]]
  BY DEF CreateSurface
<1>2. alive' = alive \cup {s} /\ bounds' \in [alive' -> Places] /\ s \notin autoFlush
  BY <1>1 DEF CreateSurface, IInv, TypeOK, alive
<1>3. Noting
  BY DEF Noting, CreateSurface, Idle, IInv, TypeOK
<1>4. TypeOK'
  BY <1>2, <1>3 DEF CreateSurface, Noting, IInv, TypeOK
<1>5. ASSUME NEW t \in alive', NEW r \in dirtyRegions', Shown(t)', Intersects(r, bounds[t])'
      PROVE  t \in dirtySurfaces'
  <2>1. t # s
    BY <1>2, <1>5 DEF CreateSurface, Shown
  <2>2. bounds'[t] = bounds[t] /\ t \in alive
    BY <1>1, <1>2, <2>1
  <2>3. Shown(t) /\ Intersects(r, bounds[t]) /\ r \in dirtyRegions
    BY <1>5, <2>1, <2>2 DEF CreateSurface, Shown, Intersects
  <2>4. QED
    BY <2>2, <2>3 DEF CreateSurface, SeenIsDirty, IInv
<1>6. QED
  BY <1>3, <1>4, <1>5 DEF SeenIsDirty

LEMMA DestroyStep ==
  ASSUME IInv, NEW s \in Surfaces, Destroy(s)
  PROVE  Noting /\ TypeOK' /\ SeenIsDirty'
<1>1. s \in alive /\ bounds[s] \in Rectangles
  BY BoundsType DEF IInv, Destroy
<1>2. alive' = alive \ {s} /\ bounds' \in [alive' -> Places] /\ \A t \in alive' : bounds'[t] = bounds[t]
  BY DEF Destroy, IInv, TypeOK, alive
<1>3. Noting
  BY <1>1, CoverOne DEF Noting, Destroy, Idle, Changes, Shown, IInv, TypeOK
<1>4. TypeOK'
  BY <1>2, <1>3 DEF Destroy, Noting, IInv, TypeOK
<1>5. SeenIsDirty'
  BY <1>2 DEF Destroy, SeenIsDirty, Shown, Intersects, IInv
<1>6. QED
  BY <1>3, <1>4, <1>5

-----------------------------------------------------------------------------
(* The canvas: a call of invalidateRegion(), and a flush.                  *)

LEMMA CallStep ==
  ASSUME IInv, NEW r \in work, InvalidateRegion(r)
  PROVE  /\ TypeOK' /\ SeenIsDirty' /\ StaleIsDirty'
         /\ Cover(dirtyRegions \cup work) \subseteq Cover(dirtyRegions' \cup work')
<1>1. /\ dirtyRegions' \subseteq Rectangles /\ work' \subseteq Rectangles
      /\ Cover(dirtyRegions \cup work) \subseteq Cover(dirtyRegions' \cup work')
  BY CallCovers DEF IInv, TypeOK
<1>2. UNCHANGED <<bounds, visible, autoFlush, inTransaction, stale, forgotten>> /\ alive' = alive
  BY DEF InvalidateRegion, surfaceVars, alive
<1>3. MarkedBy(r) \subseteq alive
  BY DEF MarkedBy, IInv, TypeOK
<1>4. TypeOK'
  BY <1>1, <1>2, <1>3 DEF InvalidateRegion, IInv, TypeOK
<1>5. StaleIsDirty'
  BY <1>1, <1>2 DEF StaleIsDirty, IInv
<1>6. ASSUME NEW s \in alive', NEW d \in dirtyRegions', Shown(s)', Intersects(d, bounds[s])'
      PROVE  s \in dirtySurfaces'
  <2>1. Shown(s) /\ Intersects(d, bounds[s]) /\ s \in alive
    BY <1>2, <1>6 DEF Shown, Intersects
  <2>2. CASE d \in dirtyRegions
    BY <2>1, <2>2 DEF SeenIsDirty, IInv, InvalidateRegion
  <2>3. CASE d \notin dirtyRegions
    <3>1. d = r /\ dirtySurfaces' = dirtySurfaces \cup MarkedBy(r)
      BY <2>3 DEF InvalidateRegion
    <3>2. QED
      BY <2>1, <3>1 DEF MarkedBy, Shown
  <2>4. QED
    BY <2>2, <2>3
<1>7. QED
  BY <1>1, <1>4, <1>5, <1>6 DEF SeenIsDirty

LEMMA FlushStep ==
  ASSUME IInv, Idle, FlushImpl, UNCHANGED <<bounds, visible, autoFlush, work>>,
         inTransaction' \in 0..MaxTransaction
  PROVE  TypeOK' /\ SeenIsDirty' /\ StaleIsDirty' /\ Paints!Paint
<1>1. /\ stale' = stale \ Cover(dirtyRegions) /\ forgotten' = forgotten \ Cover(dirtyRegions)
      /\ dirtyRegions' = {} /\ dirtySurfaces' = {} /\ work = {} /\ work' = {} /\ alive' = alive
  BY PaintedRight DEF FlushImpl, IInv, Idle, alive
<1>2. TypeOK' /\ SeenIsDirty'
  BY <1>1 DEF IInv, TypeOK, SeenIsDirty
<1>3. StaleIsDirty'
  BY <1>1 DEF IInv, StaleIsDirty
<1>4. Cover({}) = {}
  BY DEF Cover
<1>5. Paints!Paint
  BY <1>1, <1>4 DEF IInv, TypeOK, Paints!Paint
<1>6. QED
  BY <1>2, <1>3, <1>5

\* A step that paints nothing, of the canvas and of what it promises.
LEMMA ChangeStep ==
  ASSUME TypeOK', StaleIsDirty',
         Cover(dirtyRegions \cup work) \subseteq Cover(dirtyRegions' \cup work')
  PROVE  Paints!Change
BY DEF TypeOK, StaleIsDirty, Paints!Change

LEMMA StepIsOK ==
  ASSUME IInv, Next
  PROVE  IInv' /\ Paints!PaintingNext
<1> USE DEF IInv
<1>1. ASSUME NEW s \in Surfaces,
             \/ CreateSurface(s) \/ Destroy(s) \/ Restack(s) \/ SetAutoFlush(s) \/ ResetAutoFlush(s)
             \/ \E v \in BOOLEAN : SetVisible(s, v)
             \/ \E r \in Strokes : Draw(s, r)
             \/ \E r \in Places : SetLocation(s, r.x, r.y) \/ Resize(s, r.w, r.h)
      PROVE  IInv' /\ Paints!PaintingNext
  <2>1. Noting /\ TypeOK' /\ SeenIsDirty'
    BY <1>1, CreateSurfaceStep, DestroyStep, RestackStep, SetAutoFlushStep, ResetAutoFlushStep,
       SetVisibleStep, DrawStep, SetLocationStep, ResizeStep
  <2>2. QED
    BY <2>1, NotingKeepsStale, ChangeStep DEF Paints!PaintingNext
<1>2. ASSUME NEW r \in work, InvalidateRegion(r) PROVE IInv' /\ Paints!PaintingNext
  BY <1>2, CallStep, ChangeStep DEF Paints!PaintingNext
<1>3. CASE Flush
  BY <1>3, FlushStep DEF Flush, surfaceVars, TypeOK, Paints!PaintingNext
<1>4. CASE BeginDraw
  <2>1. /\ UNCHANGED <<bounds, visible, autoFlush, dirtySurfaces, dirtyRegions, work, stale, forgotten>>
        /\ inTransaction' = inTransaction + 1 /\ inTransaction < MaxTransaction
        /\ alive' = alive
    BY <1>4 DEF BeginDraw, surfaceVars, alive
  <2>2. inTransaction' \in 0..MaxTransaction
    BY <2>1, CanvasAssumption DEF TypeOK
  <2>3. TypeOK'
    BY <2>1, <2>2 DEF TypeOK
  <2>4. SeenIsDirty' /\ StaleIsDirty'
    BY <2>1 DEF SeenIsDirty, StaleIsDirty, Shown, Intersects
  <2>5. QED
    BY <2>1, <2>3, <2>4, ChangeStep DEF Paints!PaintingNext
<1>5. CASE EndDraw
  <2>1. inTransaction' \in 0..MaxTransaction /\ Idle /\ UNCHANGED <<bounds, visible, autoFlush, work>>
    BY <1>5, CanvasAssumption DEF EndDraw, surfaceVars, TypeOK
  <2>2. CASE FlushImpl
    BY <2>1, <2>2, FlushStep DEF Paints!PaintingNext
  <2>3. CASE UNCHANGED <<dirtySurfaces, dirtyRegions, stale, forgotten>>
    <3>1. TypeOK' /\ SeenIsDirty' /\ StaleIsDirty'
      BY <2>1, <2>3 DEF alive, TypeOK, SeenIsDirty, StaleIsDirty, Shown, Intersects
    <3>2. QED
      BY <2>1, <2>3, <3>1, ChangeStep DEF Paints!PaintingNext
  <2>4. QED
    BY <1>5, <2>2, <2>3 DEF EndDraw
<1>6. QED
  BY <1>1, <1>2, <1>3, <1>4, <1>5 DEF Next, SurfaceNext

LEMMA StutterIsOK ==
  ASSUME IInv, UNCHANGED vars
  PROVE  IInv' /\ UNCHANGED Paints!paintingVars
<1> USE DEF vars
<1>1. TypeOK' /\ SeenIsDirty' /\ StaleIsDirty'
  BY DEF IInv, alive, TypeOK, SeenIsDirty, StaleIsDirty, Shown, Intersects
<1>2. UNCHANGED Paints!paintingVars
  BY DEF Paints!paintingVars
<1>3. QED
  BY <1>1, <1>2 DEF IInv

\* The state is well formed, what is out of date is noted down, and what is seen in
\* a dirty region is dirty: what the loops of flushImpl() rely on.
THEOREM CanvasInvariant == Spec => []IInv
<1>1. Init => IInv
  BY InitIInv
<1>2. IInv /\ [Next]_vars => IInv'
  BY StepIsOK, StutterIsOK
<1>3. QED
  BY <1>1, <1>2, PTL DEF Spec

THEOREM CanvasTypeCorrect == Spec => []TypeOK
<1>1. IInv => TypeOK
  BY DEF IInv
<1>2. QED
  BY <1>1, CanvasInvariant, PTL

\* No pixel that a player changed is dropped by invalidateRegion(), however it joins
\* and cuts the rectangles.
THEOREM NothingStaleIsLost == Spec => []StaleIsDirty
<1>1. IInv => StaleIsDirty
  BY DEF IInv
<1>2. QED
  BY <1>1, CanvasInvariant, PTL

\* addDirtyRegion() and the operations mark every surface that a flush must paint.
THEOREM SeenSurfacesAreDirty == Spec => []SeenIsDirty
<1>1. IInv => SeenIsDirty
  BY DEF IInv
<1>2. QED
  BY <1>1, CanvasInvariant, PTL

\* The assertion of Rect::cut() never fails.
THEOREM CutIsAlwaysAside == Spec => []CutIsAside
<1>1. IInv => CutIsAside
  BY OverlapsAreAside DEF IInv, TypeOK, CutIsAside
<1>2. QED
  BY <1>1, CanvasInvariant, PTL

\* The canvas, with its list of rectangles, keeps the promise of Painting.
THEOREM CanvasImplementsPainting == Spec => ImplementsPainting
<1>1. Init => Paints!PaintingInit
  BY DEF Init, Paints!PaintingInit
<1>2. IInv /\ [Next]_vars => [Paints!PaintingNext]_Paints!paintingVars
  BY StepIsOK, StutterIsOK
<1>3. QED
  BY <1>1, <1>2, CanvasInvariant, PTL DEF Spec, ImplementsPainting, Paints!PaintingSpec

LEMMA RegionsApartStep ==
  ASSUME NoneIncludesAnother, [Next]_vars
  PROVE  NoneIncludesAnother'
<1>1. CASE dirtyRegions' = dirtyRegions \/ dirtyRegions' = {}
  BY <1>1 DEF NoneIncludesAnother
<1>2. ASSUME NEW r \in work, InvalidateRegion(r) PROVE NoneIncludesAnother'
  BY <1>2 DEF InvalidateRegion, NoneIncludesAnother, ToErase
<1>3. SurfaceNext => dirtyRegions' = dirtyRegions
  BY DEF SurfaceNext, CreateSurface, Destroy, Restack, SetAutoFlush, ResetAutoFlush, SetVisible,
         Draw, SetLocation, Resize, MarkDirty
<1>4. QED
  BY <1>1, <1>2, <1>3 DEF Next, vars, Flush, FlushImpl, BeginDraw, EndDraw

\* A region is in the list once, and not inside of another: nothing is painted twice
\* for being marked twice.
THEOREM RegionsStayApart == Spec => []NoneIncludesAnother
<1>1. Init => NoneIncludesAnother
  BY DEF Init, NoneIncludesAnother
<1>2. QED
  BY <1>1, RegionsApartStep, PTL DEF Spec
LEMMA EndDrawStep ==
  ASSUME IInv, [Next]_vars, inTransaction > 0
  PROVE  /\ inTransaction' > 0 => Cover(dirtyRegions \cup work) \subseteq Cover(dirtyRegions' \cup work')
         /\ inTransaction' = 0 => stale' \subseteq forgotten'
<1> DEFINE StillNoted == Cover(dirtyRegions \cup work) \subseteq Cover(dirtyRegions' \cup work')
<1>0. inTransaction \in Int
  BY CanvasAssumption DEF IInv, TypeOK
<1>1. ASSUME NEW s \in Surfaces,
             \/ CreateSurface(s) \/ Destroy(s) \/ Restack(s) \/ SetAutoFlush(s) \/ ResetAutoFlush(s)
             \/ \E v \in BOOLEAN : SetVisible(s, v)
             \/ \E r \in Strokes : Draw(s, r)
             \/ \E r \in Places : SetLocation(s, r.x, r.y) \/ Resize(s, r.w, r.h)
      PROVE  StillNoted /\ inTransaction' = inTransaction
  <2>1. Noting
    BY <1>1, CreateSurfaceStep, DestroyStep, RestackStep, SetAutoFlushStep, ResetAutoFlushStep,
       SetVisibleStep, DrawStep, SetLocationStep, ResizeStep
  <2>2. StillNoted
    BY <2>1, NotingKeepsStale DEF IInv
  <2>3. inTransaction' = inTransaction
    BY <1>1 DEF CreateSurface, Destroy, Restack, SetAutoFlush, ResetAutoFlush, SetVisible, Draw,
                SetLocation, Resize, MarkDirty
  <2>4. QED
    BY <2>2, <2>3
<1>2. ASSUME NEW r \in work, InvalidateRegion(r)
      PROVE  StillNoted /\ inTransaction' = inTransaction
  BY <1>2, CallStep DEF InvalidateRegion
<1>3. CASE BeginDraw
  BY <1>0, <1>3 DEF BeginDraw
<1>4. CASE EndDraw
  <2>1. CASE inTransaction = 1
    <3>1. /\ FlushImpl /\ Idle /\ inTransaction' = 0
          /\ UNCHANGED <<bounds, visible, autoFlush, work>>
      BY <1>4, <2>1 DEF EndDraw, surfaceVars
    <3>2. StaleIsDirty' /\ dirtyRegions' = {} /\ work' = {}
      <4>1. inTransaction' \in 0..MaxTransaction
        BY <3>1, CanvasAssumption
      <4>2. QED
        BY <3>1, <4>1, FlushStep DEF FlushImpl, Idle
    <3>3. QED
      BY <3>1, <3>2 DEF StaleIsDirty, Cover
  <2>2. CASE inTransaction # 1
    <3>1. UNCHANGED <<dirtyRegions, stale, forgotten, work>> /\ inTransaction' > 0
      BY <1>0, <1>4, <2>2 DEF EndDraw
    <3>2. QED
      BY <3>1
  <2>3. QED
    BY <2>1, <2>2
<1>5. CASE UNCHANGED vars
  BY <1>5 DEF vars
<1>6. QED
  BY <1>0, <1>1, <1>2, <1>3, <1>4, <1>5 DEF Next, SurfaceNext, Flush

\* Within a transaction nothing that is to be painted is dropped, however deep the
\* transactions nest, and the end of the outermost one paints all of it.
THEOREM EndDrawPaintsWhatChanged == Spec => EndDrawPaints
<1>1. IInv /\ [Next]_vars =>
        [/\ inTransaction > 0 /\ inTransaction' > 0 =>
              Cover(dirtyRegions \cup work) \subseteq Cover(dirtyRegions' \cup work')
         /\ inTransaction > 0 /\ inTransaction' = 0 => stale' \subseteq forgotten']_vars
  BY EndDrawStep
<1>2. QED
  BY <1>1, CanvasInvariant, PTL DEF Spec, EndDrawPaints

-----------------------------------------------------------------------------
(* The input manager.                                                      *)

(***************************************************************************)
(* The inductive strengthening.  A copy holds each listener once, as the   *)
(* list does, and the devices are told nothing before they listen.  Who is *)
(* due in a dispatch still exists and reserves its key: that is why, when  *)
(* its turn comes, it is called.                                           *)
(***************************************************************************)
FrameOK(f) ==
    /\ f \in Frame /\ IsInjective(f.copy)
    /\ f.due \subseteq ToSet(f.copy) \ f.deleted

DueReserve == \A i \in DOMAIN frames : \A l \in frames[i].due : HasReserved(l, frames[i].key)

FramesOK == frames \in Seq(Frame) /\ \A i \in DOMAIN frames : FrameOK(frames[i])

ListOK ==
    /\ listeners \in Seq(Ids) /\ IsInjective(listeners)
    /\ enabled \in [Ids -> BOOLEAN] /\ keys \in [Ids -> SUBSET Keys]
    /\ \A l \in Ids : enabled[l] => l \in Registered

KeysOK ==
    /\ globalKeys \subseteq Keys /\ observed \in BOOLEAN
    /\ told \in (SUBSET Keys) \cup {None} /\ unreported \subseteq Keys
    /\ told # None => observed

Inv == ListOK /\ KeysOK /\ FramesOK /\ DueReserve /\ KeysAgree

-----------------------------------------------------------------------------

LEMMA SeqDomain ==
  ASSUME NEW S, NEW s \in Seq(S)
  PROVE  /\ Len(s) \in Nat /\ DOMAIN s = 1..Len(s)
         /\ \A i \in DOMAIN s : s[i] \in S
BY ElementOfSeq, LenProperties

(***************************************************************************)
(* What is left of a list of different listeners, and such a list with one *)
(* more at its end.                                                        *)
(***************************************************************************)
LEMMA TailOfInjective ==
  ASSUME NEW s \in Seq(Ids), s # <<>>, IsInjective(s)
  PROVE  /\ Head(s) \in Ids /\ Head(s) \in ToSet(s)
         /\ Tail(s) \in Seq(Ids) /\ IsInjective(Tail(s))
         /\ ToSet(Tail(s)) = ToSet(s) \ {Head(s)}
<1>1. Len(s) \in Nat \ {0} /\ DOMAIN s = 1..Len(s) /\ \A i \in 1..Len(s) : s[i] \in Ids
  BY SeqDomain, EmptySeq
<1>2. /\ Tail(s) \in Seq(Ids) /\ Len(Tail(s)) = Len(s) - 1 /\ Head(s) = s[1]
      /\ \A i \in 1..Len(Tail(s)) : Tail(s)[i] = s[i + 1]
  BY HeadTailProperties, <1>1
<1>3. DOMAIN Tail(s) = 1..(Len(s) - 1)
  BY <1>2, SeqDomain
<1>4. IsInjective(Tail(s))
  BY <1>1, <1>2, <1>3 DEF IsInjective
<1>5. \A i \in 1..Len(s) : i # 1 => i - 1 \in 1..Len(Tail(s)) /\ s[i] = Tail(s)[i - 1]
  BY <1>1, <1>2
<1>6. ASSUME NEW l \in ToSet(s), l # Head(s)
      PROVE  l \in ToSet(Tail(s))
  <2>1. PICK i \in 1..Len(s) : l = s[i]
    BY <1>1 DEF ToSet
  <2>2. i # 1
    BY <1>2, <1>6, <2>1
  <2>3. i - 1 \in DOMAIN Tail(s) /\ l = Tail(s)[i - 1]
    BY <1>2, <1>3, <1>5, <2>1, <2>2
  <2>4. QED
    BY <2>3 DEF ToSet
<1>7. \A l \in ToSet(Tail(s)) : l \in ToSet(s) /\ l # Head(s)
  BY <1>1, <1>2, <1>3 DEF ToSet, IsInjective
<1>8. QED
  <2>1. 1 \in DOMAIN s
    BY <1>1
  <2>2. Head(s) \in Ids /\ Head(s) \in ToSet(s)
    BY <1>1, <1>2, <2>1 DEF ToSet
  <2>3. QED
    BY <1>2, <1>4, <1>6, <1>7, <2>2

LEMMA AppendToInjective ==
  ASSUME NEW s \in Seq(Ids), IsInjective(s), NEW l \in Ids, l \notin ToSet(s)
  PROVE  /\ Append(s, l) \in Seq(Ids) /\ IsInjective(Append(s, l))
         /\ ToSet(Append(s, l)) = ToSet(s) \cup {l}
<1>1. Len(s) \in Nat /\ DOMAIN s = 1..Len(s)
  BY SeqDomain
<1>2. /\ Append(s, l) \in Seq(Ids) /\ Len(Append(s, l)) = Len(s) + 1
      /\ \A i \in 1..Len(s) : Append(s, l)[i] = s[i]
      /\ Append(s, l)[Len(s) + 1] = l
  BY AppendProperties
<1>3. DOMAIN Append(s, l) = 1..(Len(s) + 1)
  BY <1>2, SeqDomain
<1>4. IsInjective(Append(s, l))
  BY <1>1, <1>2, <1>3 DEF IsInjective, ToSet
<1>5. ToSet(Append(s, l)) = ToSet(s) \cup {l}
  BY <1>1, <1>2, <1>3 DEF ToSet
<1>6. QED
  BY <1>2, <1>4, <1>5

(***************************************************************************)
(* The list without those that are disabled.                               *)
(***************************************************************************)
LEMMA CompactedProperties ==
  ASSUME ListOK, NEW s \in Compacted
  PROVE  s \in Seq(Ids) /\ IsInjective(s) /\ ToSet(s) = Kept
<1>1. Len(listeners) \in Nat /\ DOMAIN listeners = 1..Len(listeners)
      /\ \A i \in DOMAIN listeners : listeners[i] \in Ids
  BY SeqDomain DEF ListOK
<1>2. Kept \subseteq Ids
  BY <1>1 DEF Kept, Registered, ToSet
<1>3. IsFiniteSet(Kept)
  <2>1. listeners \in Surjection(1..Len(listeners), Registered)
    BY <1>1 DEF Surjection, Registered, ToSet, ListOK
  <2>2. IsFiniteSet(Registered)
    BY <1>1, <2>1, FS_Interval, FS_Surjection
  <2>3. QED
    BY <2>2, FS_Subset DEF Kept
<1>4. Cardinality(Kept) \in Nat /\ s \in [1..Cardinality(Kept) -> Kept]
  BY <1>3, FS_CardinalityType DEF Compacted
<1>5. s \in Seq(Ids)
  BY <1>2, <1>4
<1>6. ASSUME NEW i \in DOMAIN s, NEW j \in DOMAIN s, i < j
      PROVE  s[i] # s[j]
  <2>1. PICK p \in DOMAIN listeners, q \in DOMAIN listeners :
            p < q /\ listeners[p] = s[i] /\ listeners[q] = s[j]
    BY <1>6 DEF Compacted
  <2>2. QED
    BY <1>1, <2>1 DEF ListOK, IsInjective
<1>7. IsInjective(s)
  BY <1>4, <1>6 DEF IsInjective
<1>8. QED
  BY <1>5, <1>7 DEF Compacted

(***************************************************************************)
(* Copies of the list and what the steps change of the calls under way.    *)
(***************************************************************************)
LEMMA FirstFrame ==
  ASSUME FramesOK, frames # <<>>
  PROVE  1 \in DOMAIN frames /\ FrameOK(frames[1])
BY SeqDomain, EmptySeq DEF FramesOK

LEMMA FramesSame ==
  ASSUME FramesOK, UNCHANGED frames
  PROVE  FramesOK'
BY DEF FramesOK, FrameOK

LEMMA FirstFrameChanged ==
  ASSUME FramesOK, frames # <<>>, NEW f, FrameOK(f), frames' = [frames EXCEPT ![1] = f]
  PROVE  FramesOK'
<1>1. Len(frames) \in Nat /\ DOMAIN frames = 1..Len(frames) /\ 1 \in DOMAIN frames
  BY SeqDomain, FirstFrame DEF FramesOK
<1>2. frames' \in Seq(Frame) /\ DOMAIN frames' = DOMAIN frames
  BY <1>1, ExceptSeq, SeqDomain DEF FramesOK, FrameOK
<1>3. \A i \in DOMAIN frames : FrameOK(frames'[i])
  BY DEF FramesOK
<1>4. QED
  BY <1>2, <1>3 DEF FramesOK

LEMMA FramePushed ==
  ASSUME FramesOK, NEW f, FrameOK(f), NEW outer \in Seq(Frame),
         \A i \in DOMAIN outer : FrameOK(outer[i]), frames' = <<f>> \o outer
  PROVE  FramesOK'
<1>1. Len(outer) \in Nat /\ DOMAIN outer = 1..Len(outer)
  BY SeqDomain
<1>2. <<f>> \in Seq(Frame) /\ Len(<<f>>) = 1 /\ <<f>>[1] = f
  BY DEF FrameOK
<1>3. /\ frames' \in Seq(Frame) /\ Len(frames') = Len(outer) + 1
      /\ \A i \in 1..(Len(outer) + 1) : frames'[i] = IF i = 1 THEN f ELSE outer[i - 1]
  BY <1>1, <1>2, ConcatProperties
<1>4. \A i \in 1..(Len(outer) + 1) : FrameOK(frames'[i])
  BY <1>1, <1>3
<1>5. QED
  BY <1>3, <1>4, SeqDomain DEF FramesOK

(***************************************************************************)
(* A dispatch begins with who is registered, and so with who has reserved  *)
(* the key.                                                                *)
(***************************************************************************)
LEMMA EnteredIsOK ==
  ASSUME ListOK, NEW k \in Keys
  PROVE  FrameOK(Entered(k))
<1>1. Reserving(k) \subseteq ToSet(listeners) /\ Reserving(k) \subseteq Ids
  BY SeqDomain DEF Reserving, Registered, ListOK, ToSet
<1>2. QED
  BY <1>1 DEF FrameOK, Frame, Entered, ListOK

LEMMA DispatchKeeps ==
  ASSUME Inv, NEW k \in Keys, Dispatch(k)
  PROVE  FramesOK'
<1>1. FrameOK(Entered(k))
  BY EnteredIsOK DEF Inv
<1>2. CASE frames = <<>>
  <2>1. frames' = <<Entered(k)>>
    BY <1>2 DEF Dispatch
  <2>2. <<Entered(k)>> \in Seq(Frame) /\ DOMAIN <<Entered(k)>> = {1}
    BY <1>1 DEF FrameOK
  <2>3. QED
    BY <1>1, <2>1, <2>2 DEF FramesOK
<1>3. CASE frames # <<>>
  <2> DEFINE caller == [frames[1] EXCEPT !.nested = TRUE]
             outer == [frames EXCEPT ![1] = caller]
  <2>1. frames' = <<Entered(k)>> \o outer
    BY <1>3 DEF Dispatch
  <2>2. 1 \in DOMAIN frames /\ FrameOK(frames[1])
    BY <1>3, FirstFrame DEF Inv
  <2>3. FrameOK(caller)
    BY <2>2 DEF FrameOK, Frame
  <2>4. outer \in Seq(Frame) /\ DOMAIN outer = DOMAIN frames
    BY <2>2, <2>3, ExceptSeq, SeqDomain DEF Inv, FramesOK, FrameOK
  <2>5. \A i \in DOMAIN outer : FrameOK(outer[i])
    BY <2>3, <2>4 DEF Inv, FramesOK
  <2>6. QED
    BY <1>1, <2>1, <2>4, <2>5, FramePushed DEF Inv
<1>4. QED
  BY <1>2, <1>3

LEMMA VisitKeeps ==
  ASSUME Inv, Visit
  PROVE  FramesOK'
<1> DEFINE f == frames[1]
           l == Head(f.copy)
           passed == [f EXCEPT !.copy = Tail(@), !.deleted = @ \ {l}]
           called == [passed EXCEPT !.callee = l, !.nested = FALSE, !.due = @ \ {l}]
<1>1. frames # <<>> /\ f.copy # <<>> /\ 1 \in DOMAIN frames /\ FrameOK(f)
  BY FirstFrame DEF Visit, Inv
<1>2. /\ l \in Ids /\ Tail(f.copy) \in Seq(Ids) /\ IsInjective(Tail(f.copy))
      /\ ToSet(Tail(f.copy)) = ToSet(f.copy) \ {l}
  BY <1>1, TailOfInjective DEF FrameOK, Frame
<1>3. \/ frames' = [frames EXCEPT ![1] = passed] /\ (l \in f.deleted \/ ~HasReserved(l, f.key))
      \/ frames' = [frames EXCEPT ![1] = called]
  BY <1>1 DEF Visit
<1>4. l \in f.deleted \/ ~HasReserved(l, f.key) => l \notin f.due
  BY <1>1 DEF FrameOK, Inv, DueReserve
<1>5. FrameOK(called)
  BY <1>1, <1>2 DEF FrameOK, Frame
<1>6. l \notin f.due => FrameOK(passed)
  BY <1>1, <1>2 DEF FrameOK, Frame
<1>7. QED
  BY <1>1, <1>3, <1>4, <1>5, <1>6, FirstFrameChanged DEF Inv

LEMMA ReturnKeeps ==
  ASSUME Inv, Return
  PROVE  FramesOK'
<1> DEFINE f == [frames[1] EXCEPT !.callee = None]
<1>1. frames # <<>> /\ FrameOK(frames[1])
  BY FirstFrame DEF Return, Inv
<1>2. FrameOK(f)
  BY <1>1 DEF FrameOK, Frame
<1>3. frames' = [frames EXCEPT ![1] = f]
  BY DEF Return
<1>4. QED
  BY <1>1, <1>2, <1>3, FirstFrameChanged DEF Inv

(***************************************************************************)
(* The steps that change every call under way.                             *)
(***************************************************************************)
LEMMA NoLongerDueKeeps ==
  ASSUME FramesOK, NEW l, frames' = NoLongerDue(l)
  PROVE  FramesOK'
<1>1. Len(frames) \in Nat /\ DOMAIN frames = 1..Len(frames)
  BY SeqDomain DEF FramesOK
<1>2. \A i \in DOMAIN frames : FrameOK([frames[i] EXCEPT !.due = @ \ {l}])
  BY DEF FramesOK, FrameOK, Frame
<1>3. /\ DOMAIN frames' = 1..Len(frames)
      /\ \A i \in DOMAIN frames : frames'[i] = [frames[i] EXCEPT !.due = @ \ {l}]
  BY <1>1 DEF NoLongerDue
<1>4. frames' \in Seq(Frame)
  <2>1. \A i \in 1..Len(frames) : [frames[i] EXCEPT !.due = @ \ {l}] \in Frame
    BY <1>1, <1>2 DEF FrameOK
  <2>2. QED
    BY <1>1, <2>1, IsASeq DEF NoLongerDue
<1>5. QED
  BY <1>1, <1>2, <1>3, <1>4 DEF FramesOK

\* Who is due goes on to reserve the key of its dispatch.
LEMMA DueReserveKept ==
  ASSUME DueReserve,
         \A i \in DOMAIN frames' : \E j \in DOMAIN frames :
            frames'[i].key = frames[j].key /\ frames'[i].due \subseteq frames[j].due,
         \A i \in DOMAIN frames' : \A l \in frames'[i].due :
            HasReserved(l, frames'[i].key) => enabled'[l] /\ frames'[i].key \in keys'[l]
  PROVE  DueReserve'
<1> SUFFICES ASSUME NEW i \in DOMAIN frames', NEW l \in frames'[i].due
             PROVE  enabled'[l] /\ frames'[i].key \in keys'[l]
  BY DEF DueReserve, HasReserved
<1>1. PICK j \in DOMAIN frames : frames'[i].key = frames[j].key /\ frames'[i].due \subseteq frames[j].due
  OBVIOUS
<1>2. HasReserved(l, frames'[i].key)
  BY <1>1 DEF DueReserve
<1>3. QED
  BY <1>2

\* The steps that leave the keys alone: who was due, or begins to be, still reserves them.
LEMMA DispatchReserves ==
  ASSUME Inv, NEW k \in Keys, Dispatch(k)
  PROVE  DueReserve'
<1>1. UNCHANGED <<enabled, keys>> /\ Reserving(k) \subseteq {l \in Registered : HasReserved(l, k)}
  BY DEF Dispatch, listenerVars, Reserving
<1>2. \A l \in Entered(k).due : enabled'[l] /\ Entered(k).key \in keys'[l]
  BY <1>1 DEF Entered, HasReserved
<1>3. CASE frames = <<>>
  <2>1. frames' = <<Entered(k)>>
    BY <1>3 DEF Dispatch
  <2>2. QED
    BY <1>2, <2>1 DEF DueReserve, HasReserved
<1>4. CASE frames # <<>>
  <2> DEFINE caller == [frames[1] EXCEPT !.nested = TRUE]
             outer == [frames EXCEPT ![1] = caller]
  <2>1. frames' = <<Entered(k)>> \o outer
    BY <1>4 DEF Dispatch
  <2>2. /\ Len(frames) \in Nat /\ DOMAIN frames = 1..Len(frames)
        /\ 1 \in DOMAIN frames /\ FrameOK(frames[1])
    BY <1>4, FirstFrame, SeqDomain DEF Inv, FramesOK
  <2>3. caller.key = frames[1].key /\ caller.due = frames[1].due /\ caller \in Frame
    BY <2>2 DEF FrameOK, Frame
  <2>4. outer \in Seq(Frame) /\ Len(outer) = Len(frames)
    BY <2>2, <2>3, ExceptSeq DEF Inv, FramesOK
  <2>5. \A i \in DOMAIN frames : outer[i].key = frames[i].key /\ outer[i].due = frames[i].due
    BY <2>2, <2>3
  <2> HIDE DEF outer
  <2>6. Entered(k) \in Frame
    BY EnteredIsOK DEF FrameOK, Inv
  <2>7. /\ DOMAIN frames' = 1..(Len(frames) + 1)
        /\ \A i \in 1..(Len(frames) + 1) :
              frames'[i] = IF i = 1 THEN Entered(k) ELSE outer[i - 1]
    <3>1. <<Entered(k)>> \in Seq(Frame) /\ Len(<<Entered(k)>>) = 1 /\ <<Entered(k)>>[1] = Entered(k)
      BY <2>6
    <3>2. /\ <<Entered(k)>> \o outer \in Seq(Frame) /\ Len(<<Entered(k)>> \o outer) = Len(frames) + 1
          /\ \A i \in 1..(Len(frames) + 1) :
                (<<Entered(k)>> \o outer)[i] = IF i = 1 THEN Entered(k) ELSE outer[i - 1]
      BY <2>2, <2>4, <3>1, ConcatProperties
    <3>3. QED
      BY <2>1, <3>2, SeqDomain
  <2>8. ASSUME NEW i \in DOMAIN frames', NEW l \in frames'[i].due
        PROVE  enabled'[l] /\ frames'[i].key \in keys'[l]
    <3>1. CASE i = 1
      BY <1>2, <2>2, <2>7, <3>1
    <3>2. CASE i # 1
      <4>1. i - 1 \in DOMAIN frames /\ frames'[i] = outer[i - 1]
        BY <2>2, <2>7, <3>2
      <4>2. frames'[i].key = frames[i - 1].key /\ l \in frames[i - 1].due
        BY <2>5, <4>1
      <4>3. QED
        BY <1>1, <4>1, <4>2 DEF Inv, DueReserve, HasReserved
    <3>3. QED
      BY <3>1, <3>2
  <2>9. QED
    BY <2>8 DEF DueReserve, HasReserved
<1>5. QED
  BY <1>3, <1>4

LEMMA VisitReserves ==
  ASSUME Inv, Visit
  PROVE  DueReserve'
<1> DEFINE f == frames[1]
           l == Head(f.copy)
           passed == [f EXCEPT !.copy = Tail(@), !.deleted = @ \ {l}]
           called == [passed EXCEPT !.callee = l, !.nested = FALSE, !.due = @ \ {l}]
<1>1. 1 \in DOMAIN frames /\ FrameOK(f)
  BY FirstFrame DEF Visit, Inv
<1>2. /\ passed.key = f.key /\ passed.due = f.due
      /\ called.key = f.key /\ called.due = f.due \ {l}
  BY <1>1 DEF FrameOK, Frame
<1>3. frames' = [frames EXCEPT ![1] = passed] \/ frames' = [frames EXCEPT ![1] = called]
  BY <1>1 DEF Visit
<1>4. UNCHANGED <<enabled, keys>>
  BY DEF Visit, listenerVars
<1> HIDE DEF passed, called
<1>5. DOMAIN frames' = DOMAIN frames
      /\ \A i \in DOMAIN frames : frames'[i].key = frames[i].key /\ frames'[i].due \subseteq frames[i].due
  BY <1>1, <1>2, <1>3
<1>6. QED
  BY <1>4, <1>5, DueReserveKept DEF Inv, HasReserved

LEMMA ReturnReserves ==
  ASSUME Inv, Return
  PROVE  DueReserve'
<1> DEFINE f == [frames[1] EXCEPT !.callee = None]
<1>1. 1 \in DOMAIN frames /\ FrameOK(frames[1])
  BY FirstFrame DEF Return, Inv
<1>2. f.key = frames[1].key /\ f.due = frames[1].due
  BY <1>1 DEF FrameOK, Frame
<1>3. frames' = [frames EXCEPT ![1] = f] /\ UNCHANGED <<enabled, keys>>
  BY DEF Return, listenerVars
<1> HIDE DEF f
<1>4. DOMAIN frames' = DOMAIN frames
      /\ \A i \in DOMAIN frames : frames'[i].key = frames[i].key /\ frames'[i].due \subseteq frames[i].due
  BY <1>1, <1>2, <1>3
<1>5. QED
  BY <1>3, <1>4, DueReserveKept DEF Inv, HasReserved

\* A listener that is removed is due no more, and one that is erased was not.
LEMMA DelReserves ==
  ASSUME Inv, NEW l \in Ids, Del(l)
  PROVE  DueReserve'
<1>1. /\ frames' = [i \in DOMAIN frames |-> [frames[i] EXCEPT !.due = @ \ {l}]]
      /\ enabled' = [enabled EXCEPT ![l] = FALSE] /\ keys' = keys
      /\ enabled \in [Ids -> BOOLEAN]
  BY DEF Del, NoLongerDue, Inv, ListOK
<1>2. ASSUME NEW i \in DOMAIN frames
      PROVE  frames'[i].key = frames[i].key /\ frames'[i].due = frames[i].due \ {l}
             /\ frames[i].due \subseteq Ids
  <2>1. frames[i] \in Frame
    BY DEF Inv, FramesOK, FrameOK
  <2>2. QED
    BY <1>1, <2>1 DEF Frame
<1>3. \A m \in Ids : m # l => enabled'[m] = enabled[m]
  BY <1>1
<1>4. DOMAIN frames' = DOMAIN frames
  BY <1>1
<1>5. \A i \in DOMAIN frames' : \A m \in frames'[i].due :
          HasReserved(m, frames'[i].key) => enabled'[m] /\ frames'[i].key \in keys'[m]
  BY <1>1, <1>2, <1>3, <1>4 DEF HasReserved
<1>6. \A i \in DOMAIN frames' : \E j \in DOMAIN frames :
          frames'[i].key = frames[j].key /\ frames'[i].due \subseteq frames[j].due
  BY <1>2, <1>4
<1>7. QED
  BY <1>5, <1>6, DueReserveKept DEF Inv

LEMMA AddReserves ==
  ASSUME Inv, NEW l \in Ids, NEW ks \in SUBSET Keys, Add(l, ks)
  PROVE  DueReserve'
<1>1. /\ frames' = frames /\ enabled' = [enabled EXCEPT ![l] = TRUE]
      /\ \/ keys' = [keys EXCEPT ![l] = @ \cup ks]
         \/ l \notin Registered /\ keys' = [keys EXCEPT ![l] = ks]
  BY DEF Add
<1>2. enabled \in [Ids -> BOOLEAN] /\ keys \in [Ids -> SUBSET Keys]
      /\ (enabled[l] => l \in Registered)
  BY DEF Inv, ListOK
<1>3. \A m \in Ids : \A k : HasReserved(m, k) => enabled'[m] /\ k \in keys'[m]
  BY <1>1, <1>2 DEF HasReserved
<1>4. ASSUME NEW i \in DOMAIN frames
      PROVE  frames[i].due \subseteq Ids
  BY DEF Inv, FramesOK, FrameOK, Frame
<1>5. QED
  BY <1>1, <1>3, <1>4, DueReserveKept DEF Inv

LEMMA CleanUpReserves ==
  ASSUME Inv, CleanUp
  PROVE  DueReserve'
<1> DEFINE gone == Registered \ Kept
           outer == Tail(frames)
           left(i) == [outer[i] EXCEPT !.deleted = @ \cup (gone \cap ToSet(outer[i].copy))]
<1>1. /\ Len(frames) \in Nat \ {0} /\ DOMAIN frames = 1..Len(frames)
      /\ \A i \in DOMAIN frames : frames[i] \in Frame
  BY SeqDomain, EmptySeq DEF Inv, FramesOK, FrameOK, CleanUp
<1>2. /\ DOMAIN outer = 1..(Len(frames) - 1)
      /\ \A i \in DOMAIN outer : outer[i] = frames[i + 1]
  <2>1. outer \in Seq(Frame) /\ Len(outer) = Len(frames) - 1
        /\ \A i \in 1..Len(outer) : outer[i] = frames[i + 1]
    BY HeadTailProperties DEF Inv, FramesOK, CleanUp
  <2>2. QED
    BY <2>1, SeqDomain
<1>3. frames' = [i \in DOMAIN outer |-> left(i)]
      /\ keys' = [l \in Ids |-> IF l \in gone THEN {} ELSE keys[l]] /\ enabled' = enabled
  BY DEF CleanUp
<1>4. ASSUME NEW i \in DOMAIN frames'
      PROVE  /\ i + 1 \in DOMAIN frames
             /\ frames'[i].key = frames[i + 1].key /\ frames'[i].due = frames[i + 1].due
             /\ frames'[i].due \subseteq Ids
  <2>1. i \in 1..(Len(frames) - 1) /\ frames'[i] = left(i) /\ outer[i] = frames[i + 1]
    BY <1>2, <1>3
  <2>2. i + 1 \in DOMAIN frames /\ frames[i + 1] \in Frame
    BY <1>1, <2>1
  <2>3. QED
    BY <2>1, <2>2 DEF Frame
<1>5. \A l \in Ids : \A k : HasReserved(l, k) => enabled'[l] /\ k \in keys'[l]
  BY <1>3 DEF HasReserved, Kept
<1>6. \A i \in DOMAIN frames' : \E j \in DOMAIN frames :
          frames'[i].key = frames[j].key /\ frames'[i].due \subseteq frames[j].due
  BY <1>4
<1>7. QED
  BY <1>4, <1>5, <1>6, DueReserveKept DEF Inv

LEMMA SameReserves ==
  ASSUME DueReserve, UNCHANGED <<frames, enabled, keys>>
  PROVE  DueReserve'
BY DEF DueReserve, HasReserved

LEMMA CleanUpKeeps ==
  ASSUME Inv, CleanUp
  PROVE  FramesOK'
<1> DEFINE gone == Registered \ Kept
           outer == Tail(frames)
           left(i) == [outer[i] EXCEPT !.deleted = @ \cup (gone \cap ToSet(outer[i].copy))]
<1>1. /\ Len(frames) \in Nat \ {0} /\ DOMAIN frames = 1..Len(frames)
      /\ \A i \in DOMAIN frames : FrameOK(frames[i])
  BY SeqDomain, EmptySeq DEF Inv, FramesOK, CleanUp
<1>2. /\ outer \in Seq(Frame) /\ Len(outer) = Len(frames) - 1
      /\ DOMAIN outer = 1..(Len(frames) - 1)
      /\ \A i \in DOMAIN outer : outer[i] = frames[i + 1]
  BY HeadTailProperties, SeqDomain DEF Inv, FramesOK, CleanUp
<1>3. gone \subseteq Ids
  BY SeqDomain DEF Inv, ListOK, Registered, ToSet
<1>4. \A i \in DOMAIN outer : FrameOK(left(i))
  <2> TAKE i \in DOMAIN outer
  <2>1. FrameOK(outer[i])
    BY <1>1, <1>2
  <2>2. \A l \in outer[i].due : l \notin gone
    <3>1. i + 1 \in DOMAIN frames /\ outer[i] = frames[i + 1]
      BY <1>1, <1>2
    <3>2. QED
      BY <3>1 DEF Inv, DueReserve, HasReserved, Kept
  <2>3. QED
    BY <1>3, <2>1, <2>2 DEF FrameOK, Frame
<1>5. frames' = [i \in 1..Len(outer) |-> left(i)]
  BY <1>2 DEF CleanUp
<1>6. frames' \in Seq(Frame)
  <2>1. \A i \in 1..Len(outer) : left(i) \in Frame
    BY <1>2, <1>4 DEF FrameOK
  <2>2. Len(outer) \in Nat
    BY <1>1, <1>2
  <2>3. QED
    BY <1>5, <2>1, <2>2, IsASeq
<1>7. QED
  BY <1>2, <1>4, <1>5, <1>6 DEF FramesOK

-----------------------------------------------------------------------------
(* The list and the keys.                                                  *)

(***************************************************************************)
(* Who is told, in addInputListener() and delInputListener(), is told what *)
(* the keys are then.                                                      *)
(***************************************************************************)
LEMMA UpdateTells ==
  ASSUME KeysOK, told # None => told = globalKeys, UNCHANGED observed,
         NEW isAdd \in BOOLEAN, NEW ks \in SUBSET Keys, UpdateGlobalKeys(isAdd, ks)
  PROVE  /\ globalKeys' = IF isAdd THEN globalKeys \cup ks ELSE globalKeys \ ks
         /\ globalKeys' \subseteq Keys /\ told' \in (SUBSET Keys) \cup {None}
         /\ told' # None => told' = globalKeys' /\ observed'
<1>1. globalKeys' = IF isAdd THEN globalKeys \cup ks ELSE globalKeys \ ks
  BY DEF UpdateGlobalKeys
<1>2. told' = told \/ (told' = globalKeys' /\ observed)
  BY DEF UpdateGlobalKeys
<1>3. told' = told /\ told # None => globalKeys' = globalKeys
  BY DEF UpdateGlobalKeys, KeysOK
<1>4. globalKeys' \subseteq Keys
  BY <1>1 DEF KeysOK
<1>5. QED
  BY <1>1, <1>2, <1>3, <1>4 DEF KeysOK

LEMMA AddKeeps ==
  ASSUME Inv, NEW l \in Ids, NEW ks \in SUBSET Keys, Add(l, ks)
  PROVE  Inv'
<1> USE DEF Inv
<1>1. UpdateGlobalKeys(TRUE, ks) /\ UNCHANGED <<observed, frames>>
  BY DEF Add
<1>2. /\ globalKeys' = globalKeys \cup ks /\ globalKeys' \subseteq Keys
      /\ told' \in (SUBSET Keys) \cup {None}
      /\ told' # None => told' = globalKeys' /\ observed'
  BY <1>1, UpdateTells DEF KeysAgree
<1>3. FramesOK' /\ DueReserve'
  BY <1>1, FramesSame, AddReserves
<1>4. CASE l \in Registered
  <2>1. /\ keys' = [keys EXCEPT ![l] = @ \cup ks]
        /\ enabled' = [enabled EXCEPT ![l] = TRUE]
        /\ UNCHANGED listeners
        /\ unreported' = (unreported \cup (keys[l] \ globalKeys)) \ ks
    BY <1>4 DEF Add
  <2>2. ListOK' /\ KeysOK'
    BY <1>1, <1>2, <1>4, <2>1 DEF ListOK, KeysOK, Registered
  <2>3. Reserved' = Reserved \cup keys[l] \cup ks
    BY <1>4, <2>1 DEF Reserved, ListOK, Registered
  <2>4. KeysAgree'
    BY <1>2, <2>1, <2>3 DEF KeysAgree, KeysOK
  <2>5. QED
    BY <1>3, <2>2, <2>4
<1>5. CASE l \notin Registered
  <2>1. /\ keys' = [keys EXCEPT ![l] = ks]
        /\ enabled' = [enabled EXCEPT ![l] = TRUE]
        /\ listeners' = Append(listeners, l)
        /\ unreported' = unreported \ ks
    BY <1>5 DEF Add
  <2>2. /\ listeners' \in Seq(Ids) /\ IsInjective(listeners')
        /\ Registered' = Registered \cup {l}
    BY <1>5, <2>1, AppendToInjective DEF ListOK, Registered
  <2>3. ListOK' /\ KeysOK'
    BY <1>1, <1>2, <2>1, <2>2 DEF ListOK, KeysOK
  <2>4. Reserved' = Reserved \cup ks
    BY <1>5, <2>1, <2>2 DEF Reserved, ListOK
  <2>5. KeysAgree'
    BY <1>2, <2>1, <2>4 DEF KeysAgree, KeysOK
  <2>6. QED
    BY <1>3, <2>3, <2>5
<1>6. QED
  BY <1>4, <1>5

LEMMA DelKeeps ==
  ASSUME Inv, NEW l \in Ids, Del(l)
  PROVE  Inv'
<1> USE DEF Inv
<1>1. /\ l \in Registered /\ enabled[l]
      /\ enabled' = [enabled EXCEPT ![l] = FALSE]
      /\ UpdateGlobalKeys(FALSE, keys[l])
      /\ unreported' = unreported \cup (keys[l] \cap UNION {keys[i] : i \in Registered \ {l}})
      /\ frames' = NoLongerDue(l)
      /\ UNCHANGED <<listeners, keys, observed>>
  BY DEF Del
<1>2. keys[l] \in SUBSET Keys
  BY DEF ListOK
<1>3. /\ globalKeys' = globalKeys \ keys[l] /\ globalKeys' \subseteq Keys
      /\ told' \in (SUBSET Keys) \cup {None}
      /\ told' # None => told' = globalKeys' /\ observed'
  BY <1>1, <1>2, UpdateTells DEF KeysAgree
<1>4. FramesOK' /\ DueReserve'
  BY <1>1, NoLongerDueKeeps, DelReserves
<1>5. Registered' = Registered
  BY <1>1 DEF Registered
<1>6. ListOK' /\ KeysOK'
  BY <1>1, <1>2, <1>3, <1>5 DEF ListOK, KeysOK
<1>7. Reserved' = UNION {keys[i] : i \in {j \in Registered \ {l} : enabled[j]}}
  <2>1. Registered \subseteq Ids
    BY SeqDomain DEF ListOK, Registered, ToSet
  <2>2. {j \in Registered : enabled'[j]} = {j \in Registered \ {l} : enabled[j]}
    BY <1>1, <2>1 DEF ListOK
  <2>3. QED
    BY <1>1, <1>5, <2>2 DEF Reserved
<1>8. /\ Reserved \subseteq Reserved' \cup keys[l]
      /\ Reserved' \subseteq Reserved
      /\ Reserved' \cap keys[l] \subseteq unreported'
  BY <1>1, <1>7 DEF Reserved
<1>9. KeysAgree'
  BY <1>1, <1>3, <1>8 DEF KeysAgree
<1>10. QED
  BY <1>4, <1>6, <1>9

LEMMA CleanUpInv ==
  ASSUME Inv, CleanUp
  PROVE  Inv'
<1> USE DEF Inv
<1>1. /\ listeners' \in Compacted
      /\ keys' = [l \in Ids |-> IF l \in Registered \ Kept THEN {} ELSE keys[l]]
      /\ UNCHANGED <<enabled, keyVars>>
  BY DEF CleanUp
<1>2. listeners' \in Seq(Ids) /\ IsInjective(listeners') /\ Registered' = Kept
  BY <1>1, CompactedProperties DEF Registered
<1>3. ListOK' /\ KeysOK'
  BY <1>1, <1>2 DEF ListOK, KeysOK, Kept, keyVars
<1>4. Reserved' = Reserved
  <2>1. Registered \subseteq Ids
    BY SeqDomain DEF ListOK, Registered, ToSet
  <2>2. {l \in Registered' : enabled'[l]} = Kept
    BY <1>1, <1>2 DEF Kept
  <2>3. \A l \in Kept : keys'[l] = keys[l]
    BY <1>1, <2>1 DEF Kept
  <2>4. QED
    BY <2>2, <2>3 DEF Reserved, Kept
<1>5. KeysAgree'
  BY <1>1, <1>4 DEF KeysAgree, keyVars
<1>6. QED
  BY <1>3, <1>5, CleanUpKeeps, CleanUpReserves

LEMMA ListKept ==
  ASSUME Inv, UNCHANGED <<listeners, enabled, keys, globalKeys, observed, told, unreported>>,
         FramesOK', DueReserve'
  PROVE  Inv'
<1>1. Registered' = Registered /\ Reserved' = Reserved
  BY DEF Registered, Reserved
<1>2. QED
  BY <1>1 DEF Inv, ListOK, KeysOK, KeysAgree

(***************************************************************************)
(* The invariant.                                                          *)
(***************************************************************************)
LEMMA InitInv == InputInit => Inv
<1> SUFFICES ASSUME InputInit
             PROVE  Inv
  OBVIOUS
<1> USE DEF InputInit
<1>1. /\ <<>> \in Seq(Ids) /\ <<>> \in Seq(Frame) /\ DOMAIN <<>> = {}
  BY EmptySeq, SeqDomain
<1>2. IsInjective(listeners) /\ Registered = {} /\ Reserved = {}
  BY <1>1 DEF IsInjective, Registered, Reserved, ToSet
<1>3. ListOK /\ KeysOK /\ FramesOK /\ DueReserve
  <2>1. enabled \in [Ids -> BOOLEAN] /\ keys \in [Ids -> SUBSET Keys]
    OBVIOUS
  <2>2. \A l \in Ids : ~enabled[l]
    OBVIOUS
  <2>3. ListOK
    BY <1>1, <1>2, <2>1, <2>2 DEF ListOK
  <2>4. KeysOK
    BY DEF KeysOK
  <2>5. FramesOK
    BY <1>1 DEF FramesOK
  <2>6. DueReserve
    BY <1>1 DEF DueReserve
  <2>7. QED
    BY <2>3, <2>4, <2>5, <2>6
<1>4. KeysAgree
  BY <1>2 DEF KeysAgree
<1>5. QED
  BY <1>3, <1>4 DEF Inv

LEMMA NextInv == Inv /\ [InputNext]_inputVars => Inv'
<1> SUFFICES ASSUME Inv, [InputNext]_inputVars
             PROVE  Inv'
  OBVIOUS
<1>1. ASSUME NEW l \in Ids, NEW ks \in SUBSET Keys, Add(l, ks)
      PROVE  Inv'
  BY <1>1, AddKeeps
<1>2. ASSUME NEW l \in Ids, Del(l)
      PROVE  Inv'
  BY <1>2, DelKeeps
<1>3. CASE OnGlobalKeysChange
  <2>1. /\ UNCHANGED <<listeners, enabled, keys, globalKeys, told, unreported, frames>>
        /\ observed' = TRUE
    BY <1>3 DEF OnGlobalKeysChange, listenerVars
  <2>2. FramesOK' /\ DueReserve' /\ Registered' = Registered /\ Reserved' = Reserved
    BY <2>1, FramesSame, SameReserves DEF Inv, Registered, Reserved
  <2>3. QED
    BY <2>1, <2>2 DEF Inv, ListOK, KeysOK, KeysAgree
<1>4. ASSUME NEW k \in Keys, Dispatch(k)
      PROVE  Inv'
  BY <1>4, DispatchKeeps, DispatchReserves, ListKept DEF Dispatch, listenerVars, keyVars
<1>5. CASE Visit
  BY <1>5, VisitKeeps, VisitReserves, ListKept DEF Visit, listenerVars, keyVars
<1>6. CASE Return
  BY <1>6, ReturnKeeps, ReturnReserves, ListKept DEF Return, listenerVars, keyVars
<1>7. CASE CleanUp
  BY <1>7, CleanUpInv
<1>8. CASE UNCHANGED inputVars
  BY <1>8, ListKept, FramesSame, SameReserves DEF inputVars, Inv
<1>9. QED
  BY <1>1, <1>2, <1>3, <1>4, <1>5, <1>6, <1>7, <1>8 DEF InputNext

(***************************************************************************)
(* The invariant holds in every state: a call of the manager, one step of  *)
(* a dispatch, or its end keeps it.                                        *)
(***************************************************************************)
THEOREM InvHolds == InputSpec => []Inv
BY InitInv, NextInv, PTL DEF InputSpec

(***************************************************************************)
(* The variables keep their types, whatever registers and is removed in    *)
(* the middle of whatever dispatches.                                      *)
(***************************************************************************)
THEOREM InputIsTyped == InputSpec => []InputTypeOK
<1>1. Inv => InputTypeOK
  BY DEF Inv, ListOK, KeysOK, FramesOK, InputTypeOK
<1>2. QED
  BY <1>1, InvHolds, PTL

(***************************************************************************)
(* addInputListener() and delInputListener(): a key is global exactly while *)
(* somebody reserves it, but for the keys that Del and Add lose, and the   *)
(* devices know.                                                           *)
(***************************************************************************)
THEOREM GlobalKeysAgree == InputSpec => []KeysAgree
<1>1. Inv => KeysAgree
  BY DEF Inv
<1>2. QED
  BY <1>1, InvHolds, PTL

(***************************************************************************)
(* dispatchKey(): a listener that had reserved the key when the dispatch   *)
(* began, and was not removed since, is called or still to be asked; it is *)
(* called when it is asked, because it still exists and reserves the key   *)
(* (DueReserve), whatever the callbacks and nested dispatches did.         *)
(***************************************************************************)
THEOREM NoneIsMissed == InputSpec => []NobodyIsMissed
<1>1. Inv => NobodyIsMissed
  BY DEF Inv, FramesOK, FrameOK, NobodyIsMissed
<1>2. QED
  BY <1>1, InvHolds, PTL

(***************************************************************************)
(* dispatchKey(): who is called is registered, enabled and has reserved the *)
(* key, and is not called again by the same dispatch.                      *)
(***************************************************************************)
THEOREM CalledHaveReserved == InputSpec => OnlyReservingAreCalled
<1> DEFINE Called == LET l == frames'[1].callee
                     IN /\ l \notin frames[1].deleted => /\ l \in Registered /\ enabled[l]
                                                        /\ frames[1].key \in keys[l]
                        /\ l \notin ToSet(frames'[1].copy)
<1>1. ASSUME Inv, [InputNext]_inputVars, Calls
      PROVE  Called
  <2>1. Len(frames) \in Nat \ {0} /\ 1 \in DOMAIN frames /\ FrameOK(frames[1])
    BY <1>1, FirstFrame, SeqDomain, EmptySeq DEF Calls, Inv, FramesOK
  <2>2. CASE Visit
    <3> DEFINE f == frames[1]
               l == Head(f.copy)
               passed == [f EXCEPT !.copy = Tail(@), !.deleted = @ \ {l}]
               called == [passed EXCEPT !.callee = l, !.nested = FALSE, !.due = @ \ {l}]
    <3>1. f.copy # <<>> /\ f.callee = None
      BY <2>2 DEF Visit
    <3>2. l \in Ids /\ ToSet(Tail(f.copy)) = ToSet(f.copy) \ {l}
      BY <2>1, <3>1, TailOfInjective DEF FrameOK, Frame
    <3>3. \/ frames' = [frames EXCEPT ![1] = passed]
          \/ /\ frames' = [frames EXCEPT ![1] = called]
             /\ l \in f.deleted \/ HasReserved(l, f.key)
      BY <2>2 DEF Visit
    <3>4. frames'[1] = passed \/ frames'[1] = called
      BY <2>1, <3>3
    <3>5. passed.callee = None
      BY <2>1, <3>1 DEF FrameOK, Frame
    <3>6. frames'[1] = called /\ (l \in f.deleted \/ HasReserved(l, f.key))
      BY <1>1, <2>1, <3>3, <3>4, <3>5 DEF Calls
    <3>7. called.callee = l /\ called.copy = Tail(f.copy)
      BY <2>1 DEF FrameOK, Frame
    <3>8. HasReserved(l, f.key) => l \in Registered
      BY <1>1, <3>2 DEF HasReserved, Inv, ListOK
    <3>9. QED
      BY <3>2, <3>6, <3>7, <3>8 DEF HasReserved
  <2>3. ASSUME NEW l \in Ids, Del(l)
        PROVE  FALSE
    <3>1. frames'[1] = [frames[1] EXCEPT !.due = @ \ {l}]
      BY <2>1, <2>3 DEF Del, NoLongerDue
    <3>2. QED
      BY <1>1, <2>1, <3>1 DEF Calls, FrameOK, Frame
  <2>4. ASSUME NEW k \in Keys, Dispatch(k)
        PROVE  FALSE
    BY <1>1, <2>4 DEF Dispatch, Calls
  <2>5. CASE Return
    BY <1>1, <2>5 DEF Return, Calls
  <2>6. CASE CleanUp
    <3>1. Len(Tail(frames)) = Len(frames) - 1 /\ DOMAIN Tail(frames) = 1..(Len(frames) - 1)
      BY <1>1, HeadTailProperties, SeqDomain DEF Calls, Inv, FramesOK
    <3>2. DOMAIN frames' = 1..(Len(frames) - 1)
      BY <2>6, <3>1 DEF CleanUp
    <3>3. frames' \in Seq(Frame)
      BY <1>1, <2>6, CleanUpKeeps DEF FramesOK
    <3>4. Len(frames') = Len(frames) - 1
      BY <2>1, <3>2, <3>3, SeqDomain
    <3>5. QED
      BY <1>1, <2>1, <3>4 DEF Calls
  <2>7. CASE UNCHANGED frames
    BY <1>1, <2>7 DEF Calls
  <2>8. QED
    BY <1>1, <2>2, <2>3, <2>4, <2>5, <2>6, <2>7 DEF InputNext, Add, OnGlobalKeysChange, inputVars
<1>2. Inv /\ [InputNext]_inputVars => [Calls => Called]_inputVars
  BY <1>1
<1>3. QED
  BY <1>2, InvHolds, PTL DEF InputSpec, OnlyReservingAreCalled

=============================================================================
