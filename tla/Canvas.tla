------------------------------- MODULE Canvas -------------------------------
(***************************************************************************)
(* The canvas on which the players draw.  Every player has surfaces; what  *)
(* it does to them marks regions of the canvas as dirty, and a flush paints *)
(* those regions again, and only them, from the surfaces that are dirty.   *)
(* The list of regions is kept short: invalidateRegion() joins rectangles, *)
(* cuts them and calls itself with the result.                             *)
(*                                                                         *)
(* The canvas is used by one thread.  A call of invalidateRegion() is a    *)
(* step of its own and the calls that are still to be made are in "work":  *)
(* what a caller changes on its surface is changed before them, since      *)
(* nothing can look in between.  The order of the regions in the list, and *)
(* of the calls made by one of them, are left open.                        *)
(***************************************************************************)
EXTENDS Rects

CONSTANTS
    Surfaces,       \* names for the surfaces
    Screen,         \* the rectangle of the canvas: its position is 0, 0
    Places,         \* the bounds that surfaces are given
    Strokes,        \* what is drawn, in coordinates of the surface
    JoinPercentage, \* gui.canvas.joinPercentage, in hundredths
    MaxTransaction  \* bound: nested transactions

ASSUME CanvasAssumption ==
    /\ Screen \in Rectangles /\ Screen.x = 0 /\ Screen.y = 0
    /\ Places \subseteq {r \in Rectangles : ~IsEmpty(r)}
    /\ Strokes \subseteq {r \in Rectangles : ~IsEmpty(r)}
    /\ JoinPercentage \in Nat /\ MaxTransaction \in Nat

VARIABLES
    bounds,        \* the position and the size of each of _surfaces
    visible,       \* _visible
    autoFlush,     \* _autoFlush
    dirtySurfaces, \* the surfaces with _dirty
    dirtyRegions,  \* _dirtyRegions
    work,          \* the rectangles that invalidateRegion() is yet to be called with
    inTransaction, \* _inTransaction
    stale,         \* the pixels of the layer that do not show what they should
    forgotten      \* history: pixels that the code leaves as they are, see Forgets

surfaceVars == <<bounds, visible, autoFlush>>
vars == <<bounds, visible, autoFlush, dirtySurfaces, dirtyRegions, work,
          inTransaction, stale, forgotten>>

alive == DOMAIN bounds

Cover(R) == UNION {Pixels(r) : r \in R}

\* A surface takes part in what the layer shows.
Shown(s) == s \in autoFlush /\ s \in visible

ShownAt(p) == {s \in alive : Shown(s) /\ p \in Pixels(bounds[s])}

Idle == work = {}

-----------------------------------------------------------------------------
(* Canvas::invalidateRegion(), addDirtyRegion()                            *)

\* boost::math::iround() of a share of the area.
Extra(r, d) == Area(Encompass(r, d)) - Area(r) - Area(d) + Area(Intersection(r, d))
MaxExtra(r, d) == (2 * JoinPercentage * Area(Encompass(r, d)) + 100) \div 200

Apart(r, d)    == ~Includes(d, r) /\ ~Includes(r, d)
Joins(r, d)    == Apart(r, d) /\ Extra(r, d) <= MaxExtra(r, d)
Overlaps(r, d) == Apart(r, d) /\ ~Joins(r, d) /\ Area(Intersection(r, d)) > 0

Trims(r, d)     == Overlaps(r, d) /\ GoesInto(r, d)
IsTrimmed(r, d) == Overlaps(r, d) /\ ~GoesInto(r, d) /\ GoesInto(d, r)

ToErase(r, d) == Includes(r, d) \/ Joins(r, d) \/ IsTrimmed(r, d)

ToAdd(r, d) ==
    CASE Joins(r, d)     -> {Encompass(r, d)}
      [] Trims(r, d)     -> {Cut(r, Intersection(r, d))}
      [] IsTrimmed(r, d) -> {Cut(d, Intersection(r, d)), r}
      [] OTHER           -> {}

MarkedBy(r) == {s \in autoFlush : Intersects(r, bounds[s])}

InvalidateRegion(r) ==
    /\ r \in work
    /\ \/ /\ \E d \in dirtyRegions : Includes(d, r)
          /\ work' = work \ {r}
          /\ UNCHANGED <<dirtyRegions, dirtySurfaces>>
       \/ /\ \A d \in dirtyRegions : ~Includes(d, r)
          /\ LET toErase == {d \in dirtyRegions : ToErase(r, d)}
                 toAdd   == UNION {ToAdd(r, d) : d \in dirtyRegions}
             IN  /\ work' = (work \ {r}) \cup toAdd
                 /\ IF toAdd = {}
                    THEN /\ dirtyRegions' = (dirtyRegions \ toErase) \cup {r}
                         /\ dirtySurfaces' = dirtySurfaces \cup MarkedBy(r)
                    ELSE /\ dirtyRegions' = dirtyRegions \ toErase
                         /\ UNCHANGED dirtySurfaces
    /\ UNCHANGED <<surfaceVars, inTransaction, stale, forgotten>>

-----------------------------------------------------------------------------
(* Canvas and Surface: what media do to their surfaces.                    *)

\* markDirty() of the rectangles R.
MarkDirty(s, R) ==
    /\ IF s \in autoFlush
       THEN /\ work' = {r \in R : ~IsEmpty(r)}
            /\ dirtySurfaces' = dirtySurfaces \cup {s}
       ELSE UNCHANGED <<work, dirtySurfaces>>
    /\ UNCHANGED <<dirtyRegions, inTransaction>>

\* markDirtySurface(): a rectangle of the surface, which is at b.
OnCanvas(b, r) ==
    Rect(b.x + r.x, b.y + r.y, Smaller(Larger(b.w - r.x, 0), r.w),
                               Smaller(Larger(b.h - r.y, 0), r.h))

\* The pixels P of the layer are no longer what they should be, except those
\* that will never be painted because the layer does not have them.
Changes(P) == stale' = stale \cup (P \cap Pixels(Screen))

\* A surface whose _autoFlush is set to false is not marked any more, so that it
\* stays on the layer; and resize() adds the position of the surface to its
\* bounds twice, so that it marks other pixels than those that it leaves.
Forgets(P) == forgotten' = forgotten \cup (P \cap Pixels(Screen))

CreateSurface(s) ==
    /\ Idle /\ s \notin alive
    /\ \E b \in Places : bounds' = [t \in alive \cup {s} |-> IF t = s THEN b ELSE bounds[t]]
    /\ visible' = visible \cup {s}
    /\ UNCHANGED <<autoFlush, dirtySurfaces, dirtyRegions, work, inTransaction, stale, forgotten>>

\* Canvas::destroy() and the destructor of the surface, which marks its bounds.
Destroy(s) ==
    /\ Idle /\ s \in alive
    /\ bounds' = [t \in alive \ {s} |-> bounds[t]]
    /\ visible' = visible \ {s} /\ autoFlush' = autoFlush \ {s}
    /\ dirtySurfaces' = dirtySurfaces \ {s}
    /\ work' = IF s \in autoFlush THEN {bounds[s]} ELSE {}
    /\ Changes(IF Shown(s) THEN Pixels(bounds[s]) ELSE {})
    /\ UNCHANGED <<dirtyRegions, inTransaction, forgotten>>

SetAutoFlush(s) ==
    /\ Idle /\ s \in alive
    /\ autoFlush' = autoFlush \cup {s}
    /\ dirtySurfaces' = dirtySurfaces \cup {s}
    /\ work' = {bounds[s]}
    /\ Changes(IF s \in visible \ autoFlush THEN Pixels(bounds[s]) ELSE {})
    /\ UNCHANGED <<bounds, visible, dirtyRegions, inTransaction, forgotten>>

\* markDirty() does nothing any more when it is called.
ResetAutoFlush(s) ==
    /\ Idle /\ s \in autoFlush
    /\ autoFlush' = autoFlush \ {s}
    /\ LET P == IF s \in visible THEN Pixels(bounds[s]) ELSE {} IN Changes(P) /\ Forgets(P)
    /\ UNCHANGED <<bounds, visible, dirtySurfaces, dirtyRegions, work, inTransaction>>

SetVisible(s, v) ==
    /\ Idle /\ s \in alive /\ (s \in visible) # v
    /\ visible' = IF v THEN visible \cup {s} ELSE visible \ {s}
    /\ UNCHANGED <<bounds, autoFlush, forgotten>>
    /\ MarkDirty(s, {bounds[s]})
    /\ Changes(IF s \in autoFlush THEN Pixels(bounds[s]) ELSE {})

\* setZIndex(), setOpacity(): the whole surface looks different where it is.
Restack(s) ==
    /\ Idle /\ s \in alive
    /\ UNCHANGED <<surfaceVars, forgotten>>
    /\ MarkDirty(s, {bounds[s]})
    /\ Changes(IF Shown(s) THEN Pixels(bounds[s]) ELSE {})

\* fillRect(), clear(), blit() and every other operation that draws.  What is drawn lies
\* within the surface: of a blit() beyond it, the part that lies in it shows.
Draw(s, r) ==
    /\ Idle /\ s \in alive
    /\ r.x >= 0 /\ r.x + r.w <= bounds[s].w /\ r.y >= 0 /\ r.y + r.h <= bounds[s].h
    /\ UNCHANGED <<surfaceVars, forgotten>>
    /\ MarkDirty(s, {OnCanvas(bounds[s], r)})
    /\ Changes(IF Shown(s)
               THEN Pixels(Rect(bounds[s].x + r.x, bounds[s].y + r.y, r.w, r.h)) ELSE {})

\* Mutant: the place that the surface leaves is not marked.
SetLocationMarkingOnce(s, x, y) ==
    LET old == bounds[s]
        new == [old EXCEPT !.x = x, !.y = y]
    IN  /\ Idle /\ s \in alive /\ new \in Places
        /\ bounds' = [bounds EXCEPT ![s] = new]
        /\ UNCHANGED <<visible, autoFlush, forgotten>>
        /\ MarkDirty(s, {new})
        /\ Changes(IF Shown(s) THEN Pixels(old) \cup Pixels(new) ELSE {})

SetLocation(s, x, y) ==
    LET old == bounds[s]
        new == [old EXCEPT !.x = x, !.y = y]
    IN  /\ Idle /\ s \in alive /\ new \in Places
        /\ bounds' = [bounds EXCEPT ![s] = new]
        /\ UNCHANGED <<visible, autoFlush, forgotten>>
        /\ MarkDirty(s, {old, new})
        /\ Changes(IF Shown(s) THEN Pixels(old) \cup Pixels(new) ELSE {})

Resize(s, w, h) ==
    LET old == bounds[s]
        new == [old EXCEPT !.w = w, !.h = h]
        P   == IF Shown(s) THEN Pixels(old) \cup Pixels(new) ELSE {}
    IN  /\ Idle /\ s \in alive /\ new \in Places
        /\ bounds' = [bounds EXCEPT ![s] = new]
        /\ UNCHANGED <<visible, autoFlush>>
        /\ MarkDirty(s, {OnCanvas(old, old), OnCanvas(new, new)})
        /\ Changes(P)
        /\ Forgets(IF old.x = 0 /\ old.y = 0 THEN {} ELSE P)

-----------------------------------------------------------------------------
(* Canvas::flush(), beginDraw(), endDraw()                                 *)

ToBlit == {s \in dirtySurfaces : s \in autoFlush /\ s \in visible}

\* The pixels that are cleared and painted with other surfaces than they should.
PaintedWrong ==
    {p \in Cover(dirtyRegions) \cap Pixels(Screen) :
        {s \in ToBlit : p \in Pixels(bounds[s])} # ShownAt(p)}

FlushImpl ==
    /\ dirtySurfaces' = {}
    /\ dirtyRegions' = {}
    /\ stale' = (stale \ Cover(dirtyRegions)) \cup PaintedWrong
    /\ forgotten' = forgotten \ Cover(dirtyRegions)

Flush ==
    /\ Idle /\ inTransaction = 0
    /\ FlushImpl
    /\ UNCHANGED <<surfaceVars, work, inTransaction>>

BeginDraw ==
    /\ Idle /\ inTransaction < MaxTransaction
    /\ inTransaction' = inTransaction + 1
    /\ UNCHANGED <<surfaceVars, dirtySurfaces, dirtyRegions, work, stale, forgotten>>

\* Mutant: the end of a nested transaction flushes, too.
EndDrawAlwaysFlushing ==
    /\ Idle /\ inTransaction > 0
    /\ inTransaction' = inTransaction - 1
    /\ FlushImpl
    /\ UNCHANGED <<surfaceVars, work>>

EndDraw ==
    /\ Idle /\ inTransaction > 0
    /\ inTransaction' = inTransaction - 1
    /\ IF inTransaction = 1 THEN FlushImpl
       ELSE UNCHANGED <<dirtySurfaces, dirtyRegions, stale, forgotten>>
    /\ UNCHANGED <<surfaceVars, work>>

-----------------------------------------------------------------------------

\* initialize(): the whole canvas is to be painted.
Init ==
    /\ bounds = <<>> /\ visible = {} /\ autoFlush = {} /\ dirtySurfaces = {}
    /\ dirtyRegions = {Screen}
    /\ work = {}
    /\ inTransaction = 0
    /\ stale = {} /\ forgotten = {}

\* Left out are Surface::flushCompositionMode() with a mode, which a video player calls once,
\* before the video plays, and Canvas::reset(), which nothing but the tests calls: both change
\* what should show, and mark nothing.
SurfaceNext == \E s \in Surfaces :
    \/ CreateSurface(s) \/ Destroy(s) \/ Restack(s)
    \/ SetAutoFlush(s) \/ ResetAutoFlush(s)
    \/ \E v \in BOOLEAN : SetVisible(s, v)
    \/ \E r \in Strokes : Draw(s, r)
    \/ \E r \in Places : SetLocation(s, r.x, r.y) \/ Resize(s, r.w, r.h)

Next == \/ SurfaceNext
        \/ \E r \in work : InvalidateRegion(r)
        \/ Flush \/ BeginDraw \/ EndDraw

Spec == Init /\ [][Next]_vars /\ WF_vars(\E r \in work : InvalidateRegion(r))

-----------------------------------------------------------------------------

TypeOK ==
    /\ alive \subseteq Surfaces /\ bounds \in [alive -> Places]
    /\ visible \subseteq alive /\ autoFlush \subseteq alive /\ dirtySurfaces \subseteq alive
    /\ dirtyRegions \subseteq Rectangles /\ work \subseteq Rectangles
    /\ inTransaction \in 0..MaxTransaction
    /\ stale \subseteq Pixels(Screen) /\ forgotten \subseteq Pixels(Screen)

\* Whatever the players did, and however their rectangles were joined, cut and
\* dropped from the list, a pixel that is out of date is in a dirty region (or
\* in one that is on its way there): the next flush will paint it.
StaleIsDirty == stale \subseteq Cover(dirtyRegions \cup work) \cup forgotten

\* A surface that should be seen in a dirty region is itself dirty: flushImpl()
\* clears the region and paints only the surfaces that are.
SeenIsDirty == \A s \in alive : \A r \in dirtyRegions :
    Shown(s) /\ Intersects(r, bounds[s]) => s \in dirtySurfaces

\* Everything that is drawn is painted by the next flush, and by the end of the
\* outermost transaction, right where it should be seen.
Paints == INSTANCE Painting WITH
    Layer     <- Pixels(Screen),
    outOfDate <- stale \ forgotten,
    noted     <- Cover(dirtyRegions \cup work) \cap Pixels(Screen)

ImplementsPainting == Paints!PaintingSpec

\* Only the end of the outermost transaction paints, as long as there is one, and
\* then everything that was changed since its beginning is as it should be.
EndDrawPaints == [][
    /\ inTransaction > 0 /\ inTransaction' > 0 =>
          Cover(dirtyRegions \cup work) \subseteq Cover(dirtyRegions' \cup work')
    /\ inTransaction > 0 /\ inTransaction' = 0 => stale' \subseteq forgotten']_vars

\* invalidateRegion() keeps no region that another one includes.
NoneIncludesAnother == \A r, d \in dirtyRegions : r # d => ~Includes(r, d)

\* The assertion of Rect::cut(), for every rectangle it is called with.
CutIsAside == \A r \in work : \A d \in dirtyRegions :
    LET i == Intersection(r, d) IN
    /\ Trims(r, d) => Aside(i, r)
    /\ IsTrimmed(r, d) => Aside(i, d)

=============================================================================
