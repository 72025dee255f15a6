------------------------------ MODULE Painting ------------------------------
(***************************************************************************)
(* What a canvas promises to those that draw on it: what they change is    *)
(* noted down until it is painted, and painting leaves nothing noted down  *)
(* out of date.  Canvas implements it with a list of rectangles.           *)
(***************************************************************************)

CONSTANT Layer          \* the pixels

VARIABLES
    outOfDate,  \* pixels that do not show what they should
    noted       \* pixels to be painted

paintingVars == <<outOfDate, noted>>

PaintingInit == outOfDate = {} /\ noted \subseteq Layer

\* Any number of pixels changes; nothing that was noted is dropped.
Change ==
    /\ noted \subseteq noted' /\ noted' \subseteq Layer
    /\ outOfDate' \subseteq outOfDate \cup noted'

Paint == noted' = {} /\ outOfDate' = outOfDate \ noted

PaintingNext == Change \/ Paint

PaintingSpec == PaintingInit /\ [][PaintingNext]_paintingVars
=============================================================================
