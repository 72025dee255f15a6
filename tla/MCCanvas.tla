------------------------------ MODULE MCCanvas ------------------------------
EXTENDS Canvas, TLC

MCScreen == Rect(0, 0, 3, 2)

\* Bounds of two surfaces that move, that change their size at the origin and that
\* overlap, touch and leave parts of each other uncovered.
MCPlaces == {Rect(0, 0, 3, 1), Rect(0, 1, 3, 1), Rect(0, 0, 3, 2)}
MCStrokes == {Rect(1, 0, 1, 2)}

Symmetry == Permutations(Surfaces)
=============================================================================
