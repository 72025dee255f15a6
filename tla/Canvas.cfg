SPECIFICATION Spec
CONSTANTS
    Surfaces = {s1, s2}
    Screen <- MCScreen
    Places <- MCPlaces
    Strokes <- MCStrokes
    JoinPercentage = 20
    MaxTransaction = 2
INVARIANTS CutIsAside
PROPERTIES ImplementsPainting EndDrawPaints
SYMMETRY Symmetry
