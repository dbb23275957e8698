SPECIFICATION Spec

CONSTANTS
    Folders = {inbox, f, g}
    WellKnown = {inbox}
    Names = {n, inbox}
    Root = Root
    MaxMoves = 2

SYMMETRY Symmetry

INVARIANTS
    RefusedOnlyIfMoved
    StructureKept
