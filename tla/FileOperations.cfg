\* Two commands, one after the other or at the same time, killed anywhere, with one
\* close that loses data.
SPECIFICATION Spec
CONSTANTS
    c1 = c1
    c2 = c2
    a = a
    b = b
    Commands <- TwoCommands
    Documents <- TwoDocuments
    NoDocument = NoDocument
    NoPath = NoPath
    Before <- JustA
    Size = 2
    CommandLines <- Lines
    MaxStarts = 2
    MaxLosses = 1
SYMMETRY Symmetry
INVARIANTS NeverHalf SuccessIsWhole
PROPERTIES OnlyTheseLoseADocument
CHECK_DEADLOCK FALSE
